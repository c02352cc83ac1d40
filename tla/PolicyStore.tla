---------------------------- MODULE PolicyStore ----------------------------
(***************************************************************************)
(* The policy store of the access server: the PAP plugin for POSIX file    *)
(* systems, plugins/pap/posix/pap_plugin_posix.c.                          *)
(*                                                                         *)
(* A policy lives in two places: a file stored_policies/<id>.txt of its    *)
(* own, and an entry of the index file stored_policies/stored_policies.txt *)
(* from which the list of all policies is read.  Neither is written        *)
(* atomically and no lock is held, so the steps below are the points at    *)
(* which another thread, a crash or a failing fopen can see the disk:      *)
(*                                                                         *)
(*   put  fopen(policy,"w+") | fwrite..fclose(policy) | append to index    *)
(*   del  remove(policy) | read index | fopen(index,"w") | fwrite..fclose  *)
(*                                                                         *)
(* (stdio buffers fwrite, so the data reach the file when it is closed.)   *)
(* One thread of the server writes (the policy loader), one reads (the     *)
(* network thread, through the PDP and GET_POL_LIST).                      *)
(***************************************************************************)
EXTENDS Naturals, Sequences, SequencesExt, FiniteSets

CONSTANTS
    Ids,        \* policy identifiers (fixed-length hexadecimal strings)
    Objs,       \* policy contents, all sections of the file together
    Absent,     \* there is no file
    Torn,       \* the file was truncated by fopen and not yet written
    MaxIndex,   \* bound: entries of the index file
    MaxFaults   \* bound: crashes and failing fopen calls

ASSUME ContentsDistinct ==
    /\ Absent \notin Objs
    /\ Torn \notin Objs
    /\ Absent # Torn
    /\ MaxIndex \in Nat
    /\ MaxFaults \in Nat

VARIABLES
    file,         \* [Ids -> content of stored_policies/<id>.txt]
    index,        \* the ids in stored_policies.txt, in file order
    indexExists,  \* stored_policies.txt exists
    wpc,          \* where the writing thread is
    wid,          \* policy_id of the operation under way
    wobj,         \* what put is storing
    snapshot,     \* stored_pol_buff: the index as flush read it
    wret,         \* what store_policy / flush_policy last returned
    rres,         \* what the reading thread's last call gave it
    faults,       \* crashes and failed calls so far
    (* History variables: no step of the code depends on them. *)
    committed,    \* what the last operation that returned TRUE left
    fileCut,      \* ids whose last operation was cut short
    listCut       \* ids whose index entry a cut operation may have cost

disk  == <<file, index, indexExists>>
ghost == <<committed, fileCut, listCut>>
vars  == <<file, index, indexExists, wpc, wid, wobj, snapshot, wret, rres,
           faults, committed, fileCut, listCut>>

Contents == Objs \cup {Absent, Torn}

NoResult == [op |-> "none", id |-> "none", value |-> "none"]

PutPcs == {"putWrite", "putAppend"}
DelPcs == {"delRead", "delTrunc", "delWrite"}

BusyWith(id) == wpc # "idle" /\ wid = id

Init ==
    /\ file = [id \in Ids |-> Absent]
    /\ index = <<>>
    /\ indexExists = FALSE
    /\ wpc = "idle"
    /\ wid \in Ids
    /\ wobj \in Objs
    /\ snapshot = <<>>
    /\ wret = TRUE
    /\ rres = NoResult
    /\ faults = 0
    /\ committed = [id \in Ids |-> Absent]
    /\ fileCut = {}
    /\ listCut = {}

-----------------------------------------------------------------------------
(* What stops an operation half-way *)

\* The ids that may be missing from the index if the operation under way
\* stops here: all of them while flush has it truncated.
Lost == IF wpc = "delWrite" THEN Ids ELSE {wid}

\* The operation under way ends without having done all its work.
Abandon ==
    /\ wpc' = "idle"
    /\ fileCut' = fileCut \cup {wid}
    /\ listCut' = listCut \cup Lost
    /\ snapshot' = <<>>
    /\ UNCHANGED <<wid, wobj, committed>>

\* The process dies and is started again; the files stay as they are.
Die ==
    /\ rres' = NoResult
    /\ \/ wpc # "idle" /\ Abandon
       \/ wpc = "idle" /\ UNCHANGED <<wpc, wid, wobj, snapshot, ghost>>

-----------------------------------------------------------------------------
(* put_cb -> store_policy -> posix_store_policy *)

\* A policy with another hash function or signature algorithm than SHA-256
\* and ECDSA is refused, and so is one whose file cannot be opened, before
\* anything is written.
PutRefused ==
    /\ wpc = "idle"
    /\ wret' = FALSE
    /\ UNCHANGED <<disk, wpc, wid, wobj, snapshot, rres, faults, ghost>>

\* fopen(pol_path, "w+"): creates the file, or truncates the one there is.
PutOpen(id, obj) ==
    /\ wpc = "idle"
    /\ Len(index) < MaxIndex
    /\ file' = [file EXCEPT ![id] = Torn]
    /\ wpc' = "putWrite"
    /\ wid' = id
    /\ wobj' = obj
    /\ UNCHANGED <<index, indexExists, snapshot, wret, rres, faults, ghost>>

\* The sections are written and the file is closed.
PutWrite ==
    /\ wpc = "putWrite"
    /\ file' = [file EXCEPT ![wid] = wobj]
    /\ wpc' = "putAppend"
    /\ UNCHANGED <<index, indexExists, wid, wobj, snapshot, wret, rres,
                   faults, ghost>>

\* Mutant: the content goes into the index where the id belongs.
PutAppendsContent ==
    /\ wpc = "putAppend"
    /\ index' = Append(index, wobj)
    /\ indexExists' = TRUE
    /\ wpc' = "idle"
    /\ wret' = TRUE
    /\ committed' = [committed EXCEPT ![wid] = wobj]
    /\ fileCut' = fileCut \ {wid}
    /\ listCut' = listCut \ {wid}
    /\ UNCHANGED <<file, wid, wobj, snapshot, rres, faults>>

\* Mutant: the index is opened with "w" instead of "a".
PutTruncatesIndex ==
    /\ wpc = "putAppend"
    /\ index' = <<wid>>
    /\ indexExists' = TRUE
    /\ wpc' = "idle"
    /\ wret' = TRUE
    /\ committed' = [committed EXCEPT ![wid] = wobj]
    /\ fileCut' = fileCut \ {wid}
    /\ listCut' = listCut \ {wid}
    /\ UNCHANGED <<file, wid, wobj, snapshot, rres, faults>>

\* The id and a "|" are appended to the index, whether or not the id is
\* there already.
PutAppend ==
    /\ wpc = "putAppend"
    /\ index' = Append(index, wid)
    /\ indexExists' = TRUE
    /\ wpc' = "idle"
    /\ wret' = TRUE
    /\ committed' = [committed EXCEPT ![wid] = wobj]
    /\ fileCut' = fileCut \ {wid}
    /\ listCut' = listCut \ {wid}
    /\ UNCHANGED <<file, wid, wobj, snapshot, rres, faults>>

-----------------------------------------------------------------------------
(* del_cb -> flush_policy -> posix_flush_policy *)

\* remove(pol_path) fails: there is no such policy.
DelMissing(id) ==
    /\ wpc = "idle"
    /\ file[id] = Absent
    /\ wret' = FALSE
    /\ UNCHANGED <<disk, wpc, wid, wobj, snapshot, rres, faults, ghost>>

\* Mutant: the policy is unlisted but its file is left behind.
DelKeepsFile(id) ==
    /\ wpc = "idle"
    /\ file[id] # Absent
    /\ wpc' = "delRead"
    /\ wid' = id
    /\ UNCHANGED <<disk, wobj, snapshot, wret, rres, faults, ghost>>

\* remove(pol_path) succeeds.
DelRemove(id) ==
    /\ wpc = "idle"
    /\ file[id] # Absent
    /\ file' = [file EXCEPT ![id] = Absent]
    /\ wpc' = "delRead"
    /\ wid' = id
    /\ UNCHANGED <<index, indexExists, wobj, snapshot, wret, rres, faults,
                   ghost>>

\* The index is missing: flush returns FALSE, the file is gone.
DelNoIndex ==
    /\ wpc = "delRead"
    /\ ~indexExists
    /\ wret' = FALSE
    /\ Abandon
    /\ UNCHANGED <<disk, rres, faults>>

\* The index is read into stored_pol_buff and the id is found in it.
DelRead ==
    /\ wpc = "delRead"
    /\ indexExists
    /\ Contains(index, wid)
    /\ snapshot' = index
    /\ wpc' = "delTrunc"
    /\ UNCHANGED <<disk, wid, wobj, wret, rres, faults, ghost>>

\* strstr finds no such id and returns NULL: memcpy is asked for NULL -
\* stored_pol_buff bytes, and the process dies.
DelUnlisted ==
    /\ wpc = "delRead"
    /\ indexExists
    /\ ~Contains(index, wid)
    /\ Die
    /\ UNCHANGED <<disk, wret, faults>>

\* fopen(pol_path, "w") truncates the index.
DelTrunc ==
    /\ wpc = "delTrunc"
    /\ index' = <<>>
    /\ wpc' = "delWrite"
    /\ UNCHANGED <<file, indexExists, wid, wobj, snapshot, wret, rres, faults,
                   ghost>>

\* Where strstr finds id in the index (no position when it does not).
FirstAt(s, id) ==
    {i \in 1..Len(s) : s[i] = id /\ \A j \in 1..(i - 1) : s[j] # id}

\* Mutant: the second memcpy starts one entry too late.
DelDropsNext ==
    /\ wpc = "delWrite"
    /\ \E i \in FirstAt(snapshot, wid) :
          index' = SubSeq(snapshot, 1, i - 1) \o SubSeq(snapshot, i + 2, Len(snapshot))
    /\ wpc' = "idle"
    /\ wret' = TRUE
    /\ committed' = [committed EXCEPT ![wid] = Absent]
    /\ fileCut' = fileCut \ {wid}
    /\ listCut' = listCut \ {wid}
    /\ snapshot' = <<>>
    /\ UNCHANGED <<file, indexExists, wid, wobj, rres, faults>>

\* stored_pol_buff_new, the old index without the first occurrence of the id,
\* is written back.
DelWrite ==
    /\ wpc = "delWrite"
    /\ \E i \in FirstAt(snapshot, wid) : index' = RemoveAt(snapshot, i)
    /\ wpc' = "idle"
    /\ wret' = TRUE
    /\ committed' = [committed EXCEPT ![wid] = Absent]
    /\ fileCut' = fileCut \ {wid}
    /\ listCut' = listCut \ {wid}
    /\ snapshot' = <<>>
    /\ UNCHANGED <<file, indexExists, wid, wobj, rres, faults>>

-----------------------------------------------------------------------------
(* has_cb, get_cb and get_all_cb, called by the reading thread *)

\* posix_check_if_stored_policy: access(pol_path, F_OK).
Has(id) ==
    /\ rres' = [op |-> "has", id |-> id, value |-> file[id] # Absent]
    /\ UNCHANGED <<disk, wpc, wid, wobj, snapshot, wret, faults, ghost>>

\* posix_acquire_policy and posix_get_pol_obj_len: fopen fails when there is no
\* file, otherwise the sections are copied out of it.
Get(id) ==
    /\ rres' = [op |-> "get", id |-> id, value |-> file[id]]
    /\ UNCHANGED <<disk, wpc, wid, wobj, snapshot, wret, faults, ghost>>

\* In a truncated file strstr finds no section: its NULL is used as if it were
\* a string, which gives the caller garbage (above) or kills the process.
GetTorn(id) ==
    /\ file[id] = Torn
    /\ Die
    /\ UNCHANGED <<disk, wret, faults>>

\* Mutant: the first token is consumed before the loop.
GetAllButFirst ==
    /\ rres' = [op |-> "all", id |-> "none",
                value |-> IF index = <<>> THEN <<>> ELSE Tail(index)]
    /\ UNCHANGED <<disk, wpc, wid, wobj, snapshot, wret, faults, ghost>>

\* acquire_all_policies: the entries of the index, repetitions included; an
\* index that does not exist leaves the caller's list empty.
GetAll ==
    /\ rres' = [op |-> "all", id |-> "none",
                value |-> IF indexExists THEN index ELSE <<>>]
    /\ UNCHANGED <<disk, wpc, wid, wobj, snapshot, wret, faults, ghost>>

-----------------------------------------------------------------------------
(* Faults *)

\* The fopen that comes next fails: the operation returns FALSE half-way.
\* (The close that ends a put or a flush is not an fopen.)
OpenFails ==
    /\ faults < MaxFaults
    /\ wpc \in {"putAppend", "delRead", "delTrunc"}
    /\ wret' = FALSE
    /\ Abandon
    /\ faults' = faults + 1
    /\ UNCHANGED <<disk, rres>>

\* The process dies in the middle of an operation.  An index that was about to
\* be appended to may or may not have been created.
Crash ==
    /\ faults < MaxFaults
    /\ wpc # "idle"
    /\ indexExists' \in {indexExists, indexExists \/ wpc = "putAppend"}
    /\ Die
    /\ faults' = faults + 1
    /\ UNCHANGED <<file, index, wret>>

-----------------------------------------------------------------------------

Writer ==
    \/ PutRefused
    \/ \E id \in Ids, obj \in Objs : PutOpen(id, obj)
    \/ PutWrite
    \/ PutAppend
    \/ \E id \in Ids : DelMissing(id)
    \/ \E id \in Ids : DelRemove(id)
    \/ DelNoIndex
    \/ DelRead
    \/ DelUnlisted
    \/ DelTrunc
    \/ DelWrite

Reader == (\E id \in Ids : Has(id) \/ Get(id) \/ GetTorn(id)) \/ GetAll

Next == Writer \/ Reader \/ OpenFails \/ Crash

Spec == Init /\ [][Next]_vars

-----------------------------------------------------------------------------
(* Properties *)

Results == [op : {"none", "has", "get", "all"}, id : Ids \cup {"none"},
            value : Contents \cup BOOLEAN \cup Seq(Ids) \cup {"none"}]

\* Every variable has a value of its type: file contents are whole, torn or
\* absent, the writing thread is at one of the steps above.
TypeOK ==
    /\ file \in [Ids -> Contents]
    /\ index \in Seq(Ids)
    /\ indexExists \in BOOLEAN
    /\ wpc \in {"idle"} \cup PutPcs \cup DelPcs
    /\ wid \in Ids
    /\ wobj \in Objs
    /\ snapshot \in Seq(Ids)
    /\ wret \in BOOLEAN
    /\ faults \in 0..MaxFaults
    /\ committed \in [Ids -> Objs \cup {Absent}]
    /\ fileCut \subseteq Ids
    /\ listCut \subseteq Ids

\* The file of a policy is what the last put or del of it that returned TRUE
\* left there, whatever happened to other policies, unless an operation on
\* this very policy was cut short and none has completed since: a crash or
\* error in posix_store_policy and posix_flush_policy damages only the policy
\* it was called for, and a later put repairs that one.
Durable ==
    \A id \in Ids : id \notin fileCut /\ ~BusyWith(id) => file[id] = committed[id]

\* A stored policy is listed in the index, at every moment except while flush
\* has the index truncated; only an operation on the policy itself, or a flush
\* stopped between fopen(index,"w") and fclose, can cost it its entry.
Listed ==
    wpc # "delWrite" =>
        \A id \in Ids \ listCut : committed[id] # Absent => Contains(index, id)

\* flush finds the id it searches the index for (strstr does not return NULL),
\* unless an earlier operation was cut short.
FlushFindsId ==
    wpc = "delRead" /\ wid \notin fileCut \cup listCut => Contains(index, wid)

\* Why the three above hold across the steps of one operation: put has written
\* what it is about to list, flush has removed a file that was stored, and the
\* index it writes back is the one it read (a missing index counts as empty).
InFlight ==
    /\ ~indexExists => index = <<>> /\ wpc \notin {"delTrunc", "delWrite"}
    /\ wpc = "putAppend" => file[wid] = wobj
    /\ wpc \in DelPcs => file[wid] = Absent
    /\ wpc \in DelPcs /\ wid \notin fileCut => committed[wid] # Absent
    /\ wpc = "delTrunc" => snapshot = index
    /\ wpc = "delWrite" =>
          \A id \in Ids \ listCut :
              committed[id] # Absent => Contains(snapshot, id)

\* The inductive invariant of the store.
IndInv == TypeOK /\ Durable /\ Listed /\ InFlight

\* What a reader is told is right unless the policy is being changed or was
\* left damaged by a cut operation: has and get agree with the last completed
\* operation, and the list contains every stored policy.
ReaderTold ==
    [][\A id \in Ids :
        /\ Has(id) /\ ~BusyWith(id) /\ id \notin fileCut
              => rres'.value = (committed[id] # Absent)
        /\ Get(id) /\ ~BusyWith(id) /\ id \notin fileCut
              => rres'.value = committed[id]
        /\ GetAll /\ wpc # "delWrite" /\ id \notin listCut /\ committed[id] # Absent
              => Contains(rres'.value, id)]_rres
=============================================================================
