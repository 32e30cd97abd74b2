---------------------------- MODULE FileHandles ----------------------------
(***************************************************************************)
(* file_store and file_read: an object keeps the file its worker thread    *)
(* uses (d_fp) and one that another thread opened and the worker is to use *)
(* next (d_new_fp). open() and close() run in the control thread under the *)
(* mutex; store_data() and read_data() run in the worker, call do_update() *)
(* and then use d_fp. file_read also has seek(), which the control thread  *)
(* calls and which uses d_fp without the mutex. The two classes agree in   *)
(* the rest and differ in what they do with errors and with a file that is *)
(* replaced before it was used; which of them the object is an instance of *)
(* is chosen at first.                                                     *)
(*                                                                         *)
(* A handle is the number of the fdopen() that returned it; 0 is NULL.     *)
(***************************************************************************)
EXTENDS Integers, Sequences, FiniteSets

CONSTANTS
  MaxOpens,   \* bound: calls of open(), the constructor's among them
  Sizes,      \* the lengths a file may have, in items
  Items       \* array_size of a call of read_data()

ASSUME FileAssumption ==
  /\ MaxOpens \in Nat \ {0} /\ Items \in Nat \ {0}
  /\ Sizes \subseteq Nat /\ Sizes # {}

VARIABLES
  kind,       \* "store" or "read"
  fp,         \* d_fp
  newFp,      \* d_new_fp
  updated,    \* d_updated
  repeat,     \* d_repeat, of file_read
  lock,       \* who holds the mutex: "control", "worker" or "none"
  control,    \* the control thread: "idle", "open", "opened", "close", "seek", "gone"
  aim,        \* the d_fp that seek() has passed to fseek()
  worker,     \* the worker: "idle", "update", "use", "reading", "gone"
  want,       \* size: the items read_data still has to read
  left,       \* the items between the position of d_fp and its end
  \* history
  closes,     \* closes[h]: how often handle h was passed to fclose()
  size,       \* size[h]: the items of the file of h
  replaced,   \* the opens made while another file waited to be installed
  chosen,     \* the handle the last call of the control thread left to be used
  recent      \* those that were chosen at some time since the worker's call began

files == <<kind, aim, closes, size, replaced, chosen>>
fileVars == <<kind, fp, newFp, updated, repeat, lock, control, aim, worker, want,
              left, closes, size, replaced, chosen, recent>>

Handles == 1 .. Len(closes)
Closed(h) == [closes EXCEPT ![h] = @ + 1]
Choose(h) == chosen' = h /\ recent' = recent \cup {h}

-----------------------------------------------------------------------------
(***************************************************************************)
(* The constructors: file_store opens its file and leaves it to the first  *)
(* do_update(), file_read installs it.                                     *)
(***************************************************************************)
FilesInit ==
  /\ kind \in {"store", "read"}
  /\ IF kind = "store" THEN fp = 0 /\ newFp = 1 /\ updated = TRUE
                       ELSE fp = 1 /\ newFp = 0 /\ updated = FALSE
  /\ repeat \in BOOLEAN
  /\ \E n \in Sizes : size = <<n>> /\ left = n
  /\ lock = "none" /\ control = "idle" /\ aim = 0 /\ worker = "idle" /\ want = 0
  /\ closes = <<0>> /\ replaced = 0 /\ chosen = 1 /\ recent = {1}

-----------------------------------------------------------------------------
(***************************************************************************)
(* The control thread.                                                     *)
(***************************************************************************)

\* scoped_lock in open() and close().
Begin(op) ==
  /\ control = "idle" /\ lock = "none"
  /\ op = "open" => Len(closes) < MaxOpens
  /\ control' = op /\ lock' = "control"
  /\ UNCHANGED <<kind, aim, fp, newFp, updated, repeat, worker, want, left, closes,
                 size, replaced, chosen, recent>>

\* The call returns, or throws: the mutex is released.
Return == control' = "idle" /\ lock' = "none"

\* The process ends: nothing runs any more.
ProcessEnds == control' = "gone" /\ worker' = "gone" /\ lock' = "none"

\* ::open() fails: nothing changes.
NoSuchFile ==
  /\ control = "open"
  /\ Return
  /\ UNCHANGED <<kind, aim, fp, newFp, updated, repeat, worker, want, left, closes,
                 size, replaced, chosen, recent>>

\* Mutant: file_read forgets a file that waits, too.
ForgetPending == closes

\* What open() does with a file that waits: file_read closes it; file_store clears
\* d_new_fp and then passes the null pointer to fclose().
DropPending == IF kind = "read" /\ newFp # 0 THEN Closed(newFp) ELSE closes

\* fclose(NULL) is undefined: it may end the process, or return.
CloseOfNull ==
  /\ control = "open" /\ kind = "store" /\ newFp # 0
  /\ ProcessEnds
  /\ newFp' = 0 /\ replaced' = replaced + 1
  /\ UNCHANGED <<kind, aim, fp, updated, repeat, want, left, closes, size, chosen, recent>>

\* fdopen() succeeds.
Fdopen ==
  /\ control = "open"
  /\ \E n \in Sizes :
       /\ closes' = Append(DropPending, 0)
       /\ size' = Append(size, n)
  /\ newFp' = Len(closes')
  /\ replaced' = replaced + (IF newFp # 0 THEN 1 ELSE 0)
  /\ control' = "opened"
  /\ UNCHANGED <<kind, aim, fp, updated, repeat, lock, worker, want, left, chosen, recent>>

\* fdopen() fails: file_store goes on without a file, file_read throws.
FdopenFails ==
  /\ control = "open"
  /\ closes' = DropPending
  /\ newFp' = 0
  /\ replaced' = replaced + (IF newFp # 0 THEN 1 ELSE 0)
  /\ updated' = (IF kind = "store" THEN TRUE ELSE updated)
  /\ Choose(IF kind = "store" \/ updated THEN 0 ELSE fp)
  /\ Return
  /\ UNCHANGED <<kind, aim, fp, repeat, worker, want, left, size>>

\* Mutant: the worker is not told.
OpenedSilently ==
  /\ control = "opened"
  /\ repeat' \in BOOLEAN
  /\ Choose(newFp)
  /\ Return
  /\ UNCHANGED <<kind, aim, fp, newFp, updated, worker, want, left, closes, size,
                 replaced>>

\* The end of open(): d_updated, and d_repeat of file_read.
Opened ==
  /\ control = "opened"
  /\ updated' = TRUE
  /\ IF kind = "read" THEN repeat' \in BOOLEAN ELSE UNCHANGED repeat
  /\ Choose(newFp)
  /\ Return
  /\ UNCHANGED <<kind, aim, fp, newFp, worker, want, left, closes, size, replaced>>

Close ==
  /\ control = "close"
  /\ closes' = (IF newFp # 0 THEN Closed(newFp) ELSE closes)
  /\ newFp' = 0 /\ updated' = TRUE
  /\ Choose(0)
  /\ Return
  /\ UNCHANGED <<kind, aim, fp, repeat, worker, want, left, size, replaced>>

\* seek() takes no lock: it loads d_fp ...
SeekBegins ==
  /\ kind = "read" /\ control = "idle"
  /\ control' = "seek" /\ aim' = fp
  /\ UNCHANGED <<kind, fp, newFp, updated, repeat, lock, worker, want, left, closes,
                 size, replaced, chosen, recent>>

\* ... and moves to any place in the file, or past its end where nothing is left, or
\* fails and stays.
SeekMoves ==
  /\ control = "seek" /\ aim # 0 /\ closes[aim] = 0
  /\ left' \in 0 .. size[aim]
  /\ control' = "idle"
  /\ UNCHANGED <<files, fp, newFp, updated, repeat, lock, worker, want, recent>>

\* There is no file, or do_update() has closed the one that was loaded: fseek() on it is
\* undefined. The process ends; or the call returns, and may have moved the file that
\* is used instead, for fdopen() uses the memory of closed files again.
SeekStale ==
  /\ control = "seek" /\ (aim # 0 => closes[aim] > 0)
  /\ \/ ProcessEnds /\ UNCHANGED left
     \/ /\ control' = "idle" /\ UNCHANGED <<lock, worker>>
        /\ left' \in {left} \cup (IF aim # 0 /\ fp # 0 THEN 0 .. size[fp] ELSE {})
  /\ UNCHANGED <<files, fp, newFp, updated, repeat, want, recent>>

\* The destructors, when no thread is in a call any more: both files are closed.
Destroy ==
  /\ control = "idle" /\ worker = "idle"
  /\ closes' = [h \in Handles |-> closes[h] + Cardinality({x \in {fp, newFp} : x = h})]
  /\ fp' = 0 /\ newFp' = 0 /\ updated' = TRUE
  /\ control' = "gone"
  /\ UNCHANGED <<kind, aim, repeat, lock, worker, want, left, size, replaced, chosen,
                 recent>>

-----------------------------------------------------------------------------
(***************************************************************************)
(* The worker.                                                             *)
(***************************************************************************)

\* store_data() or read_data() begins, and do_update() tests d_updated - without
\* the mutex.
Call ==
  /\ worker = "idle" /\ control # "gone"
  /\ worker' = (IF updated THEN "update" ELSE "use")
  /\ recent' = {chosen}
  /\ UNCHANGED <<kind, aim, fp, newFp, updated, repeat, lock, control, want, left,
                 closes, size, replaced, chosen>>

\* Mutant: d_new_fp is not cleared.
InstallAndKeep ==
  /\ worker = "update" /\ lock = "none"
  /\ closes' = (IF fp # 0 THEN Closed(fp) ELSE closes)
  /\ fp' = newFp /\ updated' = FALSE
  /\ left' = (IF newFp # 0 THEN size[newFp] ELSE 0)
  /\ worker' = "use"
  /\ UNCHANGED <<kind, aim, newFp, repeat, lock, control, want, size, replaced, chosen,
                 recent>>

\* The rest of do_update(): what waits is installed, whatever it is by now.
Install ==
  /\ worker = "update" /\ lock = "none"
  /\ closes' = (IF fp # 0 THEN Closed(fp) ELSE closes)
  /\ fp' = newFp /\ newFp' = 0 /\ updated' = FALSE
  /\ left' = (IF newFp # 0 THEN size[newFp] ELSE 0)
  /\ worker' = "use"
  /\ UNCHANGED <<kind, aim, repeat, lock, control, want, size, replaced, chosen, recent>>

\* store_data() writes to d_fp, or drops the data when there is no file; read_data()
\* throws when there is none.
Store ==
  /\ worker = "use"
  /\ kind = "read" => fp = 0
  /\ worker' = "idle"
  /\ UNCHANGED <<files, fp, newFp, updated, repeat, lock, control, want, left, recent>>

\* read_data() takes the mutex for the rest of the call.
BeginRead ==
  /\ kind = "read" /\ worker = "use" /\ fp # 0
  /\ lock = "none"
  /\ lock' = "worker" /\ worker' = "reading" /\ want' = Items
  /\ UNCHANGED <<files, fp, newFp, updated, repeat, control, left, recent>>

Least(a, b) == IF a < b THEN a ELSE b

\* fread() returns something: all that was wanted or less, for the file ends or an
\* error occurs.
ReadSome ==
  /\ worker = "reading" /\ want > 0
  /\ \E n \in 1 .. Least(want, left) : want' = want - n /\ left' = left - n
  /\ UNCHANGED <<files, fp, newFp, updated, repeat, lock, control, worker, recent>>

\* fread() returns nothing, at the end of the file or for an error, and d_repeat is set:
\* start again from the beginning.
Rewind ==
  /\ worker = "reading" /\ want > 0 /\ repeat
  /\ left' = size[fp]
  /\ UNCHANGED <<files, fp, newFp, updated, repeat, lock, control, worker, want,
                 recent>>

\* That fseek() fails: read_data() calls exit().
RewindFails ==
  /\ worker = "reading" /\ want > 0 /\ repeat
  /\ ProcessEnds
  /\ UNCHANGED <<files, fp, newFp, updated, repeat, want, left, recent>>

\* Mutant: the mutex is not released at the end of the file.
EndReadLocked ==
  /\ worker = "reading"
  /\ want = 0 \/ ~repeat
  /\ worker' = "idle" /\ want' = 0
  /\ lock' = (IF want = 0 THEN "none" ELSE lock)
  /\ UNCHANGED <<files, fp, newFp, updated, repeat, control, left, recent>>


\* All was read; or fread() returns nothing, at the end of the file or for an error, and
\* d_repeat is not set.
EndRead ==
  /\ worker = "reading"
  /\ want = 0 \/ ~repeat
  /\ worker' = "idle" /\ want' = 0 /\ lock' = "none"
  /\ UNCHANGED <<files, fp, newFp, updated, repeat, control, left, recent>>

-----------------------------------------------------------------------------
OpenSteps == NoSuchFile \/ CloseOfNull \/ Fdopen \/ FdopenFails \/ Opened
SeekSteps == SeekMoves \/ SeekStale
Control == \/ Begin("open") \/ Begin("close") \/ OpenSteps \/ Close \/ Destroy
           \/ SeekBegins \/ SeekSteps
ReadSteps == ReadSome \/ Rewind \/ RewindFails \/ EndRead
Worker == Call \/ Install \/ Store \/ BeginRead \/ ReadSteps

FilesNext == Control \/ Worker

\* Both threads run on; a thread that keeps finding the mutex free gets it. Nobody
\* has to open, close, seek, destroy or call, and fread() need not succeed.
Fairness ==
  /\ WF_fileVars(OpenSteps) /\ WF_fileVars(Close) /\ WF_fileVars(SeekSteps)
  /\ WF_fileVars(Store \/ ReadSteps)
  /\ SF_fileVars(Install) /\ SF_fileVars(BeginRead)

FilesSpec == FilesInit /\ [][FilesNext]_fileVars /\ Fairness

-----------------------------------------------------------------------------
(***************************************************************************)
(* Correctness.                                                            *)
(***************************************************************************)

Null == {0}

\* Handles are those fdopen() returned; the mutex is held by the thread that is in
\* its critical section.
FilesTypeOK ==
  /\ kind \in {"store", "read"} /\ updated \in BOOLEAN /\ repeat \in BOOLEAN
  /\ fp \in Handles \cup Null /\ newFp \in Handles \cup Null
  /\ aim \in Handles \cup Null
  /\ (lock = "control") <=> (control \in {"open", "opened", "close"})
  /\ (lock = "worker") <=> (worker = "reading")
  /\ worker \in {"idle", "update", "use", "reading", "gone"}
  /\ want \in 0 .. Items /\ left \in Nat /\ (fp # 0 => left <= size[fp])
  /\ Len(closes) \in 1 .. MaxOpens /\ Len(size) = Len(closes)
  /\ chosen \in recent /\ recent \subseteq Handles \cup Null

\* No file is closed twice, nor is a closed one in d_fp, where the worker uses it, or in
\* d_new_fp, whence it is installed (close, do_update, and the destructors). It does
\* not cover seek(), which loads d_fp without the mutex and may use it when do_update()
\* has closed it: SeekStale.
NoStaleHandle ==
  /\ \A h \in Handles : closes[h] <= 1
  /\ \A h \in {fp, newFp} \ Null : closes[h] = 0
  /\ fp = newFp => fp = 0

\* A file_read loses no file: each is in use, waiting, or closed, whatever the order of
\* opens, failed opens, closes and installs (open, close, do_update).
Lost == {h \in Handles : closes[h] = 0} \ {fp, newFp}
ReadLosesNothing == kind = "read" => Lost = {}

\* A file_store loses each file that another one replaced before the worker saw it, and
\* no other. file_store_base::open says of that case: "if we've already got a new one
\* open, close it", and clears d_new_fp before it does.
LossesCounted == Cardinality(Lost) = (IF kind = "store" THEN replaced ELSE 0)

\* A call of the worker uses what the control thread chose last before the call, or
\* chose during it; not an older file (d_updated is tested outside the mutex).
UsesLatest ==
  worker \in {"use", "reading"} => fp \in recent

\* read_data() gives the mutex back, so that open() and close() get their turn: always
\* if d_repeat is not set, and otherwise unless fread() gives nothing from some time
\* on, because the file is empty or its reads fail: the call then never ends.
NothingComes(n) == [](lock = "worker" /\ repeat /\ want = n)
=============================================================================
