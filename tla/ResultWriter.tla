---------------------------- MODULE ResultWriter ----------------------------
(***************************************************************************)
(* bench/runner.py write_results: processes that write results into one    *)
(* directory in the same second look for a basename of their own.  A set   *)
(* of results is four files, and a process probes for them, creates them   *)
(* one by one with exclusive opens, and cleans up after a collision or an  *)
(* exception; any of these steps of different processes may interleave.    *)
(* A file is its author.  Candidate basenames are numbered by the counter  *)
(* that makes their suffix.                                                *)
(***************************************************************************)
EXTENDS Integers, Sequences

CONSTANTS
  Writers,      \* the processes
  Nobody,       \* the author of a file that does not exist
  Earlier,      \* the author of files that were there before
  MaxCounter,   \* 10_000
  Leftovers     \* possible sets of <<basename, artifact>> there before

Bases == 0 .. MaxCounter

\* The artifacts in the order they are probed for and created.
JSONL == 1
CSV == 2
CONFIG == 3
DIAGNOSTICS == 4
Artifacts == JSONL .. DIAGNOSTICS

ASSUME AuthorsAssumption ==
  Nobody \notin Writers /\ Earlier \notin Writers /\ Nobody # Earlier
ASSUME CounterAssumption == MaxCounter \in Nat
ASSUME LeftoversAssumption == Leftovers \subseteq SUBSET (Bases \X Artifacts)

VARIABLES
  file,      \* the author of each artifact of each basename
  pc,        \* where each writer is in its call
  counter,   \* its candidate basename
  at,        \* the artifact it probes for, creates or writes
  remove,    \* the artifacts its cleanup has yet to unlink, in order
  failed     \* its cleanup ends by raising

vars == <<file, pc, counter, at, remove, failed>>

Init ==
  /\ \E left \in Leftovers :
       file = [b \in Bases |-> [k \in Artifacts |->
                IF <<b, k>> \in left THEN Earlier ELSE Nobody]]
  /\ pc = [w \in Writers |-> "probe"]
  /\ counter = [w \in Writers |-> 0]
  /\ at = [w \in Writers |-> JSONL]
  /\ remove = [w \in Writers |-> <<>>]
  /\ failed = [w \in Writers |-> FALSE]

Present(w) == file[counter[w]][at[w]]

-----------------------------------------------------------------------------
\* The loop goes round with the next counter.
NextCandidate(w) ==
  /\ counter' = [counter EXCEPT ![w] = @ + 1]
  /\ at' = [at EXCEPT ![w] = JSONL]
  /\ pc' = [pc EXCEPT ![w] = "probe"]

\* "could not allocate unique output basename"
GiveUp(w) ==
  /\ pc[w] = "probe"
  /\ counter[w] > MaxCounter
  /\ pc' = [pc EXCEPT ![w] = "raised"]
  /\ UNCHANGED <<file, counter, at, remove, failed>>

\* Mutant of ProbeFinds: the counter is not counted up before the loop goes on.
ProbeFindsSame(w) ==
  /\ pc[w] = "probe"
  /\ counter[w] <= MaxCounter
  /\ Present(w) # Nobody
  /\ at' = [at EXCEPT ![w] = JSONL]
  /\ UNCHANGED <<file, pc, counter, remove, failed>>

\* any(p.exists() ...) comes upon a file.
ProbeFinds(w) ==
  /\ pc[w] = "probe"
  /\ counter[w] <= MaxCounter
  /\ Present(w) # Nobody
  /\ NextCandidate(w)
  /\ UNCHANGED <<file, remove, failed>>

\* It goes on to the next artifact, and after the last one to the reservation.
ProbePasses(w) ==
  /\ pc[w] = "probe"
  /\ counter[w] <= MaxCounter
  /\ Present(w) = Nobody
  /\ IF at[w] = DIAGNOSTICS
     THEN at' = [at EXCEPT ![w] = JSONL] /\ pc' = [pc EXCEPT ![w] = "open"]
     ELSE at' = [at EXCEPT ![w] = @ + 1] /\ UNCHANGED pc
  /\ UNCHANGED <<file, counter, remove, failed>>

\* Mutant of Open: the file is opened with mode "w".
OpenOverwriting(w) ==
  /\ pc[w] = "open"
  /\ file' = [file EXCEPT ![counter[w]][at[w]] = w]
  /\ pc' = [pc EXCEPT ![w] = "write"]
  /\ UNCHANGED <<counter, at, remove, failed>>

\* An open with mode "x" creates the file.
Open(w) ==
  /\ pc[w] = "open"
  /\ Present(w) = Nobody
  /\ file' = [file EXCEPT ![counter[w]][at[w]] = w]
  /\ pc' = [pc EXCEPT ![w] = "write"]
  /\ UNCHANGED <<counter, at, remove, failed>>

\* The artifacts up to k, as `created` lists them.
UpTo(k) == [i \in 1 .. k |-> i]

CleanUp(w, ks, raise) ==
  /\ pc' = [pc EXCEPT ![w] = "clean"]
  /\ remove' = [remove EXCEPT ![w] = ks]
  /\ failed' = [failed EXCEPT ![w] = raise]
  /\ UNCHANGED <<file, counter, at>>

\* Mutant of Collide: the file that is in the way is removed as well.
CollideRemovesAll(w) ==
  /\ pc[w] = "open"
  /\ Present(w) # Nobody
  /\ CleanUp(w, UpTo(at[w]), FALSE)

\* FileExistsError
Collide(w) ==
  /\ pc[w] = "open"
  /\ Present(w) # Nobody
  /\ CleanUp(w, UpTo(at[w] - 1), FALSE)

\* An open fails for another reason, or what precedes it raises.
OpenRaises(w) ==
  /\ pc[w] = "open"
  /\ CleanUp(w, UpTo(at[w] - 1), TRUE)

\* An artifact is written; the last one ends the call.
Write(w) ==
  /\ pc[w] = "write"
  /\ IF at[w] = DIAGNOSTICS
     THEN pc' = [pc EXCEPT ![w] = "done"] /\ UNCHANGED at
     ELSE pc' = [pc EXCEPT ![w] = "open"] /\ at' = [at EXCEPT ![w] = @ + 1]
  /\ UNCHANGED <<file, counter, remove, failed>>

\* Mutant of WriteRaises: records_to_csv leaves its file to the caller, which
\* lists the CSV only after it was written.
WriteRaisesLeavingCsv(w) ==
  /\ pc[w] = "write"
  /\ CleanUp(w, IF at[w] = CSV THEN UpTo(JSONL) ELSE UpTo(at[w]), TRUE)

\* Writing raises.  records_to_csv removes its own file before the caller
\* removes the others.
WriteRaises(w) ==
  /\ pc[w] = "write"
  /\ CleanUp(w, IF at[w] = CSV THEN <<CSV, JSONL>> ELSE UpTo(at[w]), TRUE)

\* p.unlink(missing_ok=True), whoever the author is.
Unlink(w) ==
  /\ pc[w] = "clean"
  /\ remove[w] # <<>>
  /\ file' = [file EXCEPT ![counter[w]][Head(remove[w])] = Nobody]
  /\ remove' = [remove EXCEPT ![w] = Tail(@)]
  /\ UNCHANGED <<pc, counter, at, failed>>

\* After a collision the next basename is tried.
Retry(w) ==
  /\ pc[w] = "clean"
  /\ remove[w] = <<>>
  /\ ~failed[w]
  /\ NextCandidate(w)
  /\ UNCHANGED <<file, remove, failed>>

\* Another exception is raised again.
Raise(w) ==
  /\ pc[w] = "clean"
  /\ remove[w] = <<>>
  /\ failed[w]
  /\ pc' = [pc EXCEPT ![w] = "raised"]
  /\ UNCHANGED <<file, counter, at, remove, failed>>

Returned == {"done", "raised"}

\* The process is killed between two steps.
Crash(w) ==
  /\ pc[w] \notin Returned \cup {"crashed"}
  /\ pc' = [pc EXCEPT ![w] = "crashed"]
  /\ UNCHANGED <<file, counter, at, remove, failed>>

Step(w) ==
  \/ GiveUp(w) \/ ProbeFinds(w) \/ ProbePasses(w)
  \/ Open(w) \/ Collide(w) \/ OpenRaises(w)
  \/ Write(w) \/ WriteRaises(w)
  \/ Unlink(w) \/ Retry(w) \/ Raise(w)

Next == \E w \in Writers : Step(w) \/ Crash(w)

Spec == Init /\ [][Next]_vars

\* The operating system runs every process that was not killed.
FairSpec == Spec /\ \A w \in Writers : WF_vars(Step(w))

-----------------------------------------------------------------------------
(***************************************************************************)
(* Properties.                                                             *)
(***************************************************************************)

\* Every variable keeps its type; the counter passes its limit by one.
TypeOK ==
  /\ file \in [Bases -> [Artifacts -> Writers \cup {Nobody, Earlier}]]
  /\ pc \in [Writers -> Returned \cup {"probe", "open", "write", "clean", "crashed"}]
  /\ counter \in [Writers -> 0 .. MaxCounter + 1]
  /\ at \in [Writers -> Artifacts]
  /\ remove \in [Writers -> Seq(Artifacts)]
  /\ failed \in [Writers -> BOOLEAN]

\* A set that was returned is complete and of one author, and stays so.
WinnersComplete ==
  \A w \in Writers : pc[w] = "done" =>
    \A k \in Artifacts : file[counter[w]][k] = w

\* "Failed exclusive writes must remove their partial result artifacts": only
\* a process that was killed leaves files behind, whether it gave up a basename
\* after a collision or the whole call by an exception.
NothingLeftBehind ==
  \A w \in Writers, b \in Bases, k \in Artifacts : file[b][k] = w =>
    \/ pc[w] = "crashed"
    \/ b = counter[w] /\ pc[w] \in {"open", "write", "clean", "done"}

\* No file is overwritten, and none is removed but by the cleanup of the
\* process that created it.
OnlyAuthorsRemove ==
  [][\A b \in Bases, k \in Artifacts :
       file[b][k] # Nobody /\ file'[b][k] # file[b][k] =>
         /\ file'[b][k] = Nobody
         /\ file[b][k] \in Writers
         /\ pc[file[b][k]] = "clean"]_vars

\* Every call that is not killed returns or raises, however the calls get in
\* each other's way.
EveryCallEnds ==
  \A w \in Writers : <>(pc[w] \in Returned \cup {"crashed"})

\* Seen from outside, whole sets appear one at a time, under basenames of their
\* own, and none is ever taken back or replaced.
PublishedBy(w, b) ==
  /\ pc[w] = "done"
  /\ counter[w] = b
  /\ \A k \in Artifacts : file[b][k] = w

Published ==
  [b \in Bases |-> IF \E w \in Writers : PublishedBy(w, b)
                  THEN CHOOSE w \in Writers : PublishedBy(w, b)
                  ELSE Nobody]

Sets == INSTANCE ResultSets WITH published <- Published

PublishesSets == Sets!Spec
=============================================================================
