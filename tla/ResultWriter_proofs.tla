------------------------ MODULE ResultWriter_proofs ------------------------
(***************************************************************************)
(* Proofs about write_results, for any number of processes, any limit of   *)
(* the counter and any files that were there before.  The argument is one  *)
(* of ownership: a process that was not killed owns exactly the artifacts  *)
(* its place in the call says, so it can remove no other process's files.  *)
(***************************************************************************)
EXTENDS ResultWriter, TLAPS

\* The members of a sequence of artifacts.
Members(s) == {k \in Artifacts : \E i \in 1 .. Len(s) : s[i] = k}

Injective(s) == \A i, j \in 1 .. Len(s) : s[i] = s[j] => i = j

\* The artifacts that are the process's at its place in the call.
Holds(w) ==
  CASE pc[w] = "open" -> 1 .. at[w] - 1
    [] pc[w] = "write" -> 1 .. at[w]
    [] pc[w] = "clean" -> Members(remove[w])
    [] pc[w] = "done" -> Artifacts
    [] OTHER -> {}

Owns(w) ==
  \A b \in Bases, k \in Artifacts :
    file[b][k] = w <=> b = counter[w] /\ k \in Holds(w)

HasBasename(w) == counter[w] \in Bases

InvOf(w) ==
  /\ pc[w] # "crashed" => Owns(w)
  /\ pc[w] \in {"open", "write", "clean", "done"} => HasBasename(w)
  /\ pc[w] = "clean" => Injective(remove[w])

IInv == TypeOK /\ \A w \in Writers : InvOf(w)
-----------------------------------------------------------------------------
\* The artifacts of `created`: each once, and none beyond the k-th.
LEMMA UpToMembers ==
  ASSUME NEW k \in 0 .. DIAGNOSTICS
  PROVE  /\ UpTo(k) \in Seq(Artifacts)
         /\ Injective(UpTo(k))
         /\ Members(UpTo(k)) = 1 .. k
<1>1. UpTo(k) \in Seq(Artifacts) /\ Len(UpTo(k)) = k
  BY DEF UpTo, Artifacts, JSONL, DIAGNOSTICS
<1>2. \A i \in 1 .. k : UpTo(k)[i] = i
  BY DEF UpTo
<1> QED
  BY <1>1, <1>2 DEF Injective, Members, Artifacts, JSONL, DIAGNOSTICS

\* The same of the order in which a failed CSV is cleaned up.
LEMMA CsvFirstMembers ==
  LET s == <<CSV, JSONL>>
  IN  s \in Seq(Artifacts) /\ Injective(s) /\ Members(s) = 1 .. CSV
<1> DEFINE s == <<CSV, JSONL>>
<1>1. s \in Seq(Artifacts) /\ Len(s) = 2 /\ s[1] = 2 /\ s[2] = 1
  BY DEF Artifacts, JSONL, CSV, DIAGNOSTICS
<1> HIDE DEF s
<1>2. Injective(s)
  BY <1>1 DEF Injective
<1>3. Members(s) = 1 .. CSV
  BY <1>1 DEF Members, Artifacts, JSONL, CSV, DIAGNOSTICS
<1> QED
  BY <1>1, <1>2, <1>3 DEF s

\* Taking the head of an injective sequence takes one member.
LEMMA TailMembers ==
  ASSUME NEW s \in Seq(Artifacts), s # <<>>, Injective(s)
  PROVE  /\ Tail(s) \in Seq(Artifacts)
         /\ Injective(Tail(s))
         /\ Head(s) \in Members(s)
         /\ Members(Tail(s)) = Members(s) \ {Head(s)}
<1>1. /\ Len(s) \in Nat \ {0}
      /\ Head(s) = s[1]
      /\ \A i \in 1 .. Len(s) : s[i] \in Artifacts
  OBVIOUS
<1>2. /\ Tail(s) \in Seq(Artifacts)
      /\ Len(Tail(s)) = Len(s) - 1
      /\ \A i \in 1 .. Len(s) - 1 : Tail(s)[i] = s[i + 1]
  OBVIOUS
<1>3. Injective(Tail(s))
  <2>1. SUFFICES ASSUME NEW i \in 1 .. Len(s) - 1, NEW j \in 1 .. Len(s) - 1,
                        s[i + 1] = s[j + 1]
                 PROVE  i = j
    BY <1>1, <1>2 DEF Injective
  <2>2. i + 1 \in 1 .. Len(s) /\ j + 1 \in 1 .. Len(s)
    BY <1>1
  <2> QED
    BY <1>1, <2>1, <2>2 DEF Injective
<1>4. Head(s) \in Members(s)
  BY <1>1 DEF Members
<1>5. ASSUME NEW k \in Artifacts
      PROVE  k \in Members(Tail(s)) <=> k \in Members(s) /\ k # s[1]
  <2>1. ASSUME NEW i \in 1 .. Len(s) - 1, s[i + 1] = k
        PROVE  k \in Members(s) /\ k # s[1]
    <3>1. i + 1 \in 1 .. Len(s) /\ 1 \in 1 .. Len(s) /\ i + 1 # 1
      BY <1>1
    <3> QED
      BY <2>1, <3>1 DEF Members, Injective
  <2>2. ASSUME NEW i \in 1 .. Len(s), s[i] = k, k # s[1]
        PROVE  k \in Members(Tail(s))
    <3>1. i - 1 \in 1 .. Len(s) - 1 /\ i = (i - 1) + 1
      BY <1>1, <2>2
    <3> QED
      BY <1>2, <2>2, <3>1 DEF Members
  <2> QED
    BY <1>2, <2>1, <2>2 DEF Members
<1> QED
  BY <1>1, <1>2, <1>3, <1>4, <1>5 DEF Members

-----------------------------------------------------------------------------
\* The types, action by action.
LEMMA TypeStep ==
  ASSUME TypeOK, NEW w \in Writers, InvOf(w), Step(w) \/ Crash(w)
  PROVE  TypeOK'
<1> USE AuthorsAssumption, CounterAssumption DEF Returned
<1>a. at[w] \in Artifacts /\ counter[w] \in 0 .. MaxCounter + 1 /\ remove[w] \in Seq(Artifacts)
  BY DEF TypeOK
<1>1. CASE GiveUp(w)
  BY <1>1 DEF GiveUp, TypeOK
<1>2. CASE ProbeFinds(w)
  <2>1. counter[w] + 1 \in 0 .. MaxCounter + 1 /\ JSONL \in Artifacts
    BY <1>a, <1>2 DEF ProbeFinds, Artifacts, JSONL, DIAGNOSTICS
  <2> QED
    BY <1>2, <2>1 DEF ProbeFinds, NextCandidate, TypeOK
<1>3. CASE ProbePasses(w)
  <2>1. /\ JSONL \in Artifacts
        /\ at[w] # DIAGNOSTICS => at[w] + 1 \in Artifacts
    BY <1>a DEF Artifacts, JSONL, DIAGNOSTICS
  <2> QED
    BY <1>3, <2>1 DEF ProbePasses, TypeOK
<1>4. CASE Open(w)
  <2>1. counter[w] \in Bases
    BY <1>4 DEF Open, InvOf, HasBasename
  <2> QED
    BY <1>4, <1>a, <2>1 DEF Open, TypeOK
<1>5. ASSUME NEW ks \in Seq(Artifacts), NEW raise \in BOOLEAN, CleanUp(w, ks, raise)
      PROVE  TypeOK'
  BY <1>5 DEF CleanUp, TypeOK
<1>6. /\ UpTo(at[w] - 1) \in Seq(Artifacts)
      /\ UpTo(at[w]) \in Seq(Artifacts)
      /\ <<CSV, JSONL>> \in Seq(Artifacts)
  <2>1. at[w] - 1 \in 0 .. DIAGNOSTICS /\ at[w] \in 0 .. DIAGNOSTICS
    BY <1>a DEF Artifacts, JSONL, DIAGNOSTICS
  <2> QED
    BY <2>1, UpToMembers, CsvFirstMembers
<1>7. CASE Collide(w)
  BY <1>5, <1>6, <1>7 DEF Collide
<1>8. CASE OpenRaises(w)
  BY <1>5, <1>6, <1>8 DEF OpenRaises
<1>9. CASE Write(w)
  <2>1. at[w] # DIAGNOSTICS => at[w] + 1 \in Artifacts
    BY <1>a DEF Artifacts, JSONL, DIAGNOSTICS
  <2> QED
    BY <1>9, <2>1 DEF Write, TypeOK
<1>10. CASE WriteRaises(w)
  BY <1>5, <1>6, <1>10 DEF WriteRaises
<1>11. CASE Unlink(w)
  <2>1. counter[w] \in Bases /\ Injective(remove[w])
    BY <1>11 DEF Unlink, InvOf, HasBasename
  <2>2. Tail(remove[w]) \in Seq(Artifacts) /\ remove[w] # <<>>
    BY <1>11, <1>a, <2>1, TailMembers DEF Unlink
  <2> QED
    BY <1>11, <2>1, <2>2 DEF Unlink, TypeOK
<1>12. CASE Retry(w)
  <2>1. counter[w] + 1 \in 0 .. MaxCounter + 1 /\ JSONL \in Artifacts
    <3>1. counter[w] \in 0 .. MaxCounter
      BY <1>12 DEF Retry, InvOf, HasBasename, Bases
    <3> QED
      BY <3>1 DEF Artifacts, JSONL, DIAGNOSTICS
  <2> QED
    BY <1>12, <2>1 DEF Retry, NextCandidate, TypeOK
<1>13. CASE Raise(w)
  BY <1>13 DEF Raise, TypeOK
<1>14. CASE Crash(w)
  BY <1>14 DEF Crash, TypeOK
<1> QED
  BY <1>1, <1>2, <1>3, <1>4, <1>7, <1>8, <1>9, <1>10, <1>11, <1>12, <1>13, <1>14
  DEF Step

\* A process of which neither the place nor the files change keeps its part.
LEMMA Untouched ==
  ASSUME NEW v \in Writers, InvOf(v),
         pc'[v] = pc[v], counter'[v] = counter[v],
         at'[v] = at[v], remove'[v] = remove[v],
         \A b \in Bases, k \in Artifacts : file'[b][k] = v <=> file[b][k] = v
  PROVE  InvOf(v)'
<1>1. Holds(v)' = Holds(v)
  BY DEF Holds, Members
<1>2. ASSUME Owns(v) PROVE Owns(v)'
  BY <1>1, <1>2 DEF Owns
<1>3. Injective(remove[v])' <=> Injective(remove[v])
  BY DEF Injective
<1> QED
  BY <1>2, <1>3 DEF InvOf, HasBasename

-----------------------------------------------------------------------------
\* A file changes hands in two ways: it is created where none was, or its author
\* removes it.
LEMMA FileSteps ==
  ASSUME TypeOK, NEW w \in Writers, InvOf(w), Step(w) \/ Crash(w),
         NEW b \in Bases, NEW k \in Artifacts, file'[b][k] # file[b][k]
  PROVE  \/ file[b][k] = Nobody /\ file'[b][k] = w
         \/ /\ file[b][k] = w /\ file'[b][k] = Nobody
            /\ pc[w] = "clean"
<1>1. file' # file
  OBVIOUS
<1>2. Open(w) \/ Unlink(w)
  BY <1>1 DEF Step, GiveUp, ProbeFinds, ProbePasses, NextCandidate, Collide,
     OpenRaises, CleanUp, Write, WriteRaises, Retry, Raise, Crash
<1>3. CASE Open(w)
  <2>1. counter[w] \in Bases /\ at[w] \in Artifacts
    BY <1>3 DEF Open, InvOf, HasBasename, TypeOK
  <2>2. file[counter[w]][at[w]] = Nobody
    BY <1>3 DEF Open, Present
  <2>3. b = counter[w] /\ k = at[w] /\ file'[b][k] = w
    BY <1>3, <2>1 DEF Open, TypeOK
  <2> QED
    BY <2>2, <2>3
<1>4. CASE Unlink(w)
  <2>1. /\ counter[w] \in Bases
        /\ remove[w] \in Seq(Artifacts) /\ remove[w] # <<>>
        /\ Injective(remove[w])
        /\ Owns(w)
        /\ pc[w] = "clean"
    BY <1>4 DEF Unlink, InvOf, HasBasename, TypeOK
  <2>2. Head(remove[w]) \in Members(remove[w])
    BY <2>1, TailMembers
  <2>3. b = counter[w] /\ k = Head(remove[w]) /\ file'[b][k] = Nobody
    BY <1>4, <2>1 DEF Unlink, TypeOK
  <2>4. file[b][k] = w
    BY <2>1, <2>2, <2>3 DEF Owns, Holds
  <2> QED
    BY <2>1, <2>3, <2>4
<1> QED
  BY <1>2, <1>3, <1>4

\* A step of one process leaves the others' parts of the invariant alone.
LEMMA OthersKeep ==
  ASSUME TypeOK, NEW w \in Writers, InvOf(w), Step(w) \/ Crash(w),
         NEW v \in Writers, v # w, InvOf(v)
  PROVE  InvOf(v)'
<1>1. /\ pc'[v] = pc[v] /\ counter'[v] = counter[v]
      /\ at'[v] = at[v] /\ remove'[v] = remove[v]
  BY DEF TypeOK, Step, GiveUp, ProbeFinds, ProbePasses, NextCandidate, Open, Collide,
     OpenRaises, CleanUp, Write, WriteRaises, Unlink, Retry, Raise, Crash
<1>2. ASSUME NEW b \in Bases, NEW k \in Artifacts
      PROVE  file'[b][k] = v <=> file[b][k] = v
  BY FileSteps, AuthorsAssumption
<1> QED
  BY <1>1, <1>2, Untouched

\* A process's own step keeps its part.
LEMMA OwnStep ==
  ASSUME TypeOK, NEW w \in Writers, InvOf(w), Step(w) \/ Crash(w)
  PROVE  InvOf(w)'
<1>a. /\ at[w] \in Artifacts /\ counter[w] \in 0 .. MaxCounter + 1
      /\ remove[w] \in Seq(Artifacts)
  BY DEF TypeOK
<1>b. ASSUME file' = file, counter' = counter, Holds(w)' = Holds(w), Owns(w)
      PROVE  Owns(w)'
  BY <1>b DEF Owns
<1>c. ASSUME file' = file, Holds(w)' = {}, Holds(w) = {}, Owns(w)
      PROVE  Owns(w)'
  BY <1>c DEF Owns
<1>1. CASE GiveUp(w)
  <2>1. pc[w] = "probe" /\ pc'[w] = "raised"
    BY <1>1 DEF GiveUp, TypeOK
  <2>2. Holds(w) = {} /\ Holds(w)' = {}
    BY <2>1 DEF Holds
  <2>3. Owns(w) /\ file' = file
    BY <1>1, <2>1 DEF InvOf, GiveUp
  <2>4. Owns(w)'
    BY <1>c, <2>2, <2>3
  <2> QED
    BY <2>1, <2>4 DEF InvOf
<1>2. CASE ProbeFinds(w)
  <2>1. pc[w] = "probe" /\ pc'[w] = "probe"
    BY <1>2 DEF ProbeFinds, NextCandidate, TypeOK
  <2>2. Holds(w) = {} /\ Holds(w)' = {}
    BY <2>1 DEF Holds
  <2>3. Owns(w) /\ file' = file
    BY <1>2, <2>1 DEF InvOf, ProbeFinds
  <2>4. Owns(w)'
    BY <1>c, <2>2, <2>3
  <2> QED
    BY <2>1, <2>4 DEF InvOf
<1>3. CASE ProbePasses(w)
  <2>1. pc[w] = "probe" /\ file' = file /\ counter' = counter
    BY <1>3 DEF ProbePasses
  <2>2. \/ pc'[w] = "probe"
        \/ pc'[w] = "open" /\ at'[w] = JSONL
    <3>1. CASE at[w] = DIAGNOSTICS
      BY <1>3, <3>1 DEF ProbePasses, TypeOK
    <3>2. CASE at[w] # DIAGNOSTICS
      BY <1>3, <2>1, <3>2 DEF ProbePasses
    <3> QED
      BY <3>1, <3>2
  <2>3. Holds(w) = {} /\ Holds(w)' = {}
    BY <2>1, <2>2 DEF Holds, JSONL
  <2>4. Owns(w)'
    BY <1>c, <2>1, <2>3 DEF InvOf
  <2>5. HasBasename(w)'
    BY <1>3, <1>a, <2>1, CounterAssumption DEF HasBasename, Bases, ProbePasses
  <2> QED
    BY <2>2, <2>4, <2>5 DEF InvOf
<1>4. CASE Open(w)
  <2>1. pc[w] = "open" /\ counter' = counter /\ at' = at /\ remove' = remove
    BY <1>4 DEF Open
  <2>2. pc'[w] = "write"
    BY <1>4 DEF Open, TypeOK
  <2>3. Owns(w) /\ HasBasename(w)
    BY <2>1 DEF InvOf
  <2>4. Holds(w)' = Holds(w) \cup {at[w]}
    BY <1>a, <2>1, <2>2 DEF Holds, Artifacts, JSONL, DIAGNOSTICS
  <2>5. ASSUME NEW b \in Bases, NEW k \in Artifacts
        PROVE  file'[b][k] = w <=> file[b][k] = w \/ (b = counter[w] /\ k = at[w])
    BY <1>4, <2>3 DEF Open, TypeOK, HasBasename
  <2>6. Owns(w)'
    BY <2>1, <2>3, <2>4, <2>5 DEF Owns
  <2> QED
    BY <2>1, <2>2, <2>3, <2>6 DEF InvOf, HasBasename
<1>5. ASSUME pc[w] \in {"open", "write"}, NEW ks \in Seq(Artifacts),
             NEW raise \in BOOLEAN, CleanUp(w, ks, raise),
             Injective(ks), Members(ks) = Holds(w)
      PROVE  InvOf(w)'
  <2>1. /\ pc'[w] = "clean" /\ remove'[w] = ks
        /\ file' = file /\ counter' = counter
    BY <1>5 DEF CleanUp, TypeOK
  <2>2. Holds(w)' = Members(ks)
    <3>1. Members(remove[w])' = Members(remove'[w])
      BY DEF Members
    <3> QED
      BY <2>1, <3>1 DEF Holds
  <2>3. Owns(w) /\ HasBasename(w)
    BY <1>5 DEF InvOf
  <2>4. Owns(w)'
    BY <1>5, <1>b, <2>1, <2>2, <2>3
  <2>5. Injective(remove[w])'
    BY <1>5, <2>1 DEF Injective
  <2> QED
    BY <2>1, <2>3, <2>4, <2>5 DEF InvOf, HasBasename
<1>6. at[w] - 1 \in 0 .. DIAGNOSTICS /\ at[w] \in 0 .. DIAGNOSTICS
  BY <1>a DEF Artifacts, JSONL, DIAGNOSTICS
<1>7. ASSUME pc[w] = "open", NEW raise \in BOOLEAN, CleanUp(w, UpTo(at[w] - 1), raise)
      PROVE  InvOf(w)'
  <2>1. Holds(w) = 1 .. at[w] - 1
    BY <1>7 DEF Holds
  <2> QED
    BY <1>5, <1>6, <1>7, <2>1, UpToMembers
<1>8. CASE Collide(w)
  BY <1>7, <1>8 DEF Collide
<1>9. CASE OpenRaises(w)
  BY <1>7, <1>9 DEF OpenRaises
<1>10. CASE Write(w)
  <2>1. /\ pc[w] = "write" /\ file' = file
        /\ counter' = counter /\ remove' = remove
    BY <1>10 DEF Write
  <2>2. \/ pc'[w] = "done" /\ at[w] = DIAGNOSTICS
        \/ pc'[w] = "open" /\ at'[w] = at[w] + 1
    BY <1>10 DEF Write, TypeOK
  <2>3. Holds(w) = 1 .. at[w]
    BY <2>1 DEF Holds
  <2>4. Holds(w)' = 1 .. at[w]
    <3>1. CASE pc'[w] = "done" /\ at[w] = DIAGNOSTICS
      BY <3>1 DEF Holds, Artifacts, JSONL
    <3>2. CASE pc'[w] = "open" /\ at'[w] = at[w] + 1
      <4>1. at'[w] - 1 = at[w]
        BY <1>6, <3>2
      <4> QED
        BY <3>2, <4>1 DEF Holds
    <3> QED
      BY <2>2, <3>1, <3>2
  <2>5. Owns(w) /\ HasBasename(w)
    BY <2>1 DEF InvOf
  <2>6. Owns(w)'
    BY <1>b, <2>1, <2>3, <2>4, <2>5
  <2> QED
    BY <2>1, <2>2, <2>5, <2>6 DEF InvOf, HasBasename
<1>11. CASE WriteRaises(w)
  <2>1. pc[w] = "write"
    BY <1>11 DEF WriteRaises
  <2>2. Holds(w) = 1 .. at[w]
    BY <2>1 DEF Holds
  <2>3. CASE at[w] = CSV
    BY <1>5, <1>11, <2>1, <2>2, <2>3, CsvFirstMembers DEF WriteRaises
  <2>4. CASE at[w] # CSV
    BY <1>5, <1>6, <1>11, <2>1, <2>2, <2>4, UpToMembers DEF WriteRaises
  <2> QED
    BY <2>3, <2>4
<1>12. CASE Unlink(w)
  <2>1. /\ pc[w] = "clean" /\ pc' = pc /\ counter' = counter
        /\ remove[w] # <<>>
    BY <1>12 DEF Unlink
  <2>2. Owns(w) /\ HasBasename(w) /\ Injective(remove[w])
    BY <2>1 DEF InvOf
  <2>3. /\ Injective(Tail(remove[w]))
        /\ Head(remove[w]) \in Members(remove[w])
        /\ Members(Tail(remove[w])) = Members(remove[w]) \ {Head(remove[w])}
    BY <1>a, <2>1, <2>2, TailMembers
  <2>4. remove'[w] = Tail(remove[w])
    BY <1>12 DEF Unlink, TypeOK
  <2>5. Holds(w) = Members(remove[w])
    BY <2>1 DEF Holds
  <2>6. Holds(w)' = Holds(w) \ {Head(remove[w])}
    <3>1. Members(remove[w])' = Members(Tail(remove[w]))
      BY <2>4 DEF Members
    <3>2. Holds(w)' = Members(remove[w])'
      BY <2>1 DEF Holds
    <3> QED
      BY <2>3, <2>5, <3>1, <3>2
  <2>7. ASSUME NEW b \in Bases, NEW k \in Artifacts
        PROVE  file'[b][k] = w <=>
                 file[b][k] = w /\ ~(b = counter[w] /\ k = Head(remove[w]))
    <3>1. Head(remove[w]) \in Artifacts
      BY <2>3 DEF Members
    <3> QED
      BY <1>12, <2>2, <3>1, AuthorsAssumption DEF Unlink, TypeOK, HasBasename
  <2>8. Owns(w)'
    BY <2>1, <2>2, <2>6, <2>7 DEF Owns
  <2>9. Injective(remove[w])'
    BY <2>3, <2>4 DEF Injective
  <2> QED
    BY <2>1, <2>2, <2>8, <2>9 DEF InvOf, HasBasename
<1>13. ASSUME pc[w] = "clean", remove[w] = <<>>, file' = file,
              pc'[w] \in {"probe", "raised"}
       PROVE  InvOf(w)'
  <2>1. Holds(w) = {}
    BY <1>13 DEF Holds, Members
  <2>2. Holds(w)' = {}
    BY <1>13 DEF Holds
  <2>3. Owns(w)'
    BY <1>13, <1>c, <2>1, <2>2 DEF InvOf
  <2> QED
    BY <1>13, <2>3 DEF InvOf
<1>14. CASE Retry(w)
  BY <1>13, <1>14 DEF Retry, NextCandidate, TypeOK
<1>15. CASE Raise(w)
  BY <1>13, <1>15 DEF Raise, TypeOK
<1>16. CASE Crash(w)
  BY <1>16 DEF Crash, TypeOK, InvOf
<1> QED
  BY <1>1, <1>2, <1>3, <1>4, <1>8, <1>9, <1>10, <1>11, <1>12, <1>14, <1>15, <1>16
  DEF Step

-----------------------------------------------------------------------------
LEMMA InitInv == Init => IInv
<1> SUFFICES ASSUME Init PROVE IInv
  OBVIOUS
<1>1. JSONL \in Artifacts /\ 0 \in 0 .. MaxCounter + 1 /\ <<>> \in Seq(Artifacts)
  BY CounterAssumption DEF Artifacts, JSONL, DIAGNOSTICS
<1>2. PICK left \in Leftovers :
        file = [b \in Bases |-> [k \in Artifacts |->
                 IF <<b, k>> \in left THEN Earlier ELSE Nobody]]
  BY DEF Init
<1>3. file \in [Bases -> [Artifacts -> {Nobody, Earlier}]]
  BY <1>2
<1>4. TypeOK
  BY <1>1, <1>3 DEF Init, TypeOK, Returned
<1>5. ASSUME NEW w \in Writers PROVE InvOf(w)
  <2>1. pc[w] = "probe"
    BY DEF Init
  <2>2. Holds(w) = {}
    BY <2>1 DEF Holds
  <2>3. Owns(w)
    BY <1>3, <2>2, AuthorsAssumption DEF Owns
  <2> QED
    BY <2>1, <2>3 DEF InvOf
<1> QED
  BY <1>4, <1>5 DEF IInv

LEMMA StepInv == IInv /\ [Next]_vars => IInv'
<1> SUFFICES ASSUME IInv, [Next]_vars PROVE IInv'
  OBVIOUS
<1>1. ASSUME NEW w \in Writers, Step(w) \/ Crash(w)
      PROVE  IInv'
  <2>1. TypeOK /\ InvOf(w)
    BY DEF IInv
  <2>2. TypeOK'
    BY <1>1, <2>1, TypeStep
  <2>3. ASSUME NEW v \in Writers PROVE InvOf(v)'
    <3>1. InvOf(v)
      BY DEF IInv
    <3>2. CASE v = w
      BY <1>1, <2>1, <3>2, OwnStep
    <3>3. CASE v # w
      BY <1>1, <2>1, <3>1, <3>3, OthersKeep
    <3> QED
      BY <3>2, <3>3
  <2> QED
    BY <2>2, <2>3 DEF IInv
<1>2. CASE UNCHANGED vars
  <2>1. TypeOK'
    BY <1>2 DEF IInv, TypeOK, vars
  <2>2. ASSUME NEW v \in Writers PROVE InvOf(v)'
    <3>1. InvOf(v)
      BY DEF IInv
    <3> QED
      BY <1>2, <3>1, Untouched DEF vars
  <2> QED
    BY <2>1, <2>2 DEF IInv
<1> QED
  BY <1>1, <1>2 DEF Next

LEMMA AlwaysIInv == Spec => []IInv
<1> QED
  BY InitInv, StepInv, PTL DEF Spec

\* Every variable keeps its type, whatever the processes do.
THEOREM AlwaysTypeOK == Spec => []TypeOK
<1>1. IInv => TypeOK
  BY DEF IInv
<1> QED
  BY <1>1, AlwaysIInv, PTL

\* A set of results that write_results returned is complete and of one author
\* for ever after.
THEOREM AlwaysComplete == Spec => []WinnersComplete
<1>1. ASSUME IInv PROVE WinnersComplete
  <2>1. SUFFICES ASSUME NEW w \in Writers, pc[w] = "done", NEW k \in Artifacts
                 PROVE  file[counter[w]][k] = w
    BY DEF WinnersComplete
  <2>2. Owns(w) /\ HasBasename(w) /\ Holds(w) = Artifacts
    BY <1>1, <2>1 DEF IInv, InvOf, Holds
  <2> QED
    BY <2>2 DEF Owns, HasBasename
<1> QED
  BY <1>1, AlwaysIInv, PTL

\* A call that collided or raised leaves no file behind, wherever it was.
THEOREM NeverLeavesFiles == Spec => []NothingLeftBehind
<1>1. ASSUME IInv PROVE NothingLeftBehind
  <2>1. SUFFICES ASSUME NEW w \in Writers, NEW b \in Bases, NEW k \in Artifacts,
                        file[b][k] = w, pc[w] # "crashed"
                 PROVE  b = counter[w] /\ pc[w] \in {"open", "write", "clean", "done"}
    BY DEF NothingLeftBehind
  <2>2. b = counter[w] /\ k \in Holds(w)
    BY <1>1, <2>1 DEF IInv, InvOf, Owns
  <2>3. ASSUME pc[w] \notin {"open", "write", "clean", "done"} PROVE Holds(w) = {}
    BY <2>3 DEF Holds
  <2> QED
    BY <2>2, <2>3
<1> QED
  BY <1>1, AlwaysIInv, PTL

\* The unlinks by path, whoever the author, only ever remove their own files.
THEOREM AuthorsAlwaysRemove == Spec => OnlyAuthorsRemove
<1> DEFINE Keeps ==
      \A b \in Bases, k \in Artifacts :
        file[b][k] # Nobody /\ file'[b][k] # file[b][k] =>
          /\ file'[b][k] = Nobody
          /\ file[b][k] \in Writers
          /\ pc[file[b][k]] = "clean"
<1>1. ASSUME IInv, [Next]_vars PROVE Keeps \/ UNCHANGED vars
  <2>1. ASSUME NEW w \in Writers, Step(w) \/ Crash(w) PROVE Keeps
    <3>1. TypeOK /\ InvOf(w)
      BY <1>1 DEF IInv
    <3> QED
      BY <2>1, <3>1, FileSteps
  <2> QED
    BY <1>1, <2>1 DEF Next
<1> QED
  BY <1>1, AlwaysIInv, PTL DEF Spec, OnlyAuthorsRemove

-----------------------------------------------------------------------------
\* A call that returned has published its set, and a basename has one author.
PublishedRight ==
  /\ Published \in [Bases -> Writers \cup {Nobody}]
  /\ \A w \in Writers, b \in Bases :
       Published[b] = w <=> pc[w] = "done" /\ counter[w] = b

LEMMA OneAuthor == IInv => PublishedRight
<1> SUFFICES ASSUME IInv PROVE PublishedRight
  OBVIOUS
<1>1. ASSUME NEW w \in Writers, NEW b \in Bases
      PROVE  PublishedBy(w, b) <=> pc[w] = "done" /\ counter[w] = b
  <2>1. ASSUME pc[w] = "done", counter[w] = b, NEW k \in Artifacts
        PROVE  file[b][k] = w
    BY <2>1 DEF IInv, InvOf, Owns, Holds
  <2> QED
    BY <2>1 DEF PublishedBy
<1>2. ASSUME NEW v \in Writers, NEW w \in Writers, NEW b \in Bases,
             PublishedBy(v, b), PublishedBy(w, b)
      PROVE  v = w
  BY <1>2 DEF PublishedBy, Artifacts, JSONL, DIAGNOSTICS
<1>3. ASSUME NEW w \in Writers, NEW b \in Bases
      PROVE  Published[b] = w <=> PublishedBy(w, b)
  <2>1. CASE \E v \in Writers : PublishedBy(v, b)
    <3>1. PICK u \in Writers : PublishedBy(u, b)
      BY <2>1
    <3>2. \A v \in Writers : PublishedBy(v, b) <=> v = u
      BY <1>2, <3>1
    <3>3. Published[b] = CHOOSE v \in Writers : PublishedBy(v, b)
      BY <2>1 DEF Published
    <3>4. Published[b] = u
      BY <3>1, <3>2, <3>3
    <3> QED
      BY <3>2, <3>4
  <2>2. CASE ~\E v \in Writers : PublishedBy(v, b)
    <3>1. Published[b] = Nobody
      BY <2>2 DEF Published
    <3> QED
      BY <2>2, <3>1, AuthorsAssumption
  <2> QED
    BY <2>1, <2>2
<1>4. ASSUME NEW b \in Bases, NEW v \in Writers, PublishedBy(v, b)
      PROVE  (CHOOSE w \in Writers : PublishedBy(w, b)) \in Writers
  BY <1>4
<1>5. Published \in [Bases -> Writers \cup {Nobody}]
  BY <1>4 DEF Published
<1> QED
  BY <1>1, <1>3, <1>5 DEF PublishedRight

\* A writer returns at most once, and what it returned stays.
LEMMA DoneStays ==
  ASSUME IInv, NEW w \in Writers, Step(w) \/ Crash(w)
  PROVE  /\ \A v \in Writers \ {w} : pc'[v] = pc[v] /\ counter'[v] = counter[v]
         /\ pc[w] # "done"
         /\ pc'[w] = "done" => pc[w] = "write" /\ counter'[w] = counter[w]
<1>1. TypeOK
  BY DEF IInv
<1> QED
  BY <1>1 DEF TypeOK, Step, GiveUp, ProbeFinds, ProbePasses, NextCandidate, Open, Collide,
     OpenRaises, CleanUp, Write, WriteRaises, Unlink, Retry, Raise, Crash, Returned

\* Every step publishes one whole set or none.
LEMMA StepPublishes ==
  ASSUME IInv, PublishedRight, PublishedRight',
         NEW w \in Writers, Step(w) \/ Crash(w)
  PROVE  (\E b \in Bases : Sets!Publish(w, b)) \/ Published' = Published
<1>1. /\ Published \in [Bases -> Writers \cup {Nobody}]
      /\ \A v \in Writers, b \in Bases :
           Published[b] = v <=> pc[v] = "done" /\ counter[v] = b
  BY DEF PublishedRight
<1>2. /\ Published' \in [Bases -> Writers \cup {Nobody}]
      /\ \A v \in Writers, b \in Bases :
           Published'[b] = v <=> pc'[v] = "done" /\ counter'[v] = b
  BY DEF PublishedRight
<1>3. /\ \A v \in Writers \ {w} : pc'[v] = pc[v] /\ counter'[v] = counter[v]
      /\ pc[w] # "done"
      /\ pc'[w] = "done" => pc[w] = "write" /\ counter'[w] = counter[w]
  BY DoneStays
\* Entries of the others stay.
<1>4. ASSUME NEW b \in Bases, NEW v \in Writers, v # w
      PROVE  Published'[b] = v <=> Published[b] = v
  <2>1. pc'[v] = pc[v] /\ counter'[v] = counter[v]
    BY <1>3, <1>4
  <2>2. Published[b] = v <=> pc[v] = "done" /\ counter[v] = b
    BY <1>1
  <2>3. Published'[b] = v <=> pc'[v] = "done" /\ counter'[v] = b
    BY <1>2
  <2> QED
    BY <2>1, <2>2, <2>3
<1>5. ASSUME pc'[w] # "done" PROVE Published' = Published
  <2>1. ASSUME NEW b \in Bases PROVE Published'[b] = Published[b]
    <3>1. Published'[b] # w /\ Published[b] # w
      BY <1>1, <1>2, <1>3, <1>5
    <3> QED
      BY <1>1, <1>2, <1>4, <3>1
  <2> QED
    BY <1>1, <1>2, <2>1
<1>6. ASSUME pc'[w] = "done" PROVE \E b \in Bases : Sets!Publish(w, b)
  <2> DEFINE b == counter[w]
  <2>1. b \in Bases
    BY <1>3, <1>6 DEF IInv, InvOf, HasBasename
  <2>2. \A c \in Bases : Published[c] # w
    BY <1>1, <1>3
  \* The file it writes last is its own, so nobody else published under b.
  <2>3. ASSUME NEW v \in Writers, Published[b] = v PROVE FALSE
    <3>1. pc[v] = "done" /\ counter[v] = b
      BY <1>1, <2>1, <2>3
    <3>2. at[w] \in Artifacts /\ Owns(w) /\ Owns(v)
      BY <1>3, <1>6, <3>1 DEF IInv, InvOf, TypeOK
    <3>3. file[b][JSONL] = v
      BY <2>1, <3>1, <3>2 DEF Owns, Holds, Artifacts, JSONL, DIAGNOSTICS
    <3>4. file[b][JSONL] = w
      <4>1. Holds(w) = 1 .. at[w]
        BY <1>3, <1>6 DEF Holds
      <4> QED
        BY <2>1, <3>2, <4>1 DEF Owns, Artifacts, JSONL, DIAGNOSTICS
    <3> QED
      BY <1>3, <3>1, <3>3, <3>4
  <2>4. Published[b] = Nobody
    BY <1>1, <2>1, <2>3
  <2>5. Published' = [Published EXCEPT ![b] = w]
    <3>1. Published'[b] = w
      BY <1>2, <1>3, <1>6, <2>1
    <3>2. ASSUME NEW c \in Bases, c # b PROVE Published'[c] = Published[c]
      <4>1. Published'[c] # w /\ Published[c] # w
        BY <1>2, <1>3, <1>6, <2>2, <3>2
      <4> QED
        BY <1>1, <1>2, <1>4, <4>1
    <3> HIDE DEF b
    <3> QED
      BY <1>1, <1>2, <2>1, <3>1, <3>2
  <2> QED
    BY <2>1, <2>2, <2>4, <2>5 DEF Sets!Publish
<1> QED
  BY <1>5, <1>6

\* The processes, step by step, do what ResultSets promises: whole sets appear,
\* each under a basename of its own, and none is taken back or replaced.
THEOREM WritersPublishSets == Spec => PublishesSets
<1>1. Init => Sets!Init
  BY DEF Init, Sets!Init, Published, PublishedBy
<1>2. ASSUME IInv, PublishedRight, PublishedRight', [Next]_vars
      PROVE  [Sets!Next]_Published
  <2>1. ASSUME NEW w \in Writers, Step(w) \/ Crash(w)
        PROVE  [Sets!Next]_Published
    BY <1>2, <2>1, StepPublishes DEF Sets!Next
  <2>2. ASSUME UNCHANGED vars PROVE Published' = Published
    BY <2>2 DEF vars, Published, PublishedBy
  <2> QED
    BY <1>2, <2>1, <2>2 DEF Next
<1> QED
  BY <1>1, <1>2, AlwaysIInv, OneAuthor, PTL DEF Spec, PublishesSets, Sets!Spec
=============================================================================
