---------------------------- MODULE Stores_proofs ----------------------------
(***************************************************************************)
(* Proofs about the stores that agents share.                              *)
(* SessionStore: what a save tells its caller, for any number of holders   *)
(* of the session, of saves, of deaths and of failing operations.  IInv    *)
(* says where a holder can be on each backend, who can hold a session that *)
(* is not stored yet, and how far the row has moved since a save began.    *)
(* Delegation: what is found of the notes that were promoted, for any      *)
(* number of children, topics, notes and faults.  DelegationInv says what  *)
(* a promotion has read, merged and written at each place (ReadOK,         *)
(* WriteOK), and whose turn it is (TurnsOK).                               *)
(* JsonStrings: what is read of the text a string was written as, for any  *)
(* string and whatever stands before and after the text.  The reader has   *)
(* at each turn of the writer a state that goes with it (Following).       *)
(***************************************************************************)
EXTENDS JsonStrings, Delegation, SessionStore, FiniteSetTheorems, SequenceTheorems,
        WellFoundedInduction, TLAPS

-----------------------------------------------------------------------------
(* The stored session *)


Places ==
    {"down", "built", "up"} \cup
    (IF backend = "file" THEN {"open", "write"} ELSE {"read", "create", "swap"})

TypeOK ==
    /\ backend \in {"file", "sqlite"}
    /\ holder \in [Writers -> Places]
    /\ result \in [Writers -> {"none", "saved", "failed", "conflict",
                               "session_parse_failed"}]
    /\ version \in Nat
    /\ attempt \in [Writers -> 0..(MaxAttempts - 1)] /\ seen \in [Writers -> Nat]
    /\ saves \in [Writers -> Nat] /\ since \in [Writers -> Nat]
    /\ kept \in [Writers -> Nat]
    /\ mixed \in BOOLEAN

\* A result is that of the save that has returned.
ResultOfLastSave ==
    \A w \in Writers : result[w] \in {"saved", "failed", "conflict"} => holder[w] = "up"

\* Until it is stored, only its creator holds the session: INSERT OR IGNORE
\* never meets the row of another.
CreatorFirst ==
    /\ stored = Absent => \A w \in Writers : holder[w] # "down" => w = Creator
    /\ \A w \in Writers : holder[w] = "create" => stored = Absent

\* A file is unreadable while the one writer writes it.
FileWriterAlone ==
    ~mixed => \A w \in Writers : holder[w] = "write" =>
                  stored = Unreadable /\ \A v \in Writers : holder[v] = "write" => v = w

\* Each attempt of a save that found the row changed saw a version of its own.
AttemptsCount ==
    \A w \in Writers :
        /\ since[w] <= version
        /\ holder[w] \notin {"read", "create", "swap"} => attempt[w] = 0
        /\ since[w] + attempt[w] <= version
        /\ holder[w] = "swap" => since[w] + attempt[w] <= seen[w] /\ seen[w] <= version

SavedIsKept == \A w \in Writers : result[w] = "saved" => kept[w] = saves[w] \/ mixed
ConflictIsReal == \A w \in Writers : result[w] = "conflict" => version - since[w] >= MaxAttempts
Loadable == stored = Unreadable => backend = "file" /\ (Writing # {} \/ mixed)

IInv ==
    /\ TypeOK /\ ResultOfLastSave /\ CreatorFirst /\ FileWriterAlone /\ AttemptsCount
    /\ SavedIsKept /\ ConflictIsReal /\ Loadable

-----------------------------------------------------------------------------
\* The three contents of a store are told apart.
LEMMA Contents ==
    /\ Absent # Unreadable
    /\ \A w : State(w) # Absent /\ State(w) # Unreadable
BY DEF Absent, Unreadable, State

\* The creator has built its copy and not saved it.
LEMMA InitIInv == SessionInit => IInv
<1> SUFFICES ASSUME SessionInit PROVE IInv
  OBVIOUS
<1>1. TypeOK
  <2>1. holder \in [Writers -> Places]
    BY DEF SessionInit, Places
  <2>2. attempt \in [Writers -> 0..(MaxAttempts - 1)]
    BY DEF SessionInit, MaxAttempts
  <2> QED
    BY <2>1, <2>2 DEF SessionInit, TypeOK
<1> USE SessionAssumption, Contents DEF SessionInit
<1>2. ResultOfLastSave /\ CreatorFirst /\ FileWriterAlone /\ AttemptsCount
  BY DEF ResultOfLastSave, CreatorFirst, FileWriterAlone, AttemptsCount
<1>3. SavedIsKept /\ ConflictIsReal /\ Loadable
  BY DEF SavedIsKept, ConflictIsReal, Loadable
<1> QED BY <1>1, <1>2, <1>3 DEF IInv

\* Types: a holder is only where its backend lets it be, and counts to four.
LEMMA TypeStep == ASSUME IInv, [SessionNext]_sessionVars PROVE TypeOK'
<1>0. TypeOK
  BY DEF IInv
<1> USE <1>0 DEF TypeOK, Places, Step, Finish, Store, inSave, used
<1>1. ASSUME NEW w \in Writers, Save(w) PROVE TypeOK'
  BY <1>1 DEF Save
<1>2. ASSUME NEW w \in Writers, SaveFails(w) PROVE TypeOK'
  BY <1>2 DEF SaveFails, MaxAttempts
<1>3. ASSUME NEW w \in Writers, OpenFile(w) PROVE TypeOK'
  BY <1>3 DEF OpenFile, Writing
<1>4. ASSUME NEW w \in Writers, WriteState(w) PROVE TypeOK'
  BY <1>4 DEF WriteState, MaxAttempts
<1>5. ASSUME NEW w \in Writers, Read(w) PROVE TypeOK'
  BY <1>5 DEF Read
<1>6. ASSUME NEW w \in Writers, Create(w) PROVE TypeOK'
  BY <1>6 DEF Create, MaxAttempts
<1>7. ASSUME NEW w \in Writers, Swap(w) PROVE TypeOK'
  BY <1>7 DEF Swap, AnotherAttempt, MaxAttempts, OutOfAttempts
<1>8. ASSUME NEW w \in Writers, Load(w) PROVE TypeOK'
  BY <1>8 DEF Load
<1>9. ASSUME NEW w \in Writers, Crash(w) PROVE TypeOK'
  BY <1>9 DEF Crash, MaxAttempts
<1>10. CASE UNCHANGED sessionVars
  BY <1>10 DEF sessionVars
<1> QED
  BY <1>1, <1>2, <1>3, <1>4, <1>5, <1>6, <1>7, <1>8, <1>9, <1>10
  DEF SessionNext

\* A save forgets the result of the last one, and so does a death.
LEMMA ResultStep == ASSUME IInv, [SessionNext]_sessionVars PROVE ResultOfLastSave'
<1>0. TypeOK /\ ResultOfLastSave
  BY DEF IInv
<1> USE <1>0 DEF TypeOK, ResultOfLastSave, Step, Finish
<1>1. ASSUME NEW w \in Writers, Save(w) PROVE ResultOfLastSave'
  BY <1>1 DEF Save
<1>2. ASSUME NEW w \in Writers, SaveFails(w) PROVE ResultOfLastSave'
  BY <1>2 DEF SaveFails
<1>3. ASSUME NEW w \in Writers, OpenFile(w) PROVE ResultOfLastSave'
  BY <1>3 DEF OpenFile
<1>4. ASSUME NEW w \in Writers, WriteState(w) PROVE ResultOfLastSave'
  BY <1>4 DEF WriteState
<1>5. ASSUME NEW w \in Writers, Read(w) PROVE ResultOfLastSave'
  BY <1>5 DEF Read
<1>6. ASSUME NEW w \in Writers, Create(w) PROVE ResultOfLastSave'
  BY <1>6 DEF Create
<1>7. ASSUME NEW w \in Writers, Swap(w) PROVE ResultOfLastSave'
  BY <1>7 DEF Swap, OutOfAttempts
<1>8. ASSUME NEW w \in Writers, Load(w) PROVE ResultOfLastSave'
  BY <1>8 DEF Load
<1>9. ASSUME NEW w \in Writers, Crash(w) PROVE ResultOfLastSave'
  BY <1>9 DEF Crash
<1>10. CASE UNCHANGED sessionVars
  BY <1>10 DEF sessionVars
<1> QED
  BY <1>1, <1>2, <1>3, <1>4, <1>5, <1>6, <1>7, <1>8, <1>9, <1>10
  DEF SessionNext

\* Nobody loads what is not stored, and nothing takes it away again.
LEMMA CreatorStep == ASSUME IInv, [SessionNext]_sessionVars PROVE CreatorFirst'
<1>0. TypeOK /\ CreatorFirst
  BY DEF IInv
<1> USE <1>0, Contents DEF TypeOK, CreatorFirst, Step, Finish, Store
<1>1. ASSUME NEW w \in Writers, Save(w) PROVE CreatorFirst'
  BY <1>1 DEF Save
<1>2. ASSUME NEW w \in Writers, SaveFails(w) PROVE CreatorFirst'
  BY <1>2 DEF SaveFails
<1>3. ASSUME NEW w \in Writers, OpenFile(w) PROVE CreatorFirst'
  BY <1>3 DEF OpenFile
<1>4. ASSUME NEW w \in Writers, WriteState(w) PROVE CreatorFirst'
  BY <1>4 DEF WriteState
<1>5. ASSUME NEW w \in Writers, Read(w) PROVE CreatorFirst'
  BY <1>5 DEF Read
<1>6. ASSUME NEW w \in Writers, Create(w) PROVE CreatorFirst'
  BY <1>6 DEF Create
<1>7. ASSUME NEW w \in Writers, Swap(w) PROVE CreatorFirst'
  BY <1>7 DEF Swap, OutOfAttempts
<1>8. ASSUME NEW w \in Writers, Load(w) PROVE CreatorFirst'
  BY <1>8 DEF Load
<1>9. ASSUME NEW w \in Writers, Crash(w) PROVE CreatorFirst'
  BY <1>9 DEF Crash
<1>10. CASE UNCHANGED sessionVars
  BY <1>10 DEF sessionVars
<1> QED
  BY <1>1, <1>2, <1>3, <1>4, <1>5, <1>6, <1>7, <1>8, <1>9, <1>10
  DEF SessionNext

\* A second writer of the file, and one that leaves it half written, are seen.
LEMMA FileStep == ASSUME IInv, [SessionNext]_sessionVars PROVE FileWriterAlone'
<1>0. TypeOK /\ FileWriterAlone
  BY DEF IInv
<1> USE <1>0, Contents DEF TypeOK, FileWriterAlone, Places, Step, Finish, Store
<1>1. ASSUME NEW w \in Writers, Save(w) PROVE FileWriterAlone'
  BY <1>1 DEF Save
<1>2. ASSUME NEW w \in Writers, SaveFails(w) PROVE FileWriterAlone'
  BY <1>2 DEF SaveFails
<1>3. ASSUME NEW w \in Writers, OpenFile(w) PROVE FileWriterAlone'
  BY <1>3 DEF OpenFile, Writing
<1>4. ASSUME NEW w \in Writers, WriteState(w) PROVE FileWriterAlone'
  BY <1>4 DEF WriteState
<1>5. ASSUME NEW w \in Writers, Read(w) PROVE FileWriterAlone'
  BY <1>5 DEF Read
<1>6. ASSUME NEW w \in Writers, Create(w) PROVE FileWriterAlone'
  BY <1>6 DEF Create
<1>7. ASSUME NEW w \in Writers, Swap(w) PROVE FileWriterAlone'
  BY <1>7 DEF Swap
<1>8. ASSUME NEW w \in Writers, Load(w) PROVE FileWriterAlone'
  BY <1>8 DEF Load
<1>9. ASSUME NEW w \in Writers, Crash(w) PROVE FileWriterAlone'
  BY <1>9 DEF Crash
<1>10. CASE UNCHANGED sessionVars
  BY <1>10 DEF sessionVars
<1> QED
  BY <1>1, <1>2, <1>3, <1>4, <1>5, <1>6, <1>7, <1>8, <1>9, <1>10
  DEF SessionNext

\* The version only grows, and a failed swap saw it grow.
LEMMA AttemptsStep == ASSUME IInv, [SessionNext]_sessionVars PROVE AttemptsCount'
<1>0. TypeOK /\ AttemptsCount
  BY DEF IInv
<1> USE <1>0 DEF TypeOK, AttemptsCount, Step, Finish, inSave
<1>1. ASSUME NEW w \in Writers, Save(w) PROVE AttemptsCount'
  BY <1>1 DEF Save, Places
<1>2. ASSUME NEW w \in Writers, SaveFails(w) PROVE AttemptsCount'
  BY <1>2 DEF SaveFails
<1>3. ASSUME NEW w \in Writers, OpenFile(w) PROVE AttemptsCount'
  BY <1>3 DEF OpenFile
<1>4. ASSUME NEW w \in Writers, WriteState(w) PROVE AttemptsCount'
  BY <1>4 DEF WriteState
<1>5. ASSUME NEW w \in Writers, Read(w) PROVE AttemptsCount'
  BY <1>5 DEF Read
<1>6. ASSUME NEW w \in Writers, Create(w) PROVE AttemptsCount'
  BY <1>6 DEF Create
<1>7. ASSUME NEW w \in Writers, Swap(w) PROVE AttemptsCount'
  BY <1>7 DEF Swap, Unchanged, AnotherAttempt, MaxAttempts
<1>8. ASSUME NEW w \in Writers, Load(w) PROVE AttemptsCount'
  BY <1>8 DEF Load
<1>9. ASSUME NEW w \in Writers, Crash(w) PROVE AttemptsCount'
  BY <1>9 DEF Crash
<1>10. CASE UNCHANGED sessionVars
  BY <1>10 DEF sessionVars
<1> QED
  BY <1>1, <1>2, <1>3, <1>4, <1>5, <1>6, <1>7, <1>8, <1>9, <1>10
  DEF SessionNext

\* What reports success has been stored, or was written over by another.
LEMMA SavedStep == ASSUME IInv, [SessionNext]_sessionVars PROVE SavedIsKept'
<1>0. TypeOK /\ SavedIsKept /\ ResultOfLastSave /\ FileWriterAlone /\ CreatorFirst
  BY DEF IInv
<1> USE <1>0 DEF TypeOK, SavedIsKept, Step, Finish, Store
<1>1. ASSUME NEW w \in Writers, Save(w) PROVE SavedIsKept'
  BY <1>1 DEF Save
<1>2. ASSUME NEW w \in Writers, SaveFails(w) PROVE SavedIsKept'
  BY <1>2 DEF SaveFails
<1>3. ASSUME NEW w \in Writers, OpenFile(w) PROVE SavedIsKept'
  BY <1>3 DEF OpenFile
<1>4. ASSUME NEW w \in Writers, WriteState(w) PROVE SavedIsKept'
  BY <1>4 DEF WriteState, FileWriterAlone
<1>5. ASSUME NEW w \in Writers, Read(w) PROVE SavedIsKept'
  BY <1>5 DEF Read
<1>6. ASSUME NEW w \in Writers, Create(w) PROVE SavedIsKept'
  BY <1>6 DEF Create, CreatorFirst
<1>7. ASSUME NEW w \in Writers, Swap(w) PROVE SavedIsKept'
  BY <1>7 DEF Swap, OutOfAttempts
<1>8. ASSUME NEW w \in Writers, Load(w) PROVE SavedIsKept'
  BY <1>8 DEF Load
<1>9. ASSUME NEW w \in Writers, Crash(w) PROVE SavedIsKept'
  BY <1>9 DEF Crash
<1>10. CASE UNCHANGED sessionVars
  BY <1>10 DEF sessionVars
<1> QED
  BY <1>1, <1>2, <1>3, <1>4, <1>5, <1>6, <1>7, <1>8, <1>9, <1>10
  DEF SessionNext

\* The fourth failed attempt is the fourth version of another.
LEMMA ConflictStep == ASSUME IInv, [SessionNext]_sessionVars PROVE ConflictIsReal'
<1>0. TypeOK /\ ConflictIsReal /\ AttemptsCount /\ ResultOfLastSave
  BY DEF IInv
<1> USE <1>0 DEF TypeOK, ConflictIsReal, Step, Finish, MaxAttempts
<1>1. ASSUME NEW w \in Writers, Save(w) PROVE ConflictIsReal'
  BY <1>1 DEF Save
<1>2. ASSUME NEW w \in Writers, SaveFails(w) PROVE ConflictIsReal'
  BY <1>2 DEF SaveFails
<1>3. ASSUME NEW w \in Writers, OpenFile(w) PROVE ConflictIsReal'
  BY <1>3 DEF OpenFile
<1>4. ASSUME NEW w \in Writers, WriteState(w) PROVE ConflictIsReal'
  BY <1>4 DEF WriteState
<1>5. ASSUME NEW w \in Writers, Read(w) PROVE ConflictIsReal'
  BY <1>5 DEF Read
<1>6. ASSUME NEW w \in Writers, Create(w) PROVE ConflictIsReal'
  BY <1>6 DEF Create
<1>7. ASSUME NEW w \in Writers, Swap(w) PROVE ConflictIsReal'
  BY <1>7 DEF Swap, Unchanged, AnotherAttempt, OutOfAttempts, AttemptsCount
<1>8. ASSUME NEW w \in Writers, Load(w) PROVE ConflictIsReal'
  BY <1>8 DEF Load
<1>9. ASSUME NEW w \in Writers, Crash(w) PROVE ConflictIsReal'
  BY <1>9 DEF Crash
<1>10. CASE UNCHANGED sessionVars
  BY <1>10 DEF sessionVars
<1> QED
  BY <1>1, <1>2, <1>3, <1>4, <1>5, <1>6, <1>7, <1>8, <1>9, <1>10
  DEF SessionNext

\* A file that does not parse is being written, or was left by what mixed records.
LEMMA LoadableStep == ASSUME IInv, [SessionNext]_sessionVars PROVE Loadable'
<1>0. TypeOK /\ Loadable /\ FileWriterAlone
  BY DEF IInv
<1> USE <1>0, Contents DEF TypeOK, Loadable, Places, Step, Finish, Store, Writing
<1>1. ASSUME NEW w \in Writers, Save(w) PROVE Loadable'
  BY <1>1 DEF Save
<1>2. ASSUME NEW w \in Writers, SaveFails(w) PROVE Loadable'
  BY <1>2 DEF SaveFails
<1>3. ASSUME NEW w \in Writers, OpenFile(w) PROVE Loadable'
  BY <1>3 DEF OpenFile
<1>4. ASSUME NEW w \in Writers, WriteState(w) PROVE Loadable'
  BY <1>4 DEF WriteState, FileWriterAlone
<1>5. ASSUME NEW w \in Writers, Read(w) PROVE Loadable'
  BY <1>5 DEF Read
<1>6. ASSUME NEW w \in Writers, Create(w) PROVE Loadable'
  BY <1>6 DEF Create
<1>7. ASSUME NEW w \in Writers, Swap(w) PROVE Loadable'
  BY <1>7 DEF Swap
<1>8. ASSUME NEW w \in Writers, Load(w) PROVE Loadable'
  BY <1>8 DEF Load
<1>9. ASSUME NEW w \in Writers, Crash(w) PROVE Loadable'
  BY <1>9 DEF Crash
<1>10. CASE UNCHANGED sessionVars
  BY <1>10 DEF sessionVars
<1> QED
  BY <1>1, <1>2, <1>3, <1>4, <1>5, <1>6, <1>7, <1>8, <1>9, <1>10
  DEF SessionNext

\* IInv is inductive.
LEMMA NextIInv == IInv /\ [SessionNext]_sessionVars => IInv'
BY TypeStep, ResultStep, CreatorStep, FileStep, AttemptsStep, SavedStep, ConflictStep,
   LoadableStep DEF IInv

-----------------------------------------------------------------------------
\* A save that reports success was stored, one that reports a conflict was overtaken
\* four times, and a stored session can be read unless a write to its file was
\* interrupted, met another one or is under way.
THEOREM SavesTellTheTruth == SessionSpec => []SaveTellsTruth
<1>1. IInv => SaveTellsTruth
  BY DEF IInv, SaveTellsTruth, SavedIsKept, ConflictIsReal, Loadable
<1> QED BY InitIInv, NextIInv, <1>1, PTL DEF SessionSpec

-----------------------------------------------------------------------------
(* Numbers and recursive definitions *)
\* Every set of numbers has a least one.
LEMMA LeastNumber ==
    ASSUME NEW T, T \subseteq Nat, T # {}
    PROVE  \E n \in T : \A m \in T : n <= m
<1> DEFINE R == OpToRel(<, Nat)
<1>1. IsWellFoundedOn(R, Nat)
  BY NatLessThanWellFounded, Zenon
<1>2. \A x, y \in Nat : y < x => <<y, x>> \in R
  BY DEF OpToRel
<1> HIDE DEF R
<1>3. PICK n \in T : \A m \in T : ~(<<m, n>> \in R)
  BY <1>1, WFMin
<1>4. \A m \in T : m \in Nat /\ n \in Nat /\ ~(m < n)
  BY <1>2, <1>3
<1> QED BY <1>4

\* Induction over the positions of a sequence.
LEMMA UpTo ==
    ASSUME NEW n \in Nat, NEW T, 0 \in T, \A k \in 1..n : k - 1 \in T => k \in T
    PROVE  0..n \subseteq T
<1> DEFINE U == {k \in 0..n : k \notin T}
<1> SUFFICES ASSUME U # {} PROVE FALSE
  OBVIOUS
<1>1. U \subseteq Nat
  OBVIOUS
<1>2. \A k \in U : k \in 1..n /\ k - 1 \in U
  OBVIOUS
<1> HIDE DEF U
<1>3. PICK m \in U : \A k \in U : m <= k
  BY <1>1, LeastNumber
<1> QED BY <1>1, <1>2, <1>3

\* f goes n steps from base.
Iterates(f, n, S, base, Advance) ==
    f \in [0..n -> S] /\ f[0] = base /\ \A k \in 1..n : f[k] = Advance[<<k, f[k - 1]>>]

\* A function over these positions can be defined by recursion.
LEMMA Recursion ==
    ASSUME NEW S, NEW base \in S, NEW n \in Nat, NEW Advance \in [(1..n) \X S -> S]
    PROVE  \E f : Iterates(f, n, S, base, Advance)
<1> USE DEF Iterates
<1> DEFINE Is(f, m) == Iterates(f, m, S, base, Advance)
           T == {m \in 0..n : \E f : Is(f, m)}
<1>1. 0 \in T
  <2>1. Is([k \in 0..0 |-> base], 0)
    OBVIOUS
  <2>2. 0 \in 0..n
    OBVIOUS
  <2> QED BY <2>1, <2>2
<1>2. ASSUME NEW m \in 1..n, m - 1 \in T PROVE m \in T
  <2>1. PICK f : Is(f, m - 1)
    BY <1>2
  <2> DEFINE g == [k \in 0..m |-> IF k = m THEN Advance[<<m, f[m - 1]>>] ELSE f[k]]
  <2>2. m - 1 \in 0..(m - 1) /\ f[m - 1] \in S /\ Advance[<<m, f[m - 1]>>] \in S
    BY <2>1
  <2>3. g \in [0..m -> S] /\ g[0] = base
    BY <2>1, <2>2
  <2>4. ASSUME NEW k \in 1..m PROVE g[k] = Advance[<<k, g[k - 1]>>]
    <3>1. CASE k = m
      BY SMTT(30), <3>1
    <3>2. CASE k # m
      <4>1. k \in 1..(m - 1) /\ k - 1 # m /\ k - 1 \in 0..m /\ k \in 0..m
        BY <3>2
      <4> QED BY <4>1, <2>1
    <3> QED BY <3>1, <3>2
  <2> HIDE DEF g
  <2>5. Is(g, m)
    BY <2>3, <2>4
  <2> QED BY <2>5
<1> HIDE DEF T
<1>3. 0..n \subseteq T
  BY <1>1, <1>2, UpTo
<1>4. n \in T
  BY <1>3
<1> QED BY <1>4 DEF T

-----------------------------------------------------------------------------
(* Delegation: the lines of an answer and how they are merged *)

\* Extract gives lines of the answer.
LEMMA ExtractType ==
    ASSUME NEW wanted \in BOOLEAN, NEW answer \in Seq(Lines)
    PROVE  Extract(wanted, answer) \in Seq(Lines)
<1> DEFINE n == Len(answer)
           All == Seq(Lines)
           none == <<>>
           With(k, v) == IF answer[k].rejected THEN v ELSE Append(v, answer[k])
           IsKept(f) == f = [k \in 0..n |->
               IF k = 0 THEN <<>>
               ELSE IF answer[k].rejected THEN f[k - 1] ELSE Append(f[k - 1], answer[k])]
           taken == CHOOSE f : IsKept(f)
<1>1. n \in Nat /\ \A k \in 1..n : answer[k] \in Lines
  OBVIOUS
<1>2. Extract(wanted, answer) = IF wanted THEN taken[n] ELSE none
  BY Zenon DEF Extract
<1> HIDE DEF n
<1>3. \A f : IsKept(f) <=> f = [k \in 0..n |-> IF k = 0 THEN none ELSE With(k, f[k - 1])]
  OBVIOUS
<1>4. none \in All
  OBVIOUS
<1>5. \A k \in 1..n, v \in All : With(k, v) \in All
  BY <1>1
<1> HIDE DEF IsKept, With, All, none
<1>6. \E f : IsKept(f)
  <2> DEFINE Advance == [x \in (1..n) \X All |-> With(x[1], x[2])]
  <2>1. Advance \in [(1..n) \X All -> All]
    BY <1>5
  <2>2. \A k \in 1..n, v \in All : Advance[<<k, v>>] = With(k, v)
    OBVIOUS
  <2> HIDE DEF Advance
  <2>3. PICK f : Iterates(f, n, All, none, Advance)
    BY <1>1, <1>4, <2>1, Recursion
  <2>4. ASSUME NEW k \in 1..n PROVE f[k] = With(k, f[k - 1])
    <3>1. k - 1 \in 0..n
      BY <1>1
    <3>2. f[k - 1] \in All
      BY <2>3, <3>1 DEF Iterates
    <3> QED BY <2>2, <2>3, <3>2 DEF Iterates
  <2>5. \A k \in 0..n : f[k] = IF k = 0 THEN none ELSE With(k, f[k - 1])
    BY <1>1, <2>3, <2>4 DEF Iterates
  <2>6. f = [k \in 0..n |-> f[k]]
    BY <2>3 DEF Iterates
  <2>7. f = [k \in 0..n |-> IF k = 0 THEN none ELSE With(k, f[k - 1])]
    BY <2>5, <2>6, Zenon
  <2> QED BY <1>3, <2>7, Zenon
<1>7. IsKept(taken)
  BY <1>6, Zenon
<1> HIDE DEF taken
<1>8. \A k \in 0..n : taken[k] = IF k = 0 THEN none ELSE With(k, taken[k - 1])
  BY <1>3, <1>7, Zenon
<1>9. taken[0] = none /\ \A k \in 1..n : taken[k] = With(k, taken[k - 1])
  BY <1>1, <1>8
<1> DEFINE T == {k \in 0..n : taken[k] \in All}
<1>10. 0 \in T
  BY <1>1, <1>4, <1>9
<1>11. ASSUME NEW k \in 1..n, k - 1 \in T PROVE k \in T
  <2>1. taken[k - 1] \in All /\ k \in 0..n
    BY <1>1, <1>11
  <2> QED BY <1>5, <1>9, <2>1
<1> HIDE DEF T
<1>12. 0..n \subseteq T
  BY <1>1, <1>10, <1>11, UpTo
<1>13. taken[n] \in All
  BY <1>1, <1>12 DEF T
<1> QED BY <1>2, <1>4, <1>13 DEF All

\* What a note and the notes of its topic become.
LEMMA MergeNoteKeeps ==
    ASSUME NEW existing \in Seq(Notes), NEW note \in Notes
    PROVE  LET merged == MergeNote(existing, note)
           IN  /\ merged \in Seq(Notes) /\ merged # <<>>
               /\ OneNotePerSubject(existing) =>
                      /\ OneNotePerSubject(merged)
                      /\ ToSet(merged) = {x \in ToSet(existing) : ~SameSubject(x, note)} \cup {note}
<1> DEFINE merged == MergeNote(existing, note)
           same == {i \in DOMAIN existing : SameSubject(existing[i], note)}
           m == Min(same)
<1>1. DOMAIN existing = 1..Len(existing) /\ Len(existing) \in Nat
      /\ \A i \in 1..Len(existing) : existing[i] \in Notes
  OBVIOUS
<1>2. merged = IF \E i \in 1..Len(existing) : existing[i] = note THEN existing
               ELSE IF same = {} THEN Append(existing, note) ELSE [existing EXCEPT ![m] = note]
  BY Zenon DEF MergeNote, Contains
<1>3. ASSUME OneNotePerSubject(existing), NEW i \in 1..Len(existing), NEW j \in 1..Len(existing), i # j
      PROVE  existing[i] # existing[j] /\ ~SameSubject(existing[i], existing[j])
  BY <1>1, <1>3 DEF OneNotePerSubject
<1>4. CASE \E i \in 1..Len(existing) : existing[i] = note
  <2>1. merged = existing
    BY <1>2, <1>4
  <2>2. PICK k \in 1..Len(existing) : existing[k] = note
    BY <1>4
  <2>3. merged \in Seq(Notes) /\ merged # <<>>
    BY <1>1, <2>1, <2>2
  <2>4. ASSUME OneNotePerSubject(existing)
        PROVE  ToSet(existing) = {x \in ToSet(existing) : ~SameSubject(x, note)} \cup {note}
    <3>1. ASSUME NEW x \in ToSet(existing), SameSubject(x, note) PROVE x = note
      <4>1. PICK i \in 1..Len(existing) : x = existing[i]
        BY <1>1 DEF ToSet
      <4> QED BY <1>3, <2>2, <2>4, <3>1, <4>1
    <3>2. note \in ToSet(existing)
      BY <1>1, <2>2 DEF ToSet
    <3> QED BY <3>1, <3>2
  <2> HIDE DEF merged
  <2> QED BY <2>1, <2>3, <2>4 DEF merged
<1>5. CASE (\A i \in 1..Len(existing) : existing[i] # note) /\ same = {}
  <2>1. merged = Append(existing, note)
    BY <1>2, <1>5
  <2>2. \A i \in 1..Len(existing) : ~SameSubject(existing[i], note)
    BY <1>1, <1>5
  <2>3. merged \in Seq(Notes) /\ merged # <<>> /\ DOMAIN merged = 1..(Len(existing) + 1)
    BY <1>1, <2>1
  <2>4. /\ merged[Len(existing) + 1] = note
        /\ \A i \in 1..Len(existing) : merged[i] = existing[i]
    BY <1>1, <2>1
  <2>5. ASSUME OneNotePerSubject(existing), NEW i \in DOMAIN merged, NEW j \in DOMAIN merged, i # j
        PROVE  merged[i] # merged[j] /\ ~SameSubject(merged[i], merged[j])
    <3>1. CASE i \in 1..Len(existing) /\ j \in 1..Len(existing)
      BY <1>3, <2>4, <2>5, <3>1
    <3>2. CASE j = Len(existing) + 1
      <4>1. i \in 1..Len(existing)
        BY <1>1, <2>3, <2>5, <3>2
      <4> QED BY <1>5, <2>2, <2>4, <3>2, <4>1
    <3>3. CASE i = Len(existing) + 1
      <4>1. j \in 1..Len(existing)
        BY <1>1, <2>3, <2>5, <3>3
      <4>2. ~SameSubject(existing[j], note) /\ existing[j] # note
        BY <1>5, <2>2, <4>1
      <4> QED BY <2>4, <3>3, <4>1, <4>2 DEF SameSubject
    <3> QED BY <1>1, <2>3, <3>1, <3>2, <3>3
  <2>6. ToSet(merged) = {x \in ToSet(existing) : ~SameSubject(x, note)} \cup {note}
    <3>1. ASSUME NEW x \in ToSet(merged) PROVE (x \in ToSet(existing) /\ ~SameSubject(x, note)) \/ x = note
      <4>1. PICK i \in DOMAIN merged : x = merged[i]
        BY DEF ToSet
      <4>2. CASE i \in 1..Len(existing)
        BY <1>1, <2>2, <2>4, <4>1, <4>2 DEF ToSet
      <4> QED BY <1>1, <2>3, <2>4, <4>1, <4>2
    <3>2. note \in ToSet(merged)
      BY <1>1, <2>3, <2>4 DEF ToSet
    <3>3. ASSUME NEW x \in ToSet(existing) PROVE x \in ToSet(merged)
      <4>1. PICK i \in 1..Len(existing) : x = existing[i]
        BY <1>1 DEF ToSet
      <4> QED BY <1>1, <2>3, <2>4, <4>1 DEF ToSet
    <3> QED BY <3>1, <3>2, <3>3
  <2> HIDE DEF merged
  <2> QED BY <2>3, <2>5, <2>6 DEF merged, OneNotePerSubject
<1>6. CASE (\A i \in 1..Len(existing) : existing[i] # note) /\ same # {}
  <2>1. merged = [existing EXCEPT ![m] = note]
    BY <1>2, <1>6
  <2>2. m \in 1..Len(existing) /\ SameSubject(existing[m], note)
    <3>1. same \subseteq Nat
      BY <1>1
    <3>2. PICK k \in same : \A j \in same : k <= j
      BY <1>6, <3>1, LeastNumber
    <3> HIDE DEF same
    <3>3. m \in same
      BY <3>2 DEF Min
    <3> QED BY <1>1, <3>3 DEF same
  <2> HIDE DEF m
  <2>3. merged \in Seq(Notes) /\ DOMAIN merged = 1..Len(existing) /\ merged[m] = note
        /\ \A i \in 1..Len(existing) : i # m => merged[i] = existing[i]
    BY <1>1, <2>1, <2>2
  <2>4. merged # <<>>
    BY <2>2, <2>3
  <2>5. ASSUME OneNotePerSubject(existing), NEW i \in 1..Len(existing), i # m
        PROVE  existing[i] # note /\ ~SameSubject(existing[i], note) /\ ~SameSubject(note, existing[i])
    BY <1>3, <1>6, <2>2, <2>5 DEF SameSubject
  <2>6. ASSUME OneNotePerSubject(existing), NEW i \in DOMAIN merged, NEW j \in DOMAIN merged, i # j
        PROVE  merged[i] # merged[j] /\ ~SameSubject(merged[i], merged[j])
    <3>1. CASE i # m /\ j # m
      BY <1>3, <2>3, <2>6, <3>1
    <3>2. CASE j = m
      BY <2>3, <2>5, <2>6, <3>2
    <3>3. CASE i = m
      BY <2>3, <2>5, <2>6, <3>3
    <3> QED BY <3>1, <3>2, <3>3
  <2>7. ASSUME OneNotePerSubject(existing)
        PROVE  ToSet(merged) = {x \in ToSet(existing) : ~SameSubject(x, note)} \cup {note}
    <3>1. ASSUME NEW x \in ToSet(merged) PROVE (x \in ToSet(existing) /\ ~SameSubject(x, note)) \/ x = note
      <4>1. PICK i \in DOMAIN merged : x = merged[i]
        BY DEF ToSet
      <4>2. CASE i # m
        BY <1>1, <2>3, <2>5, <2>7, <4>1, <4>2 DEF ToSet
      <4> QED BY <2>3, <4>1, <4>2
    <3>2. note \in ToSet(merged)
      BY <2>2, <2>3 DEF ToSet
    <3>3. ASSUME NEW x \in ToSet(existing), ~SameSubject(x, note) PROVE x \in ToSet(merged)
      <4>1. PICK i \in 1..Len(existing) : x = existing[i]
        BY <1>1 DEF ToSet
      <4>2. i # m
        BY <2>2, <3>3, <4>1
      <4> QED BY <1>1, <2>3, <4>1, <4>2 DEF ToSet
    <3> QED BY <3>1, <3>2, <3>3
  <2> HIDE DEF merged
  <2> QED BY <2>3, <2>4, <2>6, <2>7 DEF merged, OneNotePerSubject
<1> QED BY <1>4, <1>5, <1>6

\* What notes there are, with their topics.
Pairs(notes) == {o \in Topics \X Notes : o[2] \in ToSet(notes[o[1]])}
Pair(line) == <<line.topic, line.note>>
About(o, line) == line.topic = o[1] /\ SameSubject(o[2], line.note)

\* Owed for the first k lines.
OwedAfter(pairs, lines, k) ==
    {o \in pairs : \A i \in 1..k : ~About(o, lines[i])} \cup
    {Pair(lines[i]) : i \in {j \in 1..k : \A l \in (j + 1)..k : ~About(Pair(lines[j]), lines[l])}}

\* Each line supersedes what was owed on its subject.
LEMMA OwedSteps ==
    ASSUME NEW pairs, NEW lines \in Seq(Lines)
    PROVE  /\ OwedAfter(pairs, lines, 0) = pairs
           /\ \A k \in 1..Len(lines) :
                 OwedAfter(pairs, lines, k) =
                     {o \in OwedAfter(pairs, lines, k - 1) : ~About(o, lines[k])} \cup {Pair(lines[k])}
<1>1. OwedAfter(pairs, lines, 0) = pairs
  BY DEF OwedAfter
<1>2. ASSUME NEW k \in 1..Len(lines)
      PROVE  OwedAfter(pairs, lines, k) =
                 {o \in OwedAfter(pairs, lines, k - 1) : ~About(o, lines[k])} \cup {Pair(lines[k])}
  <2> DEFINE old(j) == {o \in pairs : \A i \in 1..j : ~About(o, lines[i])}
             last(j, i) == \A l \in (i + 1)..j : ~About(Pair(lines[i]), lines[l])
             own(j) == {Pair(lines[i]) : i \in {h \in 1..j : last(j, h)}}
  <2>1. \A j \in Nat : OwedAfter(pairs, lines, j) = old(j) \cup own(j)
    BY DEF OwedAfter
  <2>2. k \in Nat /\ k - 1 \in Nat /\ 1..k = 1..(k - 1) \cup {k}
    OBVIOUS
  <2>3. old(k) = {o \in old(k - 1) : ~About(o, lines[k])}
    BY <2>2
  <2>4. \A i \in 1..(k - 1) : (i + 1)..k = (i + 1)..(k - 1) \cup {k}
    OBVIOUS
  <2>5. \A i \in 1..(k - 1) : last(k, i) <=> last(k - 1, i) /\ ~About(Pair(lines[i]), lines[k])
    BY <2>4
  <2>6. last(k, k)
    BY <2>2
  <2> HIDE DEF last
  <2>7. own(k) = {o \in own(k - 1) : ~About(o, lines[k])} \cup {Pair(lines[k])}
    <3>1. ASSUME NEW o \in own(k)
          PROVE  (o \in own(k - 1) /\ ~About(o, lines[k])) \/ o = Pair(lines[k])
      <4>1. PICK i \in 1..k : last(k, i) /\ o = Pair(lines[i])
        OBVIOUS
      <4>2. CASE i \in 1..(k - 1)
        BY <2>5, <4>1, <4>2
      <4> QED BY <2>2, <4>1, <4>2
    <3>2. ASSUME NEW o \in own(k - 1), ~About(o, lines[k]) PROVE o \in own(k)
      <4>1. PICK i \in 1..(k - 1) : last(k - 1, i) /\ o = Pair(lines[i])
        OBVIOUS
      <4> QED BY <2>2, <2>5, <3>2, <4>1
    <3>3. Pair(lines[k]) \in own(k)
      BY <2>2, <2>6
    <3> HIDE DEF own
    <3> QED BY <3>1, <3>2, <3>3
  <2> HIDE DEF old, own
  <2> QED BY <2>1, <2>2, <2>3, <2>7
<1> QED BY <1>1, <1>2

\* found is what the notes are after each line.
Merging(found, notes, lines) ==
    /\ Merge(notes, lines) = found[Len(lines)] /\ found[0] = notes
    /\ \A k \in 1..Len(lines) :
          found[k] = [found[k - 1] EXCEPT
                         ![lines[k].topic] = MergeNote(found[k - 1][lines[k].topic], lines[k].note)]
    /\ \A k \in 0..Len(lines) : found[k] \in [Topics -> Seq(Notes)]

LEMMA MergeSteps ==
    ASSUME NEW notes \in [Topics -> Seq(Notes)], NEW lines \in Seq(Lines)
    PROVE  \E found : Merging(found, notes, lines)
<1> DEFINE n == Len(lines)
           All == [Topics -> Seq(Notes)]
           Put(k, v) == [v EXCEPT ![lines[k].topic] = MergeNote(v[lines[k].topic], lines[k].note)]
           IsMerge(f) == f = [k \in 0..n |-> IF k = 0 THEN notes
                 ELSE [f[k - 1] EXCEPT ![lines[k].topic] = MergeNote(@, lines[k].note)]]
           found == CHOOSE f : IsMerge(f)
<1>1. n \in Nat /\ \A k \in 1..n : lines[k] \in Lines
  OBVIOUS
<1>2. Merge(notes, lines) = found[n]
  BY Zenon DEF Merge
<1> HIDE DEF n
<1>3. ASSUME NEW k \in 1..n, NEW v \in All PROVE Put(k, v) \in All
  <2>1. lines[k].topic \in Topics /\ lines[k].note \in Notes
    BY <1>1 DEF Lines
  <2>2. MergeNote(v[lines[k].topic], lines[k].note) \in Seq(Notes)
    BY <2>1, MergeNoteKeeps
  <2> QED BY <2>1, <2>2
<1>4. \A f : IsMerge(f) <=> f = [k \in 0..n |-> IF k = 0 THEN notes ELSE Put(k, f[k - 1])]
  OBVIOUS
<1> HIDE DEF Put, IsMerge, All
<1>5. \E f : IsMerge(f)
  <2> DEFINE Advance == [x \in (1..n) \X All |-> Put(x[1], x[2])]
  <2>1. Advance \in [(1..n) \X All -> All]
    BY <1>3
  <2>2. \A k \in 1..n, v \in All : Advance[<<k, v>>] = Put(k, v)
    OBVIOUS
  <2> HIDE DEF Advance
  <2>3. notes \in All
    BY DEF All
  <2>4. PICK f : Iterates(f, n, All, notes, Advance)
    BY <1>1, <2>1, <2>3, Recursion
  <2>5. ASSUME NEW k \in 1..n PROVE f[k] = Put(k, f[k - 1])
    <3>1. k - 1 \in 0..n
      BY <1>1
    <3>2. f[k - 1] \in All
      BY <2>4, <3>1 DEF Iterates
    <3> QED BY <2>2, <2>4, <3>2 DEF Iterates
  <2>6. \A k \in 0..n : f[k] = IF k = 0 THEN notes ELSE Put(k, f[k - 1])
    BY <1>1, <2>4, <2>5 DEF Iterates
  <2>7. f = [k \in 0..n |-> f[k]]
    BY <2>4 DEF Iterates
  <2>8. f = [k \in 0..n |-> IF k = 0 THEN notes ELSE Put(k, f[k - 1])]
    BY <2>6, <2>7, Zenon
  <2> QED BY <1>4, <2>8, Zenon
<1>6. IsMerge(found)
  BY <1>5, Zenon
<1> HIDE DEF found
<1>7. \A k \in 0..n : found[k] = IF k = 0 THEN notes ELSE Put(k, found[k - 1])
  BY <1>4, <1>6, Zenon
<1>8. found[0] = notes /\ \A k \in 1..n : found[k] = Put(k, found[k - 1])
  BY <1>1, <1>7
<1> DEFINE T == {k \in 0..n : found[k] \in All}
<1>9. 0 \in T
  BY <1>1, <1>8 DEF All
<1>10. ASSUME NEW k \in 1..n, k - 1 \in T PROVE k \in T
  <2>1. found[k - 1] \in All /\ k \in 0..n
    BY <1>1, <1>10
  <2> QED BY <1>3, <1>8, <2>1
<1> HIDE DEF T
<1>11. 0..n \subseteq T
  BY <1>1, <1>9, <1>10, UpTo
<1>12. \A k \in 0..n : found[k] \in All
  BY <1>11 DEF T
<1>13. Merging(found, notes, lines)
  BY <1>2, <1>8, <1>12 DEF Merging, n, Put, All
<1> QED BY <1>13

\* What promote has after the loop over its lines: no topic loses all notes, only those of the lines
\* change, and what can be found is what is owed then.
LEMMA MergeKeeps ==
    ASSUME NEW notes \in [Topics -> Seq(Notes)], NEW lines \in Seq(Lines)
    PROVE  LET merged == Merge(notes, lines)
           IN  /\ merged \in [Topics -> Seq(Notes)]
               /\ \A t \in Topics : notes[t] # <<>> => merged[t] # <<>>
               /\ \A t \in Topics : merged[t] = notes[t] \/ \E i \in 1..Len(lines) : lines[i].topic = t
               /\ \A i \in 1..Len(lines) : merged[lines[i].topic] # <<>>
               /\ (\A t \in Topics : OneNotePerSubject(notes[t])) =>
                      /\ \A t \in Topics : OneNotePerSubject(merged[t])
                      /\ Pairs(merged) = OwedAfter(Pairs(notes), lines, Len(lines))
<1> DEFINE n == Len(lines)
<1>1. PICK found : Merging(found, notes, lines)
  BY MergeSteps
<1>2. n \in Nat /\ \A k \in 1..n : lines[k].topic \in Topics /\ lines[k].note \in Notes
  <2>1. \A k \in 1..n : lines[k] \in Lines
    OBVIOUS
  <2> QED BY <2>1 DEF Lines
<1>3. /\ found[0] = notes /\ Merge(notes, lines) = found[n]
      /\ \A k \in 0..n : found[k] \in [Topics -> Seq(Notes)]
      /\ \A k \in 1..n :
            found[k] = [found[k - 1] EXCEPT
                ![lines[k].topic] = MergeNote(found[k - 1][lines[k].topic], lines[k].note)]
  BY <1>1 DEF Merging
<1>4. /\ OwedAfter(Pairs(notes), lines, 0) = Pairs(notes)
      /\ \A k \in 1..n :
            OwedAfter(Pairs(notes), lines, k) =
                {o \in OwedAfter(Pairs(notes), lines, k - 1) : ~About(o, lines[k])} \cup {Pair(lines[k])}
  BY ZenonT(60), OwedSteps
<1> HIDE DEF n
<1> DEFINE Grown(k) == \A t \in Topics : notes[t] # <<>> => found[k][t] # <<>>
           Local(k) == \A t \in Topics : found[k][t] = notes[t] \/ \E i \in 1..k : lines[i].topic = t
           Some(k) == \A i \in 1..k : found[k][lines[i].topic] # <<>>
           Single(k) == \A t \in Topics : OneNotePerSubject(found[k][t])
           Known(k) == Pairs(found[k]) = OwedAfter(Pairs(notes), lines, k)
           T == {k \in 0..n : Grown(k) /\ Local(k) /\ Some(k) /\ (Single(0) => Single(k) /\ Known(k))}
<1>5. 0 \in T
  <2>1. 0 \in 0..n /\ Grown(0) /\ Local(0) /\ Some(0) /\ Known(0)
    BY <1>2, <1>3, <1>4
  <2> HIDE DEF Grown, Local, Some, Known
  <2> QED BY <2>1
<1>6. ASSUME NEW k \in 1..n, k - 1 \in T PROVE k \in T
  <2> DEFINE t == lines[k].topic
             note == lines[k].note
             old == found[k - 1]
             new == found[k]
  <2>1. k \in 0..n /\ k - 1 \in 0..n /\ 1..k = 1..(k - 1) \cup {k}
    BY <1>2
  <2>2. t \in Topics /\ note \in Notes /\ old \in [Topics -> Seq(Notes)] /\ new \in [Topics -> Seq(Notes)]
    BY <1>2, <1>3, <2>1
  <2>3. new = [old EXCEPT ![t] = MergeNote(old[t], note)]
    BY <1>3
  <2>4. /\ new[t] = MergeNote(old[t], note)
        /\ \A u \in Topics \ {t} : new[u] = old[u]
    BY <2>2, <2>3
  <2>5. /\ new[t] # <<>>
        /\ OneNotePerSubject(old[t]) =>
               /\ OneNotePerSubject(new[t])
               /\ ToSet(new[t]) = {x \in ToSet(old[t]) : ~SameSubject(x, note)} \cup {note}
    <3>1. old[t] \in Seq(Notes)
      BY <2>2
    <3> HIDE DEF t, note, old, new
    <3> QED BY <2>2, <2>4, <3>1, MergeNoteKeeps, Zenon
  <2>6. Grown(k - 1) /\ Local(k - 1) /\ Some(k - 1) /\ (Single(0) => Single(k - 1) /\ Known(k - 1))
    BY <1>6
  <2> HIDE DEF T
  <2>7. Grown(k)
    BY <2>4, <2>5, <2>6
  <2>8. Local(k)
    BY <2>1, <2>4, <2>6
  <2>9. Some(k)
    <3> SUFFICES ASSUME NEW i \in 1..k PROVE new[lines[i].topic] # <<>>
      OBVIOUS
    <3>1. CASE lines[i].topic = t
      BY <2>5, <3>1
    <3>2. CASE lines[i].topic # t
      <4>1. i \in 1..(k - 1) /\ lines[i].topic \in Topics \ {t}
        BY <1>2, <2>1, <3>2
      <4>2. old[lines[i].topic] # <<>>
        BY <2>6, <4>1
      <4> HIDE DEF t, note, old, new
      <4> QED BY <2>4, <4>1, <4>2
    <3> QED BY <3>1, <3>2
  <2>10. ASSUME Single(0) PROVE Single(k) /\ Known(k)
    <3>1. Single(k)
      BY <2>4, <2>5, <2>6, <2>10
    <3>2. ToSet(new[t]) = {x \in ToSet(old[t]) : ~SameSubject(x, note)} \cup {note}
      BY <2>2, <2>5, <2>6, <2>10
    <3>3. Pairs(new) = {o \in Pairs(old) : ~About(o, lines[k])} \cup {Pair(lines[k])}
      <4>1. ASSUME NEW o \in Topics \X Notes
            PROVE  o \in Pairs(new) <=> (o \in Pairs(old) /\ ~About(o, lines[k])) \/ o = Pair(lines[k])
        <5>1. o = <<o[1], o[2]>> /\ o[1] \in Topics /\ o[2] \in Notes
          OBVIOUS
        <5>2. /\ o \in Pairs(new) <=> o[2] \in ToSet(new[o[1]])
              /\ o \in Pairs(old) <=> o[2] \in ToSet(old[o[1]])
          BY DEF Pairs
        <5>3. About(o, lines[k]) <=> t = o[1] /\ SameSubject(o[2], note)
          BY DEF About
        <5>4. o = Pair(lines[k]) <=> o[1] = t /\ o[2] = note
          BY <5>1 DEF Pair
        <5> HIDE DEF t, note, old, new
        <5>5. CASE o[1] = t
          BY <3>2, <5>2, <5>3, <5>4, <5>5
        <5>6. CASE o[1] # t
          BY <2>4, <5>1, <5>2, <5>3, <5>4, <5>6
        <5> QED BY <5>5, <5>6
      <4>2. Pairs(new) \subseteq Topics \X Notes /\ Pairs(old) \subseteq Topics \X Notes
            /\ Pair(lines[k]) \in Topics \X Notes
        BY <2>2 DEF Pairs, Pair
      <4> HIDE DEF t, note, old, new
      <4> QED BY <4>1, <4>2
    <3>4. Known(k - 1)
      BY <2>6, <2>10
    <3> QED BY <1>4, <3>1, <3>3, <3>4
  <2> HIDE DEF Grown, Local, Some, Single, Known, t, note, old, new
  <2> QED BY <2>1, <2>7, <2>8, <2>9, <2>10 DEF T
<1> HIDE DEF T
<1>7. 0..n \subseteq T
  BY <1>2, <1>5, <1>6, UpTo
<1>8. n \in T
  BY <1>2, <1>7
<1>9. Grown(n) /\ Local(n) /\ Some(n) /\ (Single(0) => Single(n) /\ Known(n))
  BY <1>8 DEF T
<1>10. (\A t \in Topics : OneNotePerSubject(notes[t])) => Single(0)
  BY <1>3
<1>11. found[n] \in [Topics -> Seq(Notes)]
  BY <1>2, <1>3
<1> QED BY <1>3, <1>9, <1>10, <1>11 DEF n

LEMMA LeastTopic == ASSUME NEW S \in SUBSET Topics, S # {} PROVE Min(S) \in S
<1>1. S \subseteq Nat
  BY MemoryAssumption
<1>2. PICK n \in S : \A m \in S : n <= m
  BY <1>1, LeastNumber
<1> QED BY <1>2 DEF Min

\* s is the ascending sequence of S.
Enumerates(s, S) ==
    /\ s \in [1..Cardinality(S) -> S]
    /\ \A i, j \in 1..Cardinality(S) : i < j => s[i] < s[j]

LEMMA SomeEnumeration == \A S \in SUBSET Topics : \E s : Enumerates(s, S)
<1> DEFINE n == Cardinality(Topics)
           T == {k \in 0..n : \A S \in SUBSET Topics : Cardinality(S) = k => \E s : Enumerates(s, S)}
<1>1. n \in Nat /\ \A S \in SUBSET Topics : IsFiniteSet(S) /\ Cardinality(S) \in 0..n
  <2>1. n \in Nat
    BY MemoryAssumption, FS_CardinalityType
  <2>2. ASSUME NEW S \in SUBSET Topics PROVE IsFiniteSet(S) /\ Cardinality(S) \in 0..n
    <3>1. IsFiniteSet(S) /\ Cardinality(S) <= n
      BY MemoryAssumption, FS_Subset
    <3> QED BY <2>1, <3>1, FS_CardinalityType
  <2> QED BY <2>1, <2>2
<1> HIDE DEF n
<1>2. 0 \in T
  <2>1. ASSUME NEW S \in SUBSET Topics, Cardinality(S) = 0 PROVE \E s : Enumerates(s, S)
    <3>1. Enumerates([i \in 1..0 |-> 0], S)
      BY <2>1 DEF Enumerates
    <3> QED BY <3>1
  <2> QED BY <1>1, <2>1
<1>3. ASSUME NEW k \in 1..n, k - 1 \in T PROVE k \in T
  <2> SUFFICES ASSUME NEW S \in SUBSET Topics, Cardinality(S) = k PROVE \E s : Enumerates(s, S)
    BY <1>1
  <2> DEFINE m == Min(S)
             R == S \ {m}
  <2>1. S \subseteq Nat /\ IsFiniteSet(S) /\ k \in Nat /\ k # 0
    BY <1>1, MemoryAssumption
  <2>2. S # {}
    BY <2>1, FS_EmptySet
  <2>3. m \in S /\ \A x \in S : m <= x
    <3>1. PICK x \in S : \A y \in S : x <= y
      BY <2>1, <2>2, LeastNumber
    <3> QED BY <3>1 DEF Min
  <2> HIDE DEF m
  <2>4. Cardinality(R) = k - 1 /\ R \in SUBSET Topics
    BY <2>1, <2>3, FS_RemoveElement
  <2>5. PICK r : Enumerates(r, R)
    BY <1>3, <2>4
  <2>6. r \in [1..(k - 1) -> R] /\ \A i, j \in 1..(k - 1) : i < j => r[i] < r[j]
    BY <2>4, <2>5 DEF Enumerates
  <2> DEFINE s == [i \in 1..k |-> IF i = 1 THEN m ELSE r[i - 1]]
  <2>7. \A i \in 2..k : i - 1 \in 1..(k - 1) /\ s[i] = r[i - 1] /\ r[i - 1] \in R
    BY <2>1, <2>6
  <2>8. s[1] = m
    BY <2>1
  <2>9. s \in [1..k -> S]
    BY <2>1, <2>3, <2>6
  <2> HIDE DEF s
  <2>10. ASSUME NEW i \in 1..k, NEW j \in 1..k, i < j PROVE s[i] < s[j]
    <3>1. j \in 2..k /\ s[j] \in R
      BY <2>1, <2>7, <2>10
    <3>2. CASE i = 1
      <4>1. m <= s[j] /\ m # s[j] /\ m \in Nat /\ s[j] \in Nat
        BY <2>1, <2>3, <3>1
      <4> QED BY <2>8, <3>2, <4>1
    <3>3. CASE i # 1
      <4>1. i \in 2..k /\ i - 1 \in 1..(k - 1) /\ j - 1 \in 1..(k - 1) /\ i - 1 < j - 1
        BY <2>1, <2>10, <3>1, <3>3
      <4> QED BY <2>6, <2>7, <3>1, <4>1
    <3> QED BY <3>2, <3>3
  <2>11. Enumerates(s, S)
    BY <2>9, <2>10 DEF Enumerates
  <2> QED BY <2>11
<1> HIDE DEF T
<1>4. 0..n \subseteq T
  BY <1>1, <1>2, <1>3, UpTo
<1> QED BY <1>1, <1>4 DEF T

\* The index lists the topics it is given.
LEMMA AscendingLists ==
    ASSUME NEW S \in SUBSET Topics
    PROVE  Ascending(S) \in Seq(Topics) /\ ToSet(Ascending(S)) = S
<1> DEFINE s == Ascending(S)
           n == Cardinality(S)
<1>1. IsFiniteSet(S) /\ n \in Nat /\ S \subseteq Nat
  BY MemoryAssumption, FS_Subset, FS_CardinalityType
<1>2. Enumerates(s, S)
  <2>1. \E e \in [1..n -> S] : \A i, j \in 1..n : i < j => e[i] < e[j]
    BY SomeEnumeration DEF Enumerates
  <2> QED BY <2>1, Zenon DEF Enumerates, Ascending
<1>3. s \in [1..n -> S] /\ \A i, j \in 1..n : i < j => s[i] < s[j]
  BY <1>2 DEF Enumerates
<1> HIDE DEF s, n
<1>4. \A i, j \in 1..n : s[i] = s[j] => i = j
  <2> SUFFICES ASSUME NEW i \in 1..n, NEW j \in 1..n, i # j PROVE s[i] # s[j]
    OBVIOUS
  <2>1. s[i] \in S /\ s[j] \in S
    BY <1>3
  <2>2. s[i] \in Nat /\ s[j] \in Nat
    BY <1>1, <2>1
  <2>3. i < j \/ j < i
    BY <1>1
  <2>4. s[i] < s[j] \/ s[j] < s[i]
    BY <1>3, <2>3
  <2> QED BY <2>2, <2>4
<1>5. s \in Injection(1..n, S)
  BY <1>3, <1>4 DEF Injection, IsInjective
<1>6. IsFiniteSet(1..n) /\ Cardinality(1..n) = n
  BY <1>1, FS_Interval
<1>7. s \in Surjection(1..n, S)
  BY <1>1, <1>5, <1>6, FS_Injection DEF n
<1>8. s \in Seq(S) /\ DOMAIN s = 1..n
  BY <1>1, <1>3
<1>9. ToSet(s) = S
  BY <1>3, <1>7, <1>8 DEF ToSet, Surjection
<1>10. s \in Seq(Topics)
  BY <1>8
<1> QED BY <1>9, <1>10 DEF s

\* What a write leaves: what is written, if nobody else has written.
LEMMA WriteOver ==
    ASSUME NEW E, NEW new \in Seq(E), NEW old \in Seq(E)
    PROVE  Over(new, old) \in Seq(E) /\ (old = <<>> => Over(new, old) = new)
<1>1. Len(new) \in Nat /\ Len(old) \in Nat
  OBVIOUS
<1>2. SubSeq(old, Len(new) + 1, Len(old)) \in Seq(E)
  <2>1. \A i \in (Len(new) + 1)..Len(old) : i \in 1..Len(old)
    BY <1>1
  <2> QED BY <1>1, <2>1, SubSeqProperties
<1>3. old = <<>> => SubSeq(old, Len(new) + 1, Len(old)) = <<>>
  BY <1>1
<1> QED BY <1>2, <1>3 DEF Over

-----------------------------------------------------------------------------
(* Delegation: the durable memory *)

WritePlaces == {"open_index", "write_index", "open_topic", "write_topic"}
MemoryPlaces == {"idle", "read_index", "read_topics", "returned", "threw"} \cup WritePlaces

MemoryTypes ==
    /\ index \in Seq(Topics) /\ file \in [Topics -> Seq(Notes)]
    /\ at \in [Promoters -> MemoryPlaces]
    /\ promotions \in [Promoters -> Seq(Lines)]
    /\ topicMap \in [Promoters -> SUBSET Topics]
    /\ topicNotes \in [Promoters -> [Topics -> Seq(Notes)]]
    /\ todo \in [Promoters -> SUBSET Topics]
    /\ owed \in SUBSET (Topics \X Notes)
    /\ overlapped \in SUBSET {"promotions", "writes", "fault"}

\* What is under way has something to promote, and a topic to read or to write next.
WorkOK ==
    \A p \in Promoters :
        /\ at[p] \in {"read_index", "read_topics"} \cup WritePlaces => promotions[p] # <<>>
        /\ at[p] \in {"read_topics"} \cup WritePlaces => todo[p] # {}
        /\ at[p] \in {"idle", "read_index"} => topicNotes[p] = NoNotes

\* As long as no two write a file at a time, what is written is what one has merged.
FilesOK ==
    "writes" \notin overlapped =>
        /\ \A t \in Topics : OneNotePerSubject(file[t])
        /\ \A p \in Promoters : \A t \in Topics : OneNotePerSubject(topicNotes[p][t])
        /\ \A p \in Promoters : at[p] = "write_topic" => file[Min(todo[p])] = <<>>
        /\ \A p, q \in Promoters :
              at[p] = "write_topic" /\ at[q] = "write_topic" /\ p # q => Min(todo[p]) # Min(todo[q])

\* What is owed can be found, and a topic that is not listed has no notes.
Settled == Stored = owed /\ \A t \in Topics \ ToSet(index) : file[t] = <<>>

\* What has been read is what the files hold.
ReadOK(p) ==
    /\ topicMap[p] = ToSet(index)
    /\ \A t \in Topics \ todo[p] : topicNotes[p][t] = file[t]

\* What will be written is what is owed then; all but what is still to be written is
\* there.
WriteOK(p) ==
    /\ Pairs(topicNotes[p]) = Owed(p)
    /\ \A t \in Topics : topicNotes[p][t] # <<>> => t \in topicMap[p]
    /\ \A t \in Topics \ todo[p] : file[t] = topicNotes[p][t]
    /\ at[p] = "write_index" => index = <<>>
    /\ at[p] \in {"open_topic", "write_topic"} => ToSet(index) = topicMap[p]

\* Promotions one after the other.
KeptOK ==
    overlapped = {} =>
        /\ \A p, q \in Busy : p = q
        /\ (\A p \in Promoters : at[p] \notin WritePlaces) => Settled
        /\ \A p \in Promoters : at[p] = "read_topics" => ReadOK(p)
        /\ \A p \in Promoters : at[p] \in WritePlaces => WriteOK(p)

MemoryOK == MemoryTypes /\ WorkOK /\ FilesOK /\ KeptOK

\* All steps on the durable memory.
SomePromote == \E p \in Promoters, wanted \in BOOLEAN, answer \in Answers : Promote(p, wanted, answer)
MemoryNext == \/ SomePromote
              \/ \E p \in Promoters : PromoteStep(p) \/ Throw(p)
              \/ UNCHANGED memoryVars

LEMMA NothingNoted ==
    /\ NoNotes \in [Topics -> Seq(Notes)]
    /\ \A t \in Topics : NoNotes[t] = <<>>
    /\ OneNotePerSubject(<<>>)
    /\ ToSet(<<>>) = {}
BY DEF NoNotes, OneNotePerSubject, ToSet

LEMMA InitMemory == MemoryInit => MemoryOK
<1> SUFFICES ASSUME MemoryInit PROVE MemoryOK
  OBVIOUS
<1>1. MemoryTypes /\ WorkOK
  BY NothingNoted DEF MemoryInit, MemoryTypes, WorkOK, MemoryPlaces, WritePlaces
<1>2. FilesOK
  BY NothingNoted DEF MemoryInit, FilesOK
<1>3. KeptOK
  <2>1. Busy = {} /\ \A p \in Promoters : at[p] = "idle"
    BY DEF MemoryInit, Busy
  <2>2. Stored = {} /\ owed = {} /\ \A t \in Topics : file[t] = <<>>
    BY NothingNoted DEF MemoryInit, Stored
  <2>3. Settled
    BY <2>2 DEF Settled
  <2> QED BY <2>1, <2>3 DEF KeptOK, WritePlaces
<1> QED BY <1>1, <1>2, <1>3 DEF MemoryOK

\* When the last topic has been read.
LEMMA AfterReading ==
    ASSUME MemoryTypes, WorkOK, NEW p \in Promoters, at[p] \in {"read_index", "read_topics"},
           NEW read \in [Topics -> Seq(Notes)], Merged(p, read)
    PROVE  LET merged == Merge(read, promotions[p])
           IN  /\ at' = [at EXCEPT ![p] = "open_index"]
               /\ topicMap' = [topicMap EXCEPT ![p] = ListedTopics(p)]
               /\ topicNotes' = [topicNotes EXCEPT ![p] = merged]
               /\ todo' = [todo EXCEPT ![p] = {t \in Topics : merged[t] # <<>>}]
               /\ merged \in [Topics -> Seq(Notes)]
               /\ ListedTopics(p) \in SUBSET Topics /\ topicMap[p] \subseteq ListedTopics(p)
               /\ \A i \in 1..Len(promotions[p]) : promotions[p][i].topic \in ListedTopics(p)
               /\ {t \in Topics : merged[t] # <<>>} # {}
<1> DEFINE lines == promotions[p]
           merged == Merge(read, lines)
<1>1. lines \in Seq(Lines) /\ lines # <<>> /\ topicMap[p] \in SUBSET Topics
  BY DEF MemoryTypes, WorkOK
<1>2. merged \in [Topics -> Seq(Notes)] /\ \A i \in 1..Len(lines) : merged[lines[i].topic] # <<>>
  BY <1>1, MergeKeeps
<1>3. /\ at' = [at EXCEPT ![p] = "open_index"]
      /\ topicMap' = [topicMap EXCEPT ![p] = ListedTopics(p)]
      /\ topicNotes' = [topicNotes EXCEPT ![p] = merged]
      /\ todo' = [todo EXCEPT ![p] = {t \in Topics : topicNotes'[p][t] # <<>>}]
  BY DEF Merged
<1>4. topicNotes'[p] = merged
  BY <1>3 DEF MemoryTypes
<1>5. \A i \in 1..Len(lines) : lines[i].topic \in Topics
  <2>1. \A i \in 1..Len(lines) : lines[i] \in Lines
    BY <1>1
  <2> QED BY <2>1 DEF Lines
<1>6. ToSet(lines) = {lines[i] : i \in 1..Len(lines)}
  BY <1>1 DEF ToSet
<1>7. /\ ListedTopics(p) \in SUBSET Topics /\ topicMap[p] \subseteq ListedTopics(p)
      /\ \A i \in 1..Len(lines) : lines[i].topic \in ListedTopics(p)
  <2>1. ListedTopics(p) = topicMap[p] \cup {line.topic : line \in ToSet(lines)}
    BY Zenon DEF ListedTopics
  <2> HIDE DEF lines
  <2> QED BY <1>1, <1>5, <1>6, <2>1
<1>8. 1 \in 1..Len(lines)
  BY <1>1
<1>9. {t \in Topics : merged[t] # <<>>} # {}
  <2>1. lines[1].topic \in Topics /\ merged[lines[1].topic] # <<>>
    BY <1>2, <1>5, <1>8
  <2> HIDE DEF merged, lines
  <2> QED BY <2>1
<1> HIDE DEF merged, lines
<1> QED BY <1>2, <1>3, <1>4, <1>7, <1>9 DEF merged, lines

\* Owed, for the lines of a promotion one by one.
LEMMA OwedIs ==
    ASSUME MemoryTypes, NEW p \in Promoters
    PROVE  Owed(p) = OwedAfter(owed, promotions[p], Len(promotions[p]))
<1> DEFINE lines == promotions[p]
           gone(t, note, from) == \E i \in from..Len(lines) :
               lines[i].topic = t /\ SameSubject(note, lines[i].note)
<1>1. lines \in Seq(Lines)
  BY DEF MemoryTypes
<1>2. Owed(p) = {o \in owed : ~gone(o[1], o[2], 1)} \cup
                {<<lines[i].topic, lines[i].note>> :
                    i \in {j \in DOMAIN lines : ~gone(lines[j].topic, lines[j].note, j + 1)}}
  BY Zenon DEF Owed
<1>3. \A o : ~gone(o[1], o[2], 1) <=> \A i \in 1..Len(lines) : ~About(o, lines[i])
  BY Zenon DEF About
<1>4. \A j \in DOMAIN lines :
          ~gone(lines[j].topic, lines[j].note, j + 1) <=>
              \A l \in (j + 1)..Len(lines) : ~About(Pair(lines[j]), lines[l])
  BY DEF About, Pair
<1>5. DOMAIN lines = 1..Len(lines)
  BY <1>1
<1> HIDE DEF lines, gone
<1> QED BY <1>2, <1>3, <1>4, <1>5, Zenon DEF OwedAfter, Pair, lines

LEMMA LineTypes ==
    ASSUME MemoryTypes, NEW p \in Promoters
    PROVE  \A i \in 1..Len(promotions[p]) : Pair(promotions[p][i]) \in Topics \X Notes
<1>1. \A i \in 1..Len(promotions[p]) : promotions[p][i] \in Lines
  BY DEF MemoryTypes
<1> QED BY <1>1 DEF Pair, Lines

LEMMA OwedType == ASSUME MemoryTypes, NEW p \in Promoters PROVE Owed(p) \in SUBSET (Topics \X Notes)
BY LineTypes, OwedIs DEF OwedAfter, MemoryTypes

LEMMA WorkStep == MemoryTypes /\ WorkOK /\ MemoryNext => MemoryTypes' /\ WorkOK'
<1> SUFFICES ASSUME MemoryTypes, WorkOK, MemoryNext PROVE MemoryTypes' /\ WorkOK'
  OBVIOUS
<1> USE DEF MemoryPlaces, WritePlaces
<1>1. ASSUME NEW p \in Promoters, NEW wanted \in BOOLEAN, NEW answer \in Answers,
             Promote(p, wanted, answer)
      PROVE  MemoryTypes' /\ WorkOK'
  <2> DEFINE lines == Extract(wanted, answer)
  <2>1. lines \in Seq(Lines)
    BY ExtractType, MemoryAssumption
  <2>2. /\ at[p] = "idle" /\ at' = [at EXCEPT ![p] = IF lines = <<>> THEN "returned" ELSE "read_index"]
        /\ promotions' = [promotions EXCEPT ![p] = lines]
        /\ overlapped' \in {overlapped, overlapped \cup {"promotions"}}
        /\ UNCHANGED <<index, file, topicMap, topicNotes, todo, faults, owed>>
    BY <1>1, Zenon DEF Promote, Goto, disk
  <2> HIDE DEF lines
  <2>3. MemoryTypes'
    BY <2>1, <2>2 DEF MemoryTypes
  <2>4. WorkOK'
    BY <2>1, <2>2 DEF MemoryTypes, WorkOK
  <2> QED BY <2>3, <2>4
<1>2. ASSUME NEW p \in Promoters, ReadIndex(p) PROVE MemoryTypes' /\ WorkOK'
  <2>1. at[p] = "read_index" /\ UNCHANGED <<index, file, promotions, faults, owed, overlapped>>
        /\ ToSet(index) \in SUBSET Topics
    BY <1>2 DEF ReadIndex, disk, history, ToSet, MemoryTypes
  <2>2. CASE ToSet(index) = {}
    <3>1. Merged(p, NoNotes)
      BY <1>2, <2>2 DEF ReadIndex
    <3> DEFINE merged == Merge(NoNotes, promotions[p])
               listed == ListedTopics(p)
               left == {u \in Topics : merged[u] # <<>>}
    <3>2. /\ at' = [at EXCEPT ![p] = "open_index"] /\ topicMap' = [topicMap EXCEPT ![p] = listed]
          /\ topicNotes' = [topicNotes EXCEPT ![p] = merged]
          /\ todo' = [todo EXCEPT ![p] = left] /\ left # {} /\ left \in SUBSET Topics
          /\ merged \in [Topics -> Seq(Notes)] /\ listed \in SUBSET Topics
      BY <2>1, <3>1, AfterReading, NothingNoted
    <3> HIDE DEF merged, listed, left
    <3> QED BY <2>1, <3>2 DEF MemoryTypes, WorkOK
  <2>3. CASE ToSet(index) # {}
    <3>1. /\ at' = [at EXCEPT ![p] = "read_topics"] /\ UNCHANGED topicNotes
          /\ topicMap' = [topicMap EXCEPT ![p] = ToSet(index)]
          /\ todo' = [todo EXCEPT ![p] = ToSet(index)]
      BY <1>2, <2>3 DEF ReadIndex, Goto
    <3> QED BY <2>1, <2>3, <3>1 DEF MemoryTypes, WorkOK
  <2> QED BY <2>2, <2>3
<1>3. ASSUME NEW p \in Promoters, ReadTopic(p) PROVE MemoryTypes' /\ WorkOK'
  <2> DEFINE t == Min(todo[p])
             read == [topicNotes[p] EXCEPT ![t] = file[t]]
  <2>1. at[p] = "read_topics" /\ UNCHANGED <<index, file, promotions, faults, owed, overlapped>>
    BY <1>3 DEF ReadTopic, disk, history
  <2>2. todo[p] \in SUBSET Topics /\ todo[p] # {}
    BY <2>1 DEF MemoryTypes, WorkOK
  <2>3. t \in todo[p] /\ t \in Topics
    BY <2>2, LeastTopic
  <2>4. read \in [Topics -> Seq(Notes)]
    BY <2>3 DEF MemoryTypes
  <2>5. IF todo[p] = {t} THEN Merged(p, read)
        ELSE /\ topicNotes' = [topicNotes EXCEPT ![p] = read]
             /\ todo' = [todo EXCEPT ![p] = todo[p] \ {t}]
             /\ UNCHANGED <<at, topicMap>>
    BY <1>3 DEF ReadTopic
  <2> HIDE DEF t, read
  <2>6. CASE todo[p] = {t}
    <3> DEFINE merged == Merge(read, promotions[p])
               listed == ListedTopics(p)
               left == {u \in Topics : merged[u] # <<>>}
    <3>1. /\ at' = [at EXCEPT ![p] = "open_index"] /\ topicMap' = [topicMap EXCEPT ![p] = listed]
          /\ topicNotes' = [topicNotes EXCEPT ![p] = merged]
          /\ todo' = [todo EXCEPT ![p] = left] /\ left # {} /\ left \in SUBSET Topics
          /\ merged \in [Topics -> Seq(Notes)] /\ listed \in SUBSET Topics
      BY <2>1, <2>4, <2>5, <2>6, AfterReading
    <3> HIDE DEF merged, listed, left
    <3> QED BY <2>1, <3>1 DEF MemoryTypes, WorkOK
  <2>7. CASE todo[p] # {t}
    <3> DEFINE left == todo[p] \ {t}
    <3>1. left # {} /\ left \in SUBSET Topics
      BY <2>2, <2>3, <2>7
    <3>2. todo' = [todo EXCEPT ![p] = left]
      BY <2>1, <2>1, <2>2, <2>4, <2>5, <2>7, <3>1
    <3> HIDE DEF left
    <3>3. MemoryTypes'
      BY ZenonT(60), <2>1, <2>2, <2>4, <2>5, <2>7, <3>1, <3>2 DEF MemoryTypes
    <3>4. WorkOK'
      BY <2>1, <2>2, <2>4, <2>5, <2>7, <3>1, <3>2 DEF MemoryTypes, WorkOK
    <3> QED BY <3>3, <3>4
  <2> QED BY <2>6, <2>7
<1>4. ASSUME NEW p \in Promoters, OpenIndex(p) PROVE MemoryTypes' /\ WorkOK'
  <2>1. /\ at[p] = "open_index" /\ at' = [at EXCEPT ![p] = "write_index"] /\ index' = <<>>
        /\ overlapped' \in {overlapped, overlapped \cup {"writes"}}
        /\ UNCHANGED <<file, promotions, topicMap, topicNotes, todo, faults, owed>>
    BY <1>4 DEF OpenIndex, Goto, local
  <2> QED BY <2>1 DEF MemoryTypes, WorkOK
<1>5. ASSUME NEW p \in Promoters, WriteIndex(p) PROVE MemoryTypes' /\ WorkOK'
  <2>1. /\ at[p] = "write_index" /\ at' = [at EXCEPT ![p] = "open_topic"]
        /\ index' = Over(Ascending(topicMap[p]), index)
        /\ UNCHANGED <<file, promotions, topicMap, topicNotes, todo, faults, owed, overlapped>>
    BY <1>5 DEF WriteIndex, Goto, local, history
  <2>2. index' \in Seq(Topics)
    <3>1. topicMap[p] \in SUBSET Topics /\ index \in Seq(Topics)
      BY DEF MemoryTypes
    <3> QED BY <2>1, <3>1, AscendingLists, WriteOver
  <2> QED BY <2>1, <2>2 DEF MemoryTypes, WorkOK
<1>6. ASSUME NEW p \in Promoters, OpenTopic(p) PROVE MemoryTypes' /\ WorkOK'
  <2>1. /\ at[p] = "open_topic" /\ at' = [at EXCEPT ![p] = "write_topic"]
        /\ file' = [file EXCEPT ![Min(todo[p])] = <<>>]
        /\ overlapped' \in {overlapped, overlapped \cup {"writes"}}
        /\ UNCHANGED <<index, promotions, topicMap, topicNotes, todo, faults, owed>>
    BY <1>6 DEF OpenTopic, Goto, local
  <2>2. <<>> \in Seq(Notes)
    OBVIOUS
  <2> QED BY <2>1, <2>2 DEF MemoryTypes, WorkOK
<1>7. ASSUME NEW p \in Promoters, WriteTopic(p) PROVE MemoryTypes' /\ WorkOK'
  <2> DEFINE t == Min(todo[p])
  <2>1. /\ at[p] = "write_topic" /\ file' = [file EXCEPT ![t] = Over(topicNotes[p][t], file[t])]
        /\ UNCHANGED <<index, faults, overlapped>>
        /\ IF todo[p] = {t} THEN Leave(p, "returned") /\ owed' = Owed(p)
           ELSE /\ at' = [at EXCEPT ![p] = "open_topic"]
                /\ todo' = [todo EXCEPT ![p] = todo[p] \ {t}]
                /\ UNCHANGED <<promotions, topicMap, topicNotes, owed>>
    BY <1>7 DEF WriteTopic, Goto
  <2>2. todo[p] \in SUBSET Topics /\ todo[p] # {}
    BY <2>1 DEF MemoryTypes, WorkOK
  <2>3. t \in todo[p] /\ t \in Topics
    BY <2>2, LeastTopic
  <2> HIDE DEF t
  <2>4. file' \in [Topics -> Seq(Notes)]
    <3>1. topicNotes[p][t] \in Seq(Notes) /\ file[t] \in Seq(Notes)
      BY <2>3 DEF MemoryTypes
    <3>2. Over(topicNotes[p][t], file[t]) \in Seq(Notes)
      BY <3>1, WriteOver
    <3> QED BY <2>1, <3>2 DEF MemoryTypes
  <2>5. CASE todo[p] = {t}
    <3>1. Leave(p, "returned") /\ owed' \in SUBSET (Topics \X Notes)
      BY <2>1, <2>5, OwedType
    <3> QED BY <2>1, <2>4, <3>1, NothingNoted DEF MemoryTypes, WorkOK, Leave
  <2>6. CASE todo[p] # {t}
    <3> DEFINE left == todo[p] \ {t}
    <3>1. left # {} /\ left \in SUBSET Topics
      BY <2>2, <2>3, <2>6
    <3>2. todo' = [todo EXCEPT ![p] = left]
      BY <2>1, <2>1, <2>2, <2>4, <2>6, <3>1
    <3> HIDE DEF left
    <3>3. MemoryTypes'
      BY <2>1, <2>2, <2>4, <2>6, <3>1, <3>2 DEF MemoryTypes
    <3>4. WorkOK'
      BY ZenonT(60), <2>1, <2>2, <2>4, <2>6, <3>1, <3>2 DEF MemoryTypes, WorkOK
    <3> QED BY <3>3, <3>4
  <2> QED BY <2>5, <2>6
<1>8. ASSUME NEW p \in Promoters, Throw(p) PROVE MemoryTypes' /\ WorkOK'
  <2>1. Leave(p, "threw") /\ overlapped' = overlapped \cup {"fault"} /\ UNCHANGED <<index, file, owed>>
    BY <1>8 DEF Throw, disk
  <2> QED BY <2>1, NothingNoted DEF MemoryTypes, WorkOK, Leave
<1>9. CASE UNCHANGED memoryVars
  BY <1>9 DEF MemoryTypes, WorkOK, memoryVars, disk, local, history
<1> QED BY <1>1, <1>2, <1>3, <1>4, <1>5, <1>6, <1>7, <1>8, <1>9 DEF MemoryNext, SomePromote, PromoteStep

\* What one merges, or writes while nobody else does, has one note on a subject.
LEMMA FilesStep == MemoryTypes /\ WorkOK /\ FilesOK /\ MemoryNext => FilesOK'
<1> SUFFICES ASSUME MemoryTypes, WorkOK, FilesOK, MemoryNext, "writes" \notin overlapped' PROVE FilesOK'
  BY DEF FilesOK
<1> DEFINE FilesHold ==
               /\ \A t \in Topics : OneNotePerSubject(file[t])
               /\ \A p \in Promoters : \A t \in Topics : OneNotePerSubject(topicNotes[p][t])
               /\ \A p \in Promoters : at[p] = "write_topic" => file[Min(todo[p])] = <<>>
               /\ \A p, q \in Promoters :
                     at[p] = "write_topic" /\ at[q] = "write_topic" /\ p # q => Min(todo[p]) # Min(todo[q])
<1> SUFFICES ASSUME "writes" \notin overlapped => FilesHold PROVE FilesHold'
  BY DEF FilesOK
<1>0. \A p \in Promoters : at[p] \in WritePlaces \cup {"read_topics"} =>
          Min(todo[p]) \in todo[p] /\ Min(todo[p]) \in Topics
  <2> SUFFICES ASSUME NEW p \in Promoters, at[p] \in WritePlaces \cup {"read_topics"}
               PROVE  Min(todo[p]) \in todo[p] /\ Min(todo[p]) \in Topics
    OBVIOUS
  <2>1. todo[p] \in SUBSET Topics /\ todo[p] # {}
    BY DEF MemoryTypes, WorkOK
  <2> QED BY <2>1, LeastTopic
<1> USE DEF WritePlaces
<1>1. ASSUME NEW p \in Promoters, NEW wanted \in BOOLEAN, NEW answer \in Answers,
             Promote(p, wanted, answer)
      PROVE  FilesHold'
  <2>1. /\ at[p] = "idle" /\ \E x \in {"returned", "read_index"} : at' = [at EXCEPT ![p] = x]
        /\ overlapped \subseteq overlapped' /\ UNCHANGED <<file, topicNotes, todo>>
    BY <1>1 DEF Promote, Goto, disk
  <2> QED BY <2>1 DEF MemoryTypes
<1>2. ASSUME NEW p \in Promoters, NEW read \in [Topics -> Seq(Notes)], Merged(p, read),
             at[p] \in {"read_index", "read_topics"}, UNCHANGED <<file, overlapped>>,
             \A t \in Topics : OneNotePerSubject(read[t])
      PROVE  FilesHold'
  <2> DEFINE merged == Merge(read, promotions[p])
             left == {t \in Topics : merged[t] # <<>>}
  <2>1. /\ at' = [at EXCEPT ![p] = "open_index"] /\ topicNotes' = [topicNotes EXCEPT ![p] = merged]
        /\ todo' = [todo EXCEPT ![p] = left]
    BY <1>2, AfterReading
  <2>2. \A t \in Topics : OneNotePerSubject(merged[t])
    <3>1. promotions[p] \in Seq(Lines)
      BY DEF MemoryTypes
    <3> QED BY <1>2, <3>1, MergeKeeps
  <2> HIDE DEF merged, left
  <2>3. \A q \in Promoters : at'[q] = "write_topic" => q # p /\ at[q] = "write_topic" /\ todo'[q] = todo[q]
    BY <2>1 DEF MemoryTypes
  <2>4. \A q \in Promoters : topicNotes'[q] = IF q = p THEN merged ELSE topicNotes[q]
    BY <2>1 DEF MemoryTypes
  <2>5. FilesHold /\ file' = file
    BY <1>2
  <2> QED BY <2>2, <2>3, <2>4, <2>5
<1>3. ASSUME NEW p \in Promoters, ReadIndex(p) PROVE FilesHold'
  <2>1. at[p] = "read_index" /\ UNCHANGED <<file, overlapped>>
    BY <1>3 DEF ReadIndex, disk, history
  <2>2. CASE ToSet(index) = {}
    <3>1. Merged(p, NoNotes)
      BY <1>3, <2>2 DEF ReadIndex
    <3> QED BY <1>2, <2>1, <3>1, NothingNoted
  <2>3. CASE ToSet(index) # {}
    <3>1. /\ at' = [at EXCEPT ![p] = "read_topics"] /\ UNCHANGED topicNotes
          /\ todo' = [todo EXCEPT ![p] = ToSet(index)]
      BY <1>3, <2>3 DEF ReadIndex, Goto
    <3>2. \A q \in Promoters : at'[q] = "write_topic" => at[q] = "write_topic" /\ todo'[q] = todo[q]
      BY <2>1, <3>1 DEF MemoryTypes
    <3> QED BY <2>1, <3>1, <3>2
  <2> QED BY <2>2, <2>3
<1>4. ASSUME NEW p \in Promoters, ReadTopic(p) PROVE FilesHold'
  <2> DEFINE t == Min(todo[p])
             read == [topicNotes[p] EXCEPT ![t] = file[t]]
  <2>1. at[p] = "read_topics" /\ UNCHANGED <<file, overlapped>> /\ FilesHold
    BY <1>4 DEF ReadTopic, disk, history
  <2>2. t \in Topics
    BY <1>0, <2>1
  <2>3. IF todo[p] = {t} THEN Merged(p, read)
        ELSE /\ topicNotes' = [topicNotes EXCEPT ![p] = read]
             /\ todo' = [todo EXCEPT ![p] = todo[p] \ {t}]
             /\ UNCHANGED <<at, topicMap>>
    BY <1>4 DEF ReadTopic
  <2>4. /\ read \in [Topics -> Seq(Notes)]
        /\ \A u \in Topics : read[u] = IF u = t THEN file[t] ELSE topicNotes[p][u]
    BY <2>2 DEF MemoryTypes
  <2>5. \A u \in Topics : OneNotePerSubject(read[u])
    BY <2>1, <2>2, <2>4
  <2> HIDE DEF t, read
  <2>6. CASE todo[p] = {t}
    BY <1>2, <2>1, <2>3, <2>4, <2>5, <2>6
  <2>7. CASE todo[p] # {t}
    <3>1. \A q \in Promoters : at'[q] = "write_topic" => at[q] = "write_topic" /\ todo'[q] = todo[q]
      BY <2>1, <2>3, <2>7 DEF MemoryTypes
    <3>2. \A q \in Promoters : topicNotes'[q] = IF q = p THEN read ELSE topicNotes[q]
      BY <2>3, <2>7 DEF MemoryTypes
    <3> QED BY <2>1, <2>5, <3>1, <3>2
  <2> QED BY <2>6, <2>7
<1>5. ASSUME NEW p \in Promoters, OpenIndex(p) \/ WriteIndex(p) PROVE FilesHold'
  <2>1. /\ \E x \in {"write_index", "open_topic"} : at' = [at EXCEPT ![p] = x]
        /\ UNCHANGED <<file, topicNotes, todo>> /\ overlapped \subseteq overlapped'
    BY <1>5 DEF OpenIndex, WriteIndex, Goto, local, history
  <2> QED BY <2>1 DEF MemoryTypes
<1>6. ASSUME NEW p \in Promoters, OpenTopic(p) PROVE FilesHold'
  <2> DEFINE t == Min(todo[p])
  <2>1. /\ at[p] = "open_topic" /\ at' = [at EXCEPT ![p] = "write_topic"]
        /\ file' = [file EXCEPT ![t] = <<>>]
        /\ overlapped' = IF SharedTopic(p, t) THEN overlapped \cup {"writes"} ELSE overlapped
        /\ UNCHANGED <<topicNotes, todo>>
    BY <1>6 DEF OpenTopic, Goto, local
  <2>2. t \in Topics /\ ~SharedTopic(p, t) /\ overlapped' = overlapped /\ FilesHold
    BY <1>0, <2>1
  <2>3. \A q \in Promoters : at'[q] = "write_topic" => q = p \/ (at[q] = "write_topic" /\ q # p)
    BY <2>1 DEF MemoryTypes
  <2>4. \A q \in Promoters : q # p /\ at[q] = "write_topic" => Min(todo[q]) # t
    BY <2>2 DEF SharedTopic
  <2>5. \A u \in Topics : file'[u] = IF u = t THEN <<>> ELSE file[u]
    BY <2>1, <2>2 DEF MemoryTypes
  <2> HIDE DEF t
  <2>6. \A u \in Topics : OneNotePerSubject(file'[u])
    BY <2>2, <2>5, NothingNoted
  <2>7. \A q \in Promoters : at'[q] = "write_topic" => file'[Min(todo[q])] = <<>>
    <3> SUFFICES ASSUME NEW q \in Promoters, at'[q] = "write_topic" PROVE file'[Min(todo[q])] = <<>>
      OBVIOUS
    <3>1. CASE q = p
      BY <2>2, <2>5, <3>1 DEF t
    <3>2. CASE q # p
      <4>1. at[q] = "write_topic" /\ Min(todo[q]) \in Topics
        BY <1>0, <2>3, <3>2
      <4> QED BY <2>2, <2>5, <4>1
    <3> QED BY <3>1, <3>2
  <2>8. \A q, r \in Promoters : at'[q] = "write_topic" /\ at'[r] = "write_topic" /\ q # r =>
            Min(todo[q]) # Min(todo[r])
    BY <2>2, <2>3, <2>4 DEF t
  <2> QED BY <2>1, <2>2, <2>6, <2>7, <2>8
<1>7. ASSUME NEW p \in Promoters, WriteTopic(p) PROVE FilesHold'
  <2> DEFINE t == Min(todo[p])
  <2>1. /\ at[p] = "write_topic" /\ file' = [file EXCEPT ![t] = Over(topicNotes[p][t], file[t])]
        /\ UNCHANGED overlapped
        /\ IF todo[p] = {t} THEN Leave(p, "returned")
           ELSE /\ at' = [at EXCEPT ![p] = "open_topic"]
                /\ todo' = [todo EXCEPT ![p] = todo[p] \ {t}]
                /\ UNCHANGED topicNotes
    BY <1>7 DEF WriteTopic, Goto
  <2>2. t \in Topics /\ FilesHold
    BY <1>0, <2>1
  <2>3. file[t] = <<>> /\ Over(topicNotes[p][t], file[t]) = topicNotes[p][t]
    <3>1. topicNotes[p][t] \in Seq(Notes) /\ file[t] \in Seq(Notes) /\ file[t] = <<>>
      BY <2>1, <2>2 DEF MemoryTypes
    <3> QED BY ZenonT(60), <3>1, WriteOver
  <2>4. \A q \in Promoters : q # p /\ at[q] = "write_topic" => Min(todo[q]) # t
    BY <2>1, <2>2
  <2> HIDE DEF t
  <2>5. \A u \in Topics : file'[u] = IF u = t THEN topicNotes[p][t] ELSE file[u]
    BY <2>1, <2>2, <2>3 DEF MemoryTypes
  <2>6. /\ \A q \in Promoters : at'[q] = "write_topic" => q # p /\ at[q] = "write_topic" /\ todo'[q] = todo[q]
        /\ \A q \in Promoters : topicNotes'[q] \in {topicNotes[q], NoNotes}
    BY <2>1 DEF MemoryTypes, Leave
  <2>7. \A u \in Topics : OneNotePerSubject(file'[u])
    BY <2>2, <2>5
  <2>8. \A q \in Promoters : \A u \in Topics : OneNotePerSubject(topicNotes'[q][u])
    <3> SUFFICES ASSUME NEW q \in Promoters, NEW u \in Topics PROVE OneNotePerSubject(topicNotes'[q][u])
      OBVIOUS
    <3>1. topicNotes'[q][u] = topicNotes[q][u] \/ topicNotes'[q][u] = <<>>
      BY <2>6, NothingNoted
    <3> QED BY <2>2, <3>1, NothingNoted
  <2>9. \A q \in Promoters : at'[q] = "write_topic" => file'[Min(todo'[q])] = <<>>
    <3> SUFFICES ASSUME NEW q \in Promoters, at'[q] = "write_topic" PROVE file'[Min(todo'[q])] = <<>>
      OBVIOUS
    <3>1. q # p /\ at[q] = "write_topic" /\ todo'[q] = todo[q]
      BY <2>6
    <3>2. Min(todo[q]) \in Topics /\ Min(todo[q]) # t
      BY <1>0, <2>4, <3>1
    <3> QED BY <2>2, <2>5, <3>1, <3>2
  <2>10. \A q, r \in Promoters : at'[q] = "write_topic" /\ at'[r] = "write_topic" /\ q # r =>
             Min(todo'[q]) # Min(todo'[r])
    <3> SUFFICES ASSUME NEW q \in Promoters, NEW r \in Promoters, at'[q] = "write_topic",
                        at'[r] = "write_topic", q # r
                 PROVE  Min(todo'[q]) # Min(todo'[r])
      OBVIOUS
    <3>1. at[q] = "write_topic" /\ todo'[q] = todo[q] /\ at[r] = "write_topic" /\ todo'[r] = todo[r]
      BY <2>6
    <3> QED BY <2>2, <3>1
  <2> QED BY <2>7, <2>8, <2>9, <2>10
<1>8. ASSUME NEW p \in Promoters, Throw(p) PROVE FilesHold'
  <2>1. Leave(p, "threw") /\ overlapped \subseteq overlapped' /\ UNCHANGED file
    BY <1>8 DEF Throw, disk
  <2>2. /\ \A q \in Promoters : at'[q] = "write_topic" => at[q] = "write_topic" /\ todo'[q] = todo[q]
        /\ \A q \in Promoters : topicNotes'[q] \in {topicNotes[q], NoNotes}
    BY <2>1 DEF MemoryTypes, Leave
  <2>3. FilesHold
    BY <2>1
  <2>4. \A q \in Promoters : \A u \in Topics : OneNotePerSubject(topicNotes'[q][u])
    <3> SUFFICES ASSUME NEW q \in Promoters, NEW u \in Topics PROVE OneNotePerSubject(topicNotes'[q][u])
      OBVIOUS
    <3>1. topicNotes'[q][u] = topicNotes[q][u] \/ topicNotes'[q][u] = <<>>
      BY <2>2, NothingNoted
    <3> QED BY <2>3, <3>1, NothingNoted
  <2> QED BY <2>1, <2>2, <2>3, <2>4
<1>9. CASE UNCHANGED memoryVars
  BY <1>9 DEF memoryVars, disk, local, history
<1> HIDE DEF FilesHold
<1> QED BY <1>1, <1>3, <1>4, <1>5, <1>6, <1>7, <1>8, <1>9 DEF MemoryNext, SomePromote, PromoteStep

\* What is settled is all there is in the files.
LEMMA SettledFiles == ASSUME MemoryTypes, Settled PROVE Pairs(file) = owed
<1>1. ASSUME NEW o \in Pairs(file) PROVE o \in Stored
  <2>1. o \in Topics \X Notes /\ o[2] \in ToSet(file[o[1]]) /\ o[1] \in Topics
    BY DEF Pairs
  <2>2. file[o[1]] # <<>>
    BY <2>1, NothingNoted
  <2> QED BY <2>1, <2>2 DEF Settled, Stored
<1>2. Stored \subseteq Pairs(file)
  BY DEF Stored, Pairs
<1> QED BY <1>1, <1>2 DEF Settled

LEMMA BusyAre ==
    Busy = {p \in Promoters : at[p] \notin {"idle", "returned", "threw"}}
    /\ Busy' = {p \in Promoters : at'[p] \notin {"idle", "returned", "threw"}}
BY DEF Busy

\* What it has read when the last topic has been read, if nobody else is busy.
LEMMA ReadingEnds ==
    ASSUME MemoryTypes, WorkOK, FilesOK, Settled, overlapped = {},
           NEW p \in Promoters, at[p] \in {"read_index", "read_topics"}, Merged(p, file),
           UNCHANGED <<file, index, promotions, owed>>,
           ToSet(index) \subseteq topicMap[p]
    PROVE  WriteOK(p)' /\ at' = [at EXCEPT ![p] = "open_index"]
<1> DEFINE lines == promotions[p]
           merged == Merge(file, lines)
<1>1. file \in [Topics -> Seq(Notes)] /\ lines \in Seq(Lines)
  BY DEF MemoryTypes
<1>2. /\ at' = [at EXCEPT ![p] = "open_index"]
      /\ topicMap' = [topicMap EXCEPT ![p] = ListedTopics(p)]
      /\ topicNotes' = [topicNotes EXCEPT ![p] = merged]
      /\ todo' = [todo EXCEPT ![p] = {t \in Topics : merged[t] # <<>>}]
      /\ topicMap[p] \subseteq ListedTopics(p)
      /\ \A i \in 1..Len(lines) : lines[i].topic \in ListedTopics(p)
  BY <1>1, AfterReading
<1>3. at'[p] = "open_index" /\ topicMap'[p] = ListedTopics(p) /\ topicNotes'[p] = merged
      /\ todo'[p] = {t \in Topics : merged[t] # <<>>}
  BY <1>2 DEF MemoryTypes
<1>4. /\ \A t \in Topics : file[t] # <<>> => merged[t] # <<>>
      /\ \A t \in Topics : merged[t] = file[t] \/ \E i \in 1..Len(lines) : lines[i].topic = t
      /\ Pairs(merged) = OwedAfter(Pairs(file), lines, Len(lines))
  <2>1. \A t \in Topics : OneNotePerSubject(file[t])
    BY DEF FilesOK
  <2> QED BY ZenonT(60), <1>1, <2>1, MergeKeeps
<1>5. Owed(p)' = Owed(p)
  <2>1. promotions' = promotions /\ owed' = owed
    OBVIOUS
  <2> QED BY <2>1, Zenon DEF Owed
<1>6. Pairs(topicNotes'[p]) = Owed(p)'
  <2>1. Owed(p) = OwedAfter(owed, lines, Len(lines))
    BY OwedIs
  <2> HIDE DEF merged
  <2> QED BY <1>3, <1>4, <1>5, <2>1, SettledFiles
<1>7. ASSUME NEW t \in Topics, merged[t] # <<>> PROVE t \in ListedTopics(p)
  <2>1. CASE \E i \in 1..Len(lines) : lines[i].topic = t
    BY <1>2, <2>1
  <2>2. CASE merged[t] = file[t]
    <3>1. t \in ToSet(index)
      BY <1>7, <2>2 DEF Settled
    <3> QED BY <1>2, <3>1
  <2> QED BY <1>4, <2>1, <2>2
<1>8. ASSUME NEW t \in Topics, merged[t] = <<>> PROVE file[t] = <<>>
  BY <1>4, <1>8
<1> HIDE DEF merged, lines
<1>9. WriteOK(p)'
  <2>1. Pairs(topicNotes[p])' = Pairs(topicNotes'[p])
    BY DEF Pairs
  <2> QED BY <1>3, <1>6, <1>7, <1>8, <2>1 DEF WriteOK
<1> QED BY <1>2, <1>9

\* Promotions one after the other store what they owe.
LEMMA KeptStep == MemoryTypes /\ WorkOK /\ FilesOK /\ KeptOK /\ MemoryNext => KeptOK'
<1> SUFFICES ASSUME MemoryTypes, WorkOK, FilesOK, KeptOK, MemoryNext, overlapped' = {} PROVE KeptOK'
  BY DEF KeptOK
<1> DEFINE Kept == /\ \A p, q \in Busy : p = q
                   /\ (\A p \in Promoters : at[p] \notin WritePlaces) => Settled
                   /\ \A p \in Promoters : at[p] = "read_topics" => ReadOK(p)
                   /\ \A p \in Promoters : at[p] \in WritePlaces => WriteOK(p)
<1> SUFFICES ASSUME overlapped = {} => Kept PROVE Kept'
  BY DEF KeptOK
<1> USE DEF WritePlaces
<1>0. ASSUME NEW p \in Promoters, p \in Busy, Kept PROVE \A q \in Promoters : q # p => q \notin Busy
  BY <1>0
<1>1. ASSUME NEW p \in Promoters, NEW wanted \in BOOLEAN, NEW answer \in Answers,
             Promote(p, wanted, answer)
      PROVE  Kept'
  <2> DEFINE lines == Extract(wanted, answer)
  <2>1. /\ at[p] = "idle" /\ at' = [at EXCEPT ![p] = IF lines = <<>> THEN "returned" ELSE "read_index"]
        /\ overlapped' = (IF lines = <<>> \/ Busy = {} THEN overlapped
                          ELSE overlapped \cup {"promotions"})
        /\ promotions' = [promotions EXCEPT ![p] = lines]
        /\ UNCHANGED <<index, file, topicMap, topicNotes, todo, owed>>
    BY <1>1, Zenon DEF Promote, Goto, disk
  <2> HIDE DEF lines
  <2>2. overlapped = {} /\ Kept /\ (lines = <<>> \/ Busy = {})
    BY <2>1
  <2>3. \A q \in Promoters : at'[q] = IF q # p THEN at[q]
                                      ELSE IF lines = <<>> THEN "returned" ELSE "read_index"
    BY <2>1 DEF MemoryTypes
  <2>4. \A q, r \in Busy' : q = r
    BY <2>2, <2>3, BusyAre
  <2>5. Settled' = Settled /\ (\A q \in Promoters : at'[q] \in WritePlaces <=> at[q] \in WritePlaces)
    BY <2>1, <2>3 DEF Settled, Stored
  <2>6. \A q \in Promoters : at'[q] = "read_topics" => at[q] = "read_topics" /\ ReadOK(q)' = ReadOK(q)
    BY <2>1, <2>3 DEF ReadOK
  <2>7. \A q \in Promoters : at'[q] \in WritePlaces => at[q] \in WritePlaces /\ WriteOK(q)' = WriteOK(q)
    <3> SUFFICES ASSUME NEW q \in Promoters, at'[q] \in WritePlaces
                 PROVE  at[q] \in WritePlaces /\ WriteOK(q)' = WriteOK(q)
      OBVIOUS
    <3>1. q # p /\ at'[q] = at[q]
      BY <2>3
    <3>2. promotions'[q] = promotions[q] /\ topicNotes' = topicNotes /\ topicMap' = topicMap
          /\ todo' = todo /\ file' = file /\ index' = index /\ owed' = owed
      BY <2>1, <3>1 DEF MemoryTypes
    <3>3. Owed(q)' = Owed(q)
      BY <3>2, Zenon DEF Owed
    <3>4. Pairs(topicNotes[q])' = Pairs(topicNotes[q])
      BY <3>2 DEF Pairs
    <3> QED BY <3>1, <3>2, <3>3, <3>4 DEF WriteOK
  <2> QED BY <2>2, <2>4, <2>5, <2>6, <2>7
\* One that is busy goes on alone.
<1>2. ASSUME NEW p \in Promoters, p \in Busy, Kept, NEW to, at' = [at EXCEPT ![p] = to],
             to \notin WritePlaces => Settled', to = "read_topics" => ReadOK(p)', to \in WritePlaces => WriteOK(p)'
      PROVE  Kept'
  <2>1. \A q \in Promoters : at'[q] = IF q = p THEN to ELSE at[q]
    BY <1>2 DEF MemoryTypes
  <2>2. \A q \in Promoters : q # p => at'[q] \in {"idle", "returned", "threw"}
    BY <1>0, <1>2, <2>1, BusyAre
  <2>3. \A q, r \in Busy' : q = r
    BY <2>2, BusyAre
  <2> QED BY <1>2, <2>1, <2>2, <2>3
<1>3. ASSUME NEW p \in Promoters, ReadIndex(p) PROVE Kept'
  <2>1. at[p] = "read_index" /\ UNCHANGED <<index, file, promotions, owed, overlapped>>
    BY <1>3 DEF ReadIndex, disk, history
  <2>2. Kept /\ p \in Busy /\ overlapped = {}
    BY <2>1, BusyAre
  <2>3. Settled /\ Settled'
    <3>1. \A q \in Promoters : at[q] \notin WritePlaces
      BY <1>0, <2>1, <2>2, BusyAre
    <3>2. Settled
      BY <2>2, <3>1
    <3> QED BY <2>1, <3>2 DEF Settled, Stored
  <2>4. CASE ToSet(index) = {}
    <3>1. Merged(p, NoNotes)
      BY <1>3, <2>4 DEF ReadIndex
    <3>2. file = NoNotes
      <4>1. file \in [Topics -> Seq(Notes)] /\ \A t \in Topics : file[t] = <<>>
        BY <2>3, <2>4 DEF Settled, MemoryTypes
      <4>2. file = [t \in Topics |-> file[t]]
        BY <4>1
      <4> QED BY <4>1, <4>2, Zenon DEF NoNotes
    <3>3. Merged(p, file)
      BY <3>1, <3>2
    <3>4. WriteOK(p)' /\ at' = [at EXCEPT ![p] = "open_index"]
      BY <2>1, <2>2, <2>3, <2>4, <3>3, ReadingEnds
    <3> QED BY <1>2, <2>2, <3>4
  <2>5. CASE ToSet(index) # {}
    <3>1. /\ at' = [at EXCEPT ![p] = "read_topics"] /\ UNCHANGED topicNotes
          /\ topicMap' = [topicMap EXCEPT ![p] = ToSet(index)]
          /\ todo' = [todo EXCEPT ![p] = ToSet(index)]
      BY <1>3, <2>5 DEF ReadIndex, Goto
    <3>2. topicMap'[p] = ToSet(index') /\ todo'[p] = ToSet(index') /\ topicNotes'[p] = NoNotes
      BY <2>1, <3>1 DEF MemoryTypes, WorkOK
    <3>3. ReadOK(p)'
      BY <2>3, <3>2, NothingNoted DEF ReadOK, Settled
    <3> QED BY <1>2, <2>2, <2>3, <3>1, <3>3
  <2> QED BY <2>4, <2>5
<1>4. ASSUME NEW p \in Promoters, ReadTopic(p) PROVE Kept'
  <2> DEFINE t == Min(todo[p])
             read == [topicNotes[p] EXCEPT ![t] = file[t]]
  <2>1. at[p] = "read_topics" /\ UNCHANGED <<index, file, promotions, owed, overlapped>>
    BY <1>4 DEF ReadTopic, disk, history
  <2>2. Kept /\ p \in Busy /\ overlapped = {} /\ ReadOK(p)
    BY <2>1, BusyAre
  <2>3. Settled /\ Settled'
    <3>1. \A q \in Promoters : at[q] \notin WritePlaces
      BY <1>0, <2>1, <2>2, BusyAre
    <3>2. Settled
      BY <2>2, <3>1
    <3> QED BY <2>1, <3>2 DEF Settled, Stored
  <2>4. t \in todo[p] /\ t \in Topics
    <3>1. todo[p] \in SUBSET Topics /\ todo[p] # {}
      BY <2>1 DEF MemoryTypes, WorkOK
    <3> QED BY <3>1, LeastTopic
  <2>5. IF todo[p] = {t} THEN Merged(p, read)
        ELSE /\ topicNotes' = [topicNotes EXCEPT ![p] = read]
             /\ todo' = [todo EXCEPT ![p] = todo[p] \ {t}]
             /\ UNCHANGED <<at, topicMap>>
    BY <1>4 DEF ReadTopic
  <2>6. /\ read \in [Topics -> Seq(Notes)]
        /\ \A u \in Topics : read[u] = IF u = t THEN file[t] ELSE topicNotes[p][u]
    BY <2>4 DEF MemoryTypes
  <2>7. topicMap[p] = ToSet(index) /\ \A u \in Topics \ todo[p] : topicNotes[p][u] = file[u]
    BY <2>2 DEF ReadOK
  <2> HIDE DEF t, read
  <2>8. CASE todo[p] = {t}
    <3>1. read = file
      <4>1. \A u \in Topics : read[u] = file[u]
        BY <2>6, <2>7, <2>8
      <4>2. read = [u \in Topics |-> read[u]] /\ file = [u \in Topics |-> file[u]]
        BY <2>6 DEF MemoryTypes
      <4> QED BY <4>1, <4>2, Zenon
    <3>2. Merged(p, file)
      BY <2>5, <2>8, <3>1
    <3>3. WriteOK(p)' /\ at' = [at EXCEPT ![p] = "open_index"]
      BY <2>1, <2>2, <2>3, <2>7, <3>2, ReadingEnds
    <3> QED BY <1>2, <2>2, <3>3
  <2>9. CASE todo[p] # {t}
    <3>1. at' = [at EXCEPT ![p] = "read_topics"]
      BY <2>1, <2>5, <2>9 DEF MemoryTypes
    <3>2. topicNotes'[p] = read /\ todo'[p] = todo[p] \ {t} /\ topicMap' = topicMap
      BY <2>5, <2>9 DEF MemoryTypes
    <3>3. ReadOK(p)'
      BY <2>1, <2>6, <2>7, <3>2 DEF ReadOK
    <3> QED BY <1>2, <2>2, <2>3, <3>1, <3>3
  <2> QED BY <2>8, <2>9
<1>5. ASSUME NEW p \in Promoters, OpenIndex(p) PROVE Kept'
  <2>1. /\ at[p] = "open_index" /\ at' = [at EXCEPT ![p] = "write_index"] /\ index' = <<>>
        /\ overlapped \subseteq overlapped'
        /\ UNCHANGED <<file, promotions, topicMap, topicNotes, todo, owed>>
    BY <1>5 DEF OpenIndex, Goto, local
  <2>2. Kept /\ p \in Busy /\ WriteOK(p)
    BY <2>1, BusyAre
  <2>3. Owed(p)' = Owed(p) /\ Pairs(topicNotes[p])' = Pairs(topicNotes[p])
    BY <2>1, Zenon DEF Owed, Pairs
  <2>4. WriteOK(p)'
    <3>1. at'[p] = "write_index"
      BY <2>1 DEF MemoryTypes
    <3> QED BY <2>1, <2>2, <2>3, <3>1 DEF WriteOK
  <2> QED BY <1>2, <2>1, <2>2, <2>4
<1>6. ASSUME NEW p \in Promoters, WriteIndex(p) PROVE Kept'
  <2>1. /\ at[p] = "write_index" /\ at' = [at EXCEPT ![p] = "open_topic"]
        /\ index' = Over(Ascending(topicMap[p]), index)
        /\ UNCHANGED <<file, promotions, topicMap, topicNotes, todo, owed, overlapped>>
    BY <1>6 DEF WriteIndex, Goto, local, history
  <2>2. Kept /\ p \in Busy /\ WriteOK(p)
    BY <2>1, BusyAre
  <2>3. Owed(p)' = Owed(p) /\ Pairs(topicNotes[p])' = Pairs(topicNotes[p])
    BY <2>1, Zenon DEF Owed, Pairs
  <2>4. ToSet(index') = topicMap[p]
    <3>1. topicMap[p] \in SUBSET Topics /\ index \in Seq(Topics) /\ index = <<>>
      BY <2>1, <2>2 DEF MemoryTypes, WriteOK
    <3> QED BY ZenonT(60), <2>1, <3>1, AscendingLists, WriteOver
  <2>5. WriteOK(p)'
    <3>1. at'[p] = "open_topic"
      BY <2>1 DEF MemoryTypes
    <3> QED BY <2>1, <2>2, <2>3, <2>4, <3>1 DEF WriteOK
  <2> QED BY <1>2, <2>1, <2>2, <2>5
<1>7. ASSUME NEW p \in Promoters, OpenTopic(p) PROVE Kept'
  <2> DEFINE t == Min(todo[p])
  <2>1. /\ at[p] = "open_topic" /\ at' = [at EXCEPT ![p] = "write_topic"]
        /\ file' = [file EXCEPT ![t] = <<>>] /\ overlapped \subseteq overlapped'
        /\ UNCHANGED <<index, promotions, topicMap, topicNotes, todo, owed>>
    BY <1>7 DEF OpenTopic, Goto, local
  <2>2. Kept /\ p \in Busy /\ WriteOK(p)
    BY <2>1, BusyAre
  <2>3. Owed(p)' = Owed(p) /\ Pairs(topicNotes[p])' = Pairs(topicNotes[p])
    BY <2>1, Zenon DEF Owed, Pairs
  <2>4. t \in todo[p]
    <3>1. todo[p] \in SUBSET Topics /\ todo[p] # {}
      BY <2>1 DEF MemoryTypes, WorkOK
    <3> QED BY <3>1, LeastTopic
  <2> HIDE DEF t
  <2>5. \A u \in Topics \ todo[p] : file'[u] = file[u]
    BY <2>1, <2>4 DEF MemoryTypes
  <2>6. WriteOK(p)'
    <3>1. at'[p] = "write_topic"
      BY <2>1 DEF MemoryTypes
    <3> QED BY <2>1, <2>2, <2>3, <2>5, <3>1 DEF WriteOK
  <2> QED BY <1>2, <2>1, <2>2, <2>6
<1>8. ASSUME NEW p \in Promoters, WriteTopic(p) PROVE Kept'
  <2> DEFINE t == Min(todo[p])
  <2>1. /\ at[p] = "write_topic" /\ file' = [file EXCEPT ![t] = Over(topicNotes[p][t], file[t])]
        /\ UNCHANGED <<index, faults, overlapped>>
        /\ IF todo[p] = {t} THEN Leave(p, "returned") /\ owed' = Owed(p)
           ELSE /\ at' = [at EXCEPT ![p] = "open_topic"]
                /\ todo' = [todo EXCEPT ![p] = todo[p] \ {t}]
                /\ UNCHANGED <<promotions, topicMap, topicNotes, owed>>
    BY <1>8 DEF WriteTopic, Goto
  <2>2. Kept /\ p \in Busy /\ WriteOK(p)
    BY <2>1, BusyAre
  <2>3. t \in todo[p] /\ t \in Topics
    <3>1. todo[p] \in SUBSET Topics /\ todo[p] # {}
      BY <2>1 DEF MemoryTypes, WorkOK
    <3> QED BY <3>1, LeastTopic
  <2>4. Over(topicNotes[p][t], file[t]) = topicNotes[p][t]
    <3>1. topicNotes[p][t] \in Seq(Notes) /\ file[t] \in Seq(Notes)
      BY <2>3 DEF MemoryTypes
    <3>2. file[t] = <<>>
      BY <2>1 DEF FilesOK
    <3> QED BY ZenonT(60), <3>1, <3>2, WriteOver
  <2> HIDE DEF t
  <2>5. \A u \in Topics : file'[u] = IF u = t THEN topicNotes[p][t] ELSE file[u]
    BY <2>1, <2>3, <2>4 DEF MemoryTypes
  <2>6. /\ Pairs(topicNotes[p]) = Owed(p) /\ ToSet(index) = topicMap[p]
        /\ \A u \in Topics : topicNotes[p][u] # <<>> => u \in topicMap[p]
        /\ \A u \in Topics \ todo[p] : file[u] = topicNotes[p][u]
    BY <2>1, <2>2 DEF WriteOK
  <2>7. CASE todo[p] = {t}
    <3>1. \A u \in Topics : file'[u] = topicNotes[p][u]
      BY <2>5, <2>6, <2>7
    <3>2. at' = [at EXCEPT ![p] = "returned"] /\ owed' = Owed(p) /\ index' = index
      BY <2>1, <2>7 DEF Leave
    <3>3. Stored' = Pairs(topicNotes[p])
      <4>1. Stored' = {o \in Topics \X Notes : o[1] \in topicMap[p] /\ o[2] \in ToSet(topicNotes[p][o[1]])}
        <5>1. Stored' = {o \in Topics \X Notes : o[1] \in ToSet(index') /\ o[2] \in ToSet(file'[o[1]])}
          BY DEF Stored
        <5>2. \A o \in Topics \X Notes : o[1] \in Topics
          OBVIOUS
        <5> QED BY <2>6, <3>1, <3>2, <5>1, <5>2
      <4>2. \A o \in Topics \X Notes : o[2] \in ToSet(topicNotes[p][o[1]]) => o[1] \in topicMap[p]
        <5> SUFFICES ASSUME NEW o \in Topics \X Notes, o[2] \in ToSet(topicNotes[p][o[1]])
                     PROVE  o[1] \in topicMap[p]
          OBVIOUS
        <5>1. o[1] \in Topics /\ topicNotes[p][o[1]] # <<>>
          BY NothingNoted
        <5> QED BY <2>6, <5>1
      <4> QED BY <4>1, <4>2 DEF Pairs
    <3>4. Settled'
      BY <2>6, <3>1, <3>2, <3>3 DEF Settled
    <3> QED BY <1>2, <2>2, <3>2, <3>4
  <2>8. CASE todo[p] # {t}
    <3>1. /\ at' = [at EXCEPT ![p] = "open_topic"] /\ todo'[p] = todo[p] \ {t} /\ at'[p] = "open_topic"
          /\ UNCHANGED <<index, promotions, topicMap, topicNotes, owed>>
      BY <2>1, <2>8 DEF MemoryTypes
    <3>2. Owed(p)' = Owed(p) /\ Pairs(topicNotes[p])' = Pairs(topicNotes[p])
      BY <3>1, Zenon DEF Owed, Pairs
    <3>3. \A u \in Topics \ todo'[p] : file'[u] = topicNotes[p][u]
      BY <2>5, <2>6, <3>1
    <3>4. WriteOK(p)'
      BY <2>6, <3>1, <3>2, <3>3 DEF WriteOK
    <3> QED BY <1>2, <2>2, <3>1, <3>4
  <2> QED BY <2>7, <2>8
<1>9. ASSUME NEW p \in Promoters, Throw(p) PROVE Kept'
  <2>1. "fault" \in overlapped'
    BY <1>9 DEF Throw
  <2> QED BY <2>1
<1>10. CASE UNCHANGED memoryVars
  <2>1. UNCHANGED <<index, file, at, promotions, topicMap, topicNotes, todo, owed, overlapped>>
    BY <1>10 DEF memoryVars, disk, local, history
  <2>2. Settled' = Settled /\ Busy' = Busy /\ \A q \in Promoters : ReadOK(q)' = ReadOK(q)
    BY <2>1 DEF Settled, Stored, Busy, ReadOK
  <2>3. \A q \in Promoters : Owed(q)' = Owed(q) /\ Pairs(topicNotes[q])' = Pairs(topicNotes[q])
    BY <2>1, ZenonT(60) DEF Owed, Pairs
  <2>4. \A q \in Promoters : WriteOK(q)' = WriteOK(q)
    BY <2>1, <2>3 DEF WriteOK
  <2> QED BY <2>1, <2>2, <2>4
<1> HIDE DEF Kept
<1> QED BY <1>1, <1>3, <1>4, <1>5, <1>6, <1>7, <1>8, <1>9, <1>10 DEF MemoryNext, SomePromote, PromoteStep

-----------------------------------------------------------------------------
(* Delegation: whose turn it is *)

Outcomes == {"none", "success", "cancelled", "run_cancelled", "model_client", "failed",
             "agent_task_exception"}
NoRequest == [size |-> 0, failFast |-> FALSE, legacy |-> FALSE]

TurnTypes ==
    /\ workers \in DelegateWorkers /\ factory \in BOOLEAN
    /\ request \in Requests \cup {NoRequest}
    /\ parent \in {"asked", "waiting", "told", "answered"}
    /\ told \in [ok : BOOLEAN, says : Seq(Outcomes \cup {"child_model_factory_missing"})]
    /\ child \in [Children -> {"queued", "running", "ended"}]
    /\ outcome \in [Children -> Outcomes]
    /\ stop \in BOOLEAN /\ stopped \in BOOLEAN

\* Children run, and promote, while the parent waits for them, and one at a time on
\* one worker; the parent promotes when it answers.
TurnsOK ==
    /\ parent = "waiting" => request \in Requests
    /\ \A t \in Running : parent = "waiting" /\ t \in InBatch
    /\ Busy \cap Children \subseteq Running
    /\ Parent \in Busy => parent = "answered"
    /\ workers = 1 => \A t, u \in Running : t = u

OverlapOK == workers = 1 /\ Alone => overlapped \subseteq {"fault"}

DelegationTypes == MemoryTypes /\ TurnTypes
DelegationInv == MemoryOK /\ TurnTypes /\ TurnsOK /\ OverlapOK

LEMMA InitTurns == Init => TurnTypes /\ TurnsOK /\ OverlapOK
<1> SUFFICES ASSUME Init PROVE TurnTypes /\ TurnsOK /\ OverlapOK
  OBVIOUS
<1>1. TurnTypes
  <2>1. /\ workers \in DelegateWorkers /\ factory \in BOOLEAN /\ request = NoRequest
        /\ parent = "asked" /\ told = [ok |-> TRUE, says |-> <<>>]
        /\ child = [t \in Children |-> "queued"] /\ outcome = [t \in Children |-> "none"]
        /\ stop = FALSE /\ stopped = FALSE
    BY DEF Init, NoRequest
  <2>2. told \in [ok : BOOLEAN, says : Seq(Outcomes \cup {"child_model_factory_missing"})]
    BY <2>1
  <2>3. outcome \in [Children -> Outcomes]
    BY <2>1 DEF Outcomes
  <2> QED BY <2>1, <2>2, <2>3 DEF TurnTypes
<1>2. Busy = {} /\ overlapped = {}
  BY DEF Init, MemoryInit, Busy
<1>3. Running = {} /\ parent = "asked"
  BY DEF Init, Running
<1> QED BY <1>1, <1>2, <1>3 DEF TurnsOK, OverlapOK

\* Whose step it is, and what it does to the durable memory.
LEMMA WhoMoves ==
    ASSUME Next
    PROVE  \/ \E p \in Promoters, wanted \in BOOLEAN, answer \in Answers :
                  /\ Promote(p, wanted, answer)
                  /\ \/ p = Parent /\ ParentAnswers
                     \/ p \in Children /\ ChildAnswers(p)
                     \/ p = Outsider /\ OutsiderAnswers
           \/ \E p \in Promoters : InMemory(PromoteStep(p) \/ Throw(p))
           \/ /\ UNCHANGED memoryVars
              /\ \/ Spawn \/ Return \/ RequestStop
                 \/ \E t \in Children : Refuse(t) \/ Start(t) \/ ChildFails(t) \/ ChildReturns(t)
<1> USE DelegationAssumption
<1>1. CASE ParentAnswers
  BY <1>1, Zenon DEF ParentAnswers
<1>2. CASE OutsiderAnswers
  <2>1. TRUE \in BOOLEAN /\ \E answer \in Answers : Promote(Outsider, TRUE, answer)
    BY <1>2 DEF OutsiderAnswers
  <2> QED BY <1>2, <2>1, Zenon
<1>3. CASE Spawn \/ Return \/ RequestStop
  BY <1>3 DEF Spawn, Return, RequestStop
<1>4. ASSUME NEW t \in Children, ChildStep(t)
      PROVE  \/ ChildAnswers(t)
             \/ InMemory(PromoteStep(t))
             \/ UNCHANGED memoryVars /\ (Refuse(t) \/ Start(t) \/ ChildFails(t) \/ ChildReturns(t))
  BY <1>4 DEF ChildStep, Refuse, Start, ChildFails, ChildReturns
<1>5. ASSUME NEW t \in Children, ChildAnswers(t)
      PROVE  \E wanted \in BOOLEAN, answer \in Answers : Promote(t, wanted, answer)
  BY <1>5, Zenon DEF ChildAnswers
<1>6. \A p : InMemory(PromoteStep(p)) \/ InMemory(Throw(p)) => InMemory(PromoteStep(p) \/ Throw(p))
  BY DEF InMemory
<1>7. Children \subseteq Promoters /\ Parent \in Promoters /\ Outsider \in Promoters
  BY Zenon
<1> QED BY <1>1, <1>2, <1>3, <1>4, <1>5, <1>6, <1>7, Zenon DEF Next

LEMMA MemoryMoves == [Next]_vars => MemoryNext
<1>1. ASSUME Next PROVE MemoryNext
  BY <1>1, WhoMoves, Zenon DEF MemoryNext, SomePromote, InMemory
<1>2. ASSUME UNCHANGED vars PROVE MemoryNext
  BY <1>2 DEF MemoryNext, vars
<1> QED BY <1>1, <1>2

\* Who gets busy by a step of promote, and how the step can overlap with another.
LEMMA PromoteBusy ==
    ASSUME MemoryTypes, NEW p \in Promoters, PromoteStep(p) \/ Throw(p)
    PROVE  /\ p \in Busy /\ Busy' \subseteq Busy
           /\ \E x \in MemoryPlaces \ {"idle"} : at' = [at EXCEPT ![p] = x]
           /\ \/ overlapped' \in {overlapped, overlapped \cup {"fault"}}
              \/ overlapped' = overlapped \cup {"writes"} /\ \E q \in Busy : q # p
<1> USE DEF MemoryPlaces, WritePlaces
<1>1. at[p] \notin {"idle", "returned", "threw"}
  BY DEF PromoteStep, Throw, ReadIndex, ReadTopic, OpenIndex, WriteIndex, OpenTopic, WriteTopic, Goto
<1>2. \E x \in MemoryPlaces \ {"idle"} : at' = [at EXCEPT ![p] = x]
  <2>1. CASE ReadTopic(p)
    <3>1. at' = [at EXCEPT ![p] = "open_index"] \/ (at' = at /\ at[p] = "read_topics")
      BY <2>1 DEF ReadTopic, Merged
    <3>2. at \in [Promoters -> MemoryPlaces]
      BY DEF MemoryTypes
    <3>3. at = [at EXCEPT ![p] = at[p]]
      BY <3>2
    <3> QED BY <3>1, <3>3
  <2>2. CASE ReadIndex(p)
    BY <2>2 DEF ReadIndex, Merged, Goto
  <2>3. CASE OpenIndex(p) \/ WriteIndex(p) \/ OpenTopic(p)
    BY <2>3 DEF OpenIndex, WriteIndex, OpenTopic, Goto
  <2>4. CASE WriteTopic(p) \/ Throw(p)
    BY <2>4 DEF WriteTopic, Throw, Leave, Goto
  <2> QED BY <2>1, <2>2, <2>3, <2>4 DEF PromoteStep
<1>3. p \in Busy /\ Busy' \subseteq Busy
  BY <1>1, <1>2, BusyAre DEF MemoryTypes
<1>4. \/ overlapped' \in {overlapped, overlapped \cup {"fault"}}
      \/ overlapped' = overlapped \cup {"writes"} /\ \E q \in Busy : q # p
  <2>1. CASE ReadIndex(p) \/ ReadTopic(p) \/ WriteIndex(p) \/ WriteTopic(p) \/ Throw(p)
    BY <2>1 DEF ReadIndex, ReadTopic, WriteIndex, WriteTopic, Throw, history
  <2>2. CASE OpenIndex(p)
    <3>1. Shared(p, "write_index") => \E q \in Busy : q # p
      BY BusyAre DEF Shared
    <3> QED BY <2>2, <3>1 DEF OpenIndex
  <2>3. CASE OpenTopic(p)
    <3>1. ASSUME NEW t, SharedTopic(p, t) PROVE \E q \in Busy : q # p
      BY <3>1, BusyAre DEF SharedTopic
    <3> QED BY <2>3, <3>1 DEF OpenTopic
  <2> QED BY <2>1, <2>2, <2>3 DEF PromoteStep
<1> QED BY <1>2, <1>3, <1>4

LEMMA PromoteStarts ==
    ASSUME MemoryTypes, NEW p \in Promoters, NEW wanted, NEW answer, Promote(p, wanted, answer)
    PROVE  /\ Busy' \subseteq Busy \cup {p} /\ at[p] = "idle"
           /\ \E x \in {"returned", "read_index"} : at' = [at EXCEPT ![p] = x]
           /\ overlapped' = overlapped \/ Busy # {}
<1>1. /\ at[p] = "idle" /\ \E x \in {"returned", "read_index"} : at' = [at EXCEPT ![p] = x]
      /\ overlapped' = overlapped \/ Busy # {}
  BY DEF Promote, Goto
<1> QED BY <1>1, BusyAre DEF MemoryTypes

LEMMA TurnTypesStep == ASSUME MemoryTypes, TurnTypes, TurnsOK, [Next]_vars PROVE TurnTypes'
<1> DEFINE Codes == Outcomes \cup {"child_model_factory_missing"}
<1>1. CASE UNCHANGED <<options, request, parent, told, tasks, stops>>
  BY <1>1 DEF TurnTypes, options, tasks, stops
<1>2. CASE ParentAnswers
  BY <1>2 DEF ParentAnswers, TurnTypes, options, tasks, stops
<1>3. CASE Spawn
  <2>1. Error("run_cancelled") \in [ok : BOOLEAN, says : Seq(Codes)]
        /\ Error("child_model_factory_missing") \in [ok : BOOLEAN, says : Seq(Codes)]
    BY DEF Error, Outcomes
  <2>2. told' \in {told, Error("run_cancelled"), Error("child_model_factory_missing")}
        /\ parent' \in {"told", "waiting"} /\ request' \in Requests
    BY <1>3 DEF Spawn, Tell
  <2> QED BY <1>3, <2>1, <2>2 DEF Spawn, TurnTypes, options, tasks, stops
<1>4. CASE Return
  <2> DEFINE says == [t \in InBatch |-> outcome[t]]
             Results == [ok : BOOLEAN, says : Seq(Codes)]
  <2>1. request \in Requests
    BY <1>4 DEF Return, TurnsOK
  <2>2. request.size \in Children /\ InBatch = 1..request.size
    BY <2>1, DelegationAssumption DEF Requests, Children, InBatch
  <2>3. \A t \in InBatch : outcome[t] \in Codes
    BY <2>2, DelegationAssumption DEF TurnTypes, Children
  <2>4. 1 \in InBatch
    BY <2>2, DelegationAssumption DEF Children
  <2>5. Error("run_cancelled") \in Results
        /\ Error(outcome[1]) \in Results
    BY <2>3, <2>4 DEF Error, Outcomes
  <2>6. says \in Seq(Codes)
    BY <2>2, <2>3, DelegationAssumption DEF Children
  <2>7. told' \in {Error("run_cancelled"), Error(outcome[1]), [ok |-> TRUE, says |-> says]} /\ parent' = "told"
    BY <1>4 DEF Return, Tell
  <2>8. [ok |-> TRUE, says |-> says] \in Results
    BY <2>6
  <2>9. told' \in Results
    <3> HIDE DEF says, Results
    <3> QED BY <2>5, <2>7, <2>8
  <2> HIDE DEF says
  <2> QED BY <1>4, <2>7, <2>9 DEF Return, TurnTypes, options, tasks, stops
<1>5. CASE RequestStop
  BY <1>5 DEF RequestStop, TurnTypes, options, tasks
<1>6. ASSUME NEW t \in Children, Refuse(t) \/ Start(t) \/ ChildFails(t) \/ ChildReturns(t)
      PROVE  TurnTypes'
  <2>1. UNCHANGED <<options, request, parent, told>>
    BY <1>6 DEF Refuse, Start, ChildFails, ChildReturns
  <2>2. CASE Start(t)
    BY <2>1, <2>2 DEF Start, TurnTypes, options, stops
  <2>3. CASE \E what \in Outcomes : End(t, what)
    BY <2>1, <2>3 DEF End, TurnTypes, options
  <2>4. Refuse(t) \/ ChildFails(t) \/ ChildReturns(t) => \E what \in Outcomes : End(t, what)
    BY DEF Refuse, ChildFails, ChildReturns, Outcomes
  <2> QED BY <1>6, <2>2, <2>3, <2>4
<1>8. ASSUME Next PROVE TurnTypes'
  <2>1. \A p : \/ ChildAnswers(p) \/ OutsiderAnswers \/ InMemory(PromoteStep(p) \/ Throw(p))
               => UNCHANGED <<options, request, parent, told, tasks, stops>>
    BY DEF ChildAnswers, OutsiderAnswers, InMemory
  <2> QED BY <1>1, <1>2, <1>3, <1>4, <1>5, <1>6, <1>8, <2>1, WhoMoves, Zenon
<1>9. CASE UNCHANGED vars
  BY <1>1, <1>9 DEF vars
<1> QED BY <1>8, <1>9

\* On one worker at most one child runs, for one more starts when there is room.
LEMMA OneWorker ==
    ASSUME TurnTypes, TurnsOK, workers = 1, NEW t \in Children, MayStart(t) PROVE Running = {}
<1>1. request \in Requests /\ request.size \in Nat /\ request.size >= 1
  BY DelegationAssumption DEF MayStart, TurnsOK, Requests, Children
<1>2. WorkerCount = 1
  BY <1>1 DEF WorkerCount, Min
<1>3. Running \subseteq Children /\ IsFiniteSet(Children)
  BY DelegationAssumption, FS_Interval DEF Running, Children
<1>4. IsFiniteSet(Running) /\ Cardinality(Running) \in Nat
  BY <1>3, FS_Subset, FS_CardinalityType
<1>5. Cardinality(Running) = 0
  BY <1>2, <1>4 DEF MayStart
<1> QED BY <1>4, <1>5, FS_EmptySet

LEMMA TurnsStep == ASSUME MemoryTypes, TurnTypes, TurnsOK, [Next]_vars PROVE TurnsOK'
<1> USE DelegationAssumption
<1>0. InBatch' = 1..request'.size /\ Running' = {t \in Children : child'[t] = "running"}
  BY DEF InBatch, Running
<1>1. CASE UNCHANGED vars
  BY <1>1 DEF vars, memoryVars, options, tasks, TurnsOK, Busy, Running, InBatch
<1>2. ASSUME NEW p \in Promoters, NEW wanted \in BOOLEAN, NEW answer \in Answers,
             Promote(p, wanted, answer),
             \/ p = Parent /\ ParentAnswers
             \/ p \in Children /\ ChildAnswers(p)
             \/ p = Outsider /\ OutsiderAnswers
      PROVE  TurnsOK'
  <2>1. Busy' \subseteq Busy \cup {p}
    BY <1>2, PromoteStarts
  <2>2. UNCHANGED <<workers, request, child>> /\ Running' = Running /\ InBatch' = InBatch
    BY <1>2 DEF ParentAnswers, ChildAnswers, OutsiderAnswers, options, tasks, Running, InBatch
  <2>3. CASE p = Parent /\ ParentAnswers
    <3>1. parent \in {"asked", "told"} /\ parent' = "answered"
      BY <2>3 DEF ParentAnswers
    <3> QED BY <2>1, <2>2, <2>3, <3>1 DEF TurnsOK
  <2>4. CASE p \in Children /\ ChildAnswers(p)
    <3>1. p \in Running /\ parent' = parent
      BY <2>4 DEF ChildAnswers, Running
    <3> QED BY <2>1, <2>2, <2>4, <3>1 DEF TurnsOK
  <2>5. CASE p = Outsider /\ OutsiderAnswers
    <3>1. parent' = parent
      BY <2>5 DEF OutsiderAnswers
    <3> QED BY <2>1, <2>2, <2>5, <3>1 DEF TurnsOK
  <2> QED BY <1>2, <2>3, <2>4, <2>5
<1>3. ASSUME NEW p \in Promoters, InMemory(PromoteStep(p) \/ Throw(p)) PROVE TurnsOK'
  <2>1. Busy' \subseteq Busy
    BY <1>3, PromoteBusy DEF InMemory
  <2>2. UNCHANGED <<workers, request, parent, child>> /\ Running' = Running /\ InBatch' = InBatch
    BY <1>3 DEF InMemory, options, tasks, Running, InBatch
  <2> QED BY <2>1, <2>2 DEF TurnsOK
<1>4. CASE UNCHANGED memoryVars /\ (Spawn \/ Return \/ RequestStop)
  <2>1. Busy' = Busy /\ UNCHANGED <<workers, child>> /\ Running' = Running
    BY <1>4 DEF Spawn, Return, RequestStop, memoryVars, options, tasks, Busy, Running
  <2>2. CASE Spawn
    <3>1. parent = "asked" /\ request' \in Requests /\ parent' \in {"told", "waiting"}
      BY <2>2 DEF Spawn, Tell
    <3> QED BY <2>1, <3>1 DEF TurnsOK
  <2>3. CASE Return
    <3>1. parent = "waiting" /\ request' = request /\ InBatch' = InBatch /\ parent' = "told"
          /\ \A t \in InBatch : child[t] = "ended"
      BY <2>3 DEF Return, Tell, InBatch
    <3>2. Running = {}
      BY <3>1 DEF Running, TurnsOK
    <3> QED BY <2>1, <3>1, <3>2 DEF TurnsOK
  <2>4. CASE RequestStop
    <3>1. UNCHANGED <<parent, request>> /\ InBatch' = InBatch
      BY <2>4 DEF RequestStop, InBatch
    <3> QED BY <2>1, <3>1 DEF TurnsOK
  <2> QED BY <1>4, <2>2, <2>3, <2>4
<1>5. ASSUME NEW t \in Children, UNCHANGED memoryVars,
             Refuse(t) \/ Start(t) \/ ChildFails(t) \/ ChildReturns(t)
      PROVE  TurnsOK'
  <2>1. Busy' = Busy /\ UNCHANGED <<workers, request, parent>> /\ InBatch' = InBatch
    BY <1>5 DEF Refuse, Start, ChildFails, ChildReturns, memoryVars, options, Busy, InBatch
  <2>2. CASE Start(t)
    <3>1. Running' = Running \cup {t} /\ t \in InBatch /\ parent = "waiting"
      BY <1>0, <2>2 DEF Start, MayStart, TurnTypes, Running
    <3>2. workers = 1 => Running = {}
      BY <2>2, OneWorker DEF Start
    <3> QED BY <2>1, <3>1, <3>2 DEF TurnsOK
  <2>3. CASE t \notin Busy /\ \E what : End(t, what)
    <3>1. Running' = Running \ {t}
      BY <1>0, <2>3 DEF End, TurnTypes, Running
    <3> QED BY <2>1, <2>3, <3>1 DEF TurnsOK
  <2>4. Refuse(t) => t \notin Busy /\ \E what : End(t, what)
    BY DEF Refuse, MayStart, TurnsOK, Running
  <2>5. ChildFails(t) \/ ChildReturns(t) => t \notin Busy /\ \E what : End(t, what)
    BY BusyAre DEF ChildFails, ChildReturns
  <2> QED BY <1>5, <2>2, <2>3, <2>4, <2>5
<1> QED BY <1>1, <1>2, <1>3, <1>4, <1>5, WhoMoves, Zenon

\* On one worker, without another process, nobody promotes while another does.
LEMMA OneAtATime ==
    ASSUME TurnTypes, TurnsOK, workers = 1, Alone PROVE \A p, q \in Busy : p = q
<1>1. Outsider \notin Busy /\ Busy \subseteq Promoters
  BY DEF Alone, Busy
<1>2. Busy \subseteq Children \cup {Parent}
  BY <1>1, DelegationAssumption
<1>3. \A p \in Busy \cap Children : p \in Running /\ parent = "waiting"
  BY DEF TurnsOK
<1> QED BY <1>2, <1>3 DEF TurnsOK

LEMMA OverlapStep ==
    ASSUME MemoryTypes, TurnTypes, TurnsOK, OverlapOK, [Next]_vars PROVE OverlapOK'
<1> USE DelegationAssumption
<1> SUFFICES ASSUME workers' = 1, Alone' PROVE overlapped' \subseteq {"fault"}
  BY DEF OverlapOK
<1>0. workers' = workers
  BY DEF Next, vars, options, Spawn, Return, ParentAnswers, RequestStop, OutsiderAnswers, ChildStep,
         Refuse, Start, ChildAnswers, ChildFails, ChildReturns, InMemory
<1>1. CASE UNCHANGED memoryVars
  BY <1>0, <1>1 DEF memoryVars, history, Alone, OverlapOK
<1>2. ASSUME NEW p \in Promoters, NEW wanted \in BOOLEAN, NEW answer \in Answers,
             Promote(p, wanted, answer),
             \/ p = Parent /\ ParentAnswers
             \/ p \in Children /\ ChildAnswers(p)
             \/ p = Outsider
      PROVE  overlapped' \subseteq {"fault"}
  <2>1. /\ at[p] = "idle" /\ \E x \in {"returned", "read_index"} : at' = [at EXCEPT ![p] = x]
        /\ overlapped' = overlapped \/ Busy # {}
    BY <1>2, PromoteStarts
  <2>2. p # Outsider /\ Alone
    BY <2>1 DEF Alone, MemoryTypes
  <2>3. p \notin Busy
    BY <2>1 DEF Busy
  <2>4. Busy \subseteq Children \cup {Parent}
    BY <2>2 DEF Alone, Busy
  <2>5. Busy = {}
    <3>1. CASE p = Parent /\ ParentAnswers
      <4>1. parent \in {"asked", "told"}
        BY <3>1 DEF ParentAnswers
      <4> QED BY <2>4, <4>1 DEF TurnsOK
    <3>2. CASE p \in Children /\ ChildAnswers(p)
      <4>1. p \in Running
        BY <3>2 DEF ChildAnswers, Running
      <4> QED BY <1>0, <2>3, <2>4, <4>1 DEF TurnsOK
    <3> QED BY <1>2, <2>2, <3>1, <3>2
  <2> QED BY <1>0, <2>1, <2>2, <2>5 DEF OverlapOK
<1>3. ASSUME NEW p \in Promoters, PromoteStep(p) \/ Throw(p) PROVE overlapped' \subseteq {"fault"}
  <2>1. /\ p \in Busy /\ \E x \in MemoryPlaces \ {"idle"} : at' = [at EXCEPT ![p] = x]
        /\ \/ overlapped' \in {overlapped, overlapped \cup {"fault"}}
           \/ overlapped' = overlapped \cup {"writes"} /\ \E q \in Busy : q # p
    BY <1>3, PromoteBusy
  <2>2. Alone
    BY <2>1 DEF Alone, MemoryTypes
  <2>3. \A q \in Busy : q = p
    BY <1>0, <2>1, <2>2, OneAtATime
  <2> QED BY <1>0, <2>1, <2>2, <2>3 DEF OverlapOK
<1>4. CASE Next
  <2>1. \A p : InMemory(PromoteStep(p) \/ Throw(p)) => PromoteStep(p) \/ Throw(p)
    BY DEF InMemory
  <2> QED BY <1>1, <1>2, <1>3, <1>4, <2>1, WhoMoves, Zenon
<1>5. CASE UNCHANGED vars
  BY <1>1, <1>5 DEF vars
<1> QED BY <1>4, <1>5

LEMMA InitDelegation == Init => DelegationInv
BY InitMemory, InitTurns DEF Init, DelegationInv

LEMMA NextDelegation == DelegationInv /\ [Next]_vars => DelegationInv'
BY MemoryMoves, WorkStep, FilesStep, KeptStep, TurnTypesStep, TurnsStep, OverlapStep, Zenon
   DEF DelegationInv, MemoryOK

\* Types, for any number of children, topics, notes and answers: what is promoted,
\* merged and written is made of notes and topics, and what the parent is told of the
\* outcomes of its tasks.
THEOREM DelegationTypeCorrect == Spec => []DelegationTypes
<1>1. DelegationInv => DelegationTypes
  BY DEF DelegationInv, MemoryOK, DelegationTypes
<1> QED BY <1>1, InitDelegation, NextDelegation, PTL DEF Spec

\* What promotions that returned have stored is found, and nothing else, as long as
\* no two overlap, and on one worker no two do; a topic has one note on a subject
\* unless two write a file at a time (memory.cpp: promote, runtime.cpp:
\* spawn_delegate).
THEOREM NotesAreKept == Spec => []PromotedNotesKept
<1>1. DelegationInv => PromotedNotesKept
  <2> SUFFICES ASSUME DelegationInv PROVE PromotedNotesKept
    OBVIOUS
  <2>1. Busy = {} /\ overlapped = {} => Stored = owed
    <3>1. Busy = {} => \A p \in Promoters : at[p] \notin WritePlaces
      BY DEF Busy, WritePlaces
    <3> QED BY <3>1 DEF DelegationInv, MemoryOK, KeptOK, Settled
  <2>2. workers = 1 /\ Alone => overlapped \subseteq {"fault"}
    BY DEF DelegationInv, OverlapOK
  <2>3. "writes" \notin overlapped => \A t \in Topics : OneNotePerSubject(file[t])
    BY DEF DelegationInv, MemoryOK, FilesOK
  <2> QED BY <2>1, <2>2, <2>3 DEF PromotedNotesKept
<1> QED BY <1>1, InitDelegation, NextDelegation, PTL DEF Spec

-----------------------------------------------------------------------------
(* Strings: characters and escapes *)

Bytes == 0..255
Marks == [kind : {"byte", "short", "unicode", "null", "true", "false", "integer", "double"},
          code : Int]

\* The marks of strings, and that no two kinds of them are the same.
LEMMA MarkTypes ==
    \A b \in Int :
        /\ Byte(b) \in Marks /\ Unicode(b) \in Marks /\ Mark("short", b) \in Marks
        /\ Byte(b).kind = "byte" /\ Byte(b).code = b
        /\ Unicode(b).kind = "unicode" /\ Unicode(b).code = b
        /\ Mark("short", b).kind = "short" /\ Mark("short", b).code = b
BY DEF Mark, Byte, Unicode, Marks

LEMMA MarkCodes == \A m \in Marks : m.code \in Int
BY DEF Marks

\* The bits of a code point are those of its bytes.
LEMMA Rest64 ==
    \A x \in Int : x \div 64 \in Int /\ x % 64 \in 0..63 /\ x = 64 * (x \div 64) + (x % 64)
BY SMTT(10)
LEMMA Nested64 ==
    \A x \in Int : x \div 4096 = (x \div 64) \div 64 /\ x \div 262144 = (x \div 4096) \div 64
BY SMTT(10)

Top2(c) == c \div 64
Top3(c) == c \div 4096
Top4(c) == c \div 262144
Sixes == 0..63
Fives == 0..31
Fours == 0..15
Threes == 0..7
Join2(a, b) == 64 * a + b
Join3(a, b, d) == 4096 * a + 64 * b + d
Join4(a, b, d, e) == 262144 * a + 4096 * b + 64 * d + e

LEMMA TwoParts ==
    ASSUME NEW a \in Int, NEW b \in Sixes
    PROVE  Top2(Join2(a, b)) = a /\ Tail6(Join2(a, b), 1) = 128 + b
<1> USE DEF Sixes
<1> DEFINE c == Join2(a, b)
<1>0. c \in Int /\ c = 64 * a + b
  BY DEF Join2
<1> HIDE DEF c
<1> DEFINE p == c \div 64
           m == c % 64
<1>1. p \in Int /\ m \in 0..63 /\ c = 64 * p + m
  BY <1>0, Rest64, SMT
<1> HIDE DEF p, m
<1>2. p = a /\ m = b
  BY <1>0, <1>1
<1>9. c \div 1 = c
  BY <1>0, SMT
<1> QED BY <1>2, <1>9 DEF p, m, c, Top2, Tail6

LEMMA ThreeParts ==
    ASSUME NEW a \in Int, NEW b \in Sixes, NEW d \in Sixes
    PROVE  /\ Top3(Join3(a, b, d)) = a /\ Tail6(Join3(a, b, d), 64) = 128 + b
           /\ Tail6(Join3(a, b, d), 1) = 128 + d
<1> USE DEF Sixes
<1> DEFINE c == Join3(a, b, d)
<1>0. c \in Int /\ c = 4096 * a + 64 * b + d
  BY DEF Join3
<1> HIDE DEF c
<1> DEFINE p == c \div 64
           m == c % 64
           q == p \div 64
           n == p % 64
<1>1. p \in Int /\ m \in 0..63 /\ c = 64 * p + m
  BY <1>0, Rest64, SMTT(30)
<1>2. c \div 4096 = q
  BY <1>0, Nested64, SMT
<1> HIDE DEF p, m
<1>3. q \in Int /\ n \in 0..63 /\ p = 64 * q + n
  BY <1>1, Rest64, SMT
<1> HIDE DEF q, n
<1>4. p = 64 * a + b /\ m = d
  BY <1>0, <1>1
<1>5. q = a /\ n = b
  BY <1>3, <1>4
<1>9. c \div 1 = c
  BY <1>0, SMT
<1> QED BY <1>2, <1>4, <1>5, <1>9 DEF p, m, n, c, Top3, Tail6

LEMMA FourParts ==
    ASSUME NEW a \in Int, NEW b \in Sixes, NEW d \in Sixes, NEW e \in Sixes
    PROVE  /\ Top4(Join4(a, b, d, e)) = a /\ Tail6(Join4(a, b, d, e), 4096) = 128 + b
           /\ Tail6(Join4(a, b, d, e), 64) = 128 + d /\ Tail6(Join4(a, b, d, e), 1) = 128 + e
<1> USE DEF Sixes
<1> DEFINE c == Join4(a, b, d, e)
<1>0. c \in Int /\ c = 262144 * a + 4096 * b + 64 * d + e
  BY DEF Join4
<1> HIDE DEF c
<1> DEFINE w == 4096 * a + 64 * b + d
           p == c \div 64
           m == c % 64
           q == c \div 4096
           n == p % 64
           r == c \div 262144
           o == q % 64
<1>1. p \in Int /\ m \in 0..63 /\ c = 64 * p + m
  BY <1>0, Rest64, SMTT(30)
<1>2. q = p \div 64 /\ r = q \div 64
  BY <1>0, Nested64, SMT
<1> HIDE DEF p, m, q, r
<1>3. q \in Int /\ n \in 0..63 /\ p = 64 * q + n
  BY <1>1, <1>2, Rest64, SMT
<1>4. r \in Int /\ o \in 0..63 /\ q = 64 * r + o
  BY <1>2, <1>3, Rest64, SMTT(30)
<1> HIDE DEF n, o
<1>5. p = w /\ m = e
  <2>1. c = 64 * w + e /\ w \in Int
    BY <1>0
  <2> HIDE DEF w
  <2> QED BY <1>1, <2>1
<1>6. q = 64 * a + b /\ n = d
  BY <1>3, <1>5
<1>7. r = a /\ o = b
  BY <1>4, <1>6
<1>9. c \div 1 = c
  BY <1>0, SMT
<1> QED BY <1>5, <1>6, <1>7, <1>9 DEF m, n, o, p, q, r, c, Top4, Tail6

LEMMA Rest1024 ==
    \A x \in Int : x \div 1024 \in Int /\ x % 1024 \in (0..1023) /\ x = 1024 * (x \div 1024) + (x % 1024)
BY SMTT(10)

\* What the parts of a byte are.
LEMMA Bits ==
    \A b \in Bytes : b % 64 \in Sixes /\ b % 32 \in Fives /\ b % 16 \in Fours /\ b % 8 \in Threes
BY SMTT(10) DEF Bytes, Sixes, Fives, Fours, Threes

LEMMA BitsOf ==
    /\ \A b \in 128..191 : b % 64 = b - 128
    /\ \A b \in 192..223 : b % 32 = b - 192
    /\ \A b \in 224..239 : b % 16 = b - 224
    /\ \A b \in 240..247 : b % 8 = b - 240
BY SMTT(10)

\* A code point of one escape, one of a pair, and the two escapes of a pair.
Short(c) == c <= 65535
Paired(c) == c <= 1114111
Half(c, n) == IF n = 1 THEN 55296 + ((c - 65536) \div 1024) ELSE 56320 + ((c - 65536) % 1024)

\* A pair is the code point it was made from; above the last code point the first
\* half is no high surrogate.
LEMMA Pairing ==
    ASSUME NEW c \in Nat, ~Short(c)
    PROVE  /\ Half(c, 1) \in Nat /\ Half(c, 2) \in Nat /\ ~IsHigh(Half(c, 2))
           /\ Paired(c) => /\ IsHigh(Half(c, 1)) /\ IsLow(Half(c, 2))
                           /\ Combined(Half(c, 1), Half(c, 2)) = c
           /\ ~Paired(c) => ~IsHigh(Half(c, 1))
<1> DEFINE d == c - 65536
           h == d \div 1024
           l == d % 1024
<1>1. d \in Int /\ c = d + 65536 /\ d >= 0
  BY SMT DEF Short
<1>2. Half(c, 1) = 55296 + h /\ Half(c, 2) = 56320 + l
  BY SMT DEF Half
<1> HIDE DEF d
<1>3. h \in Int /\ l \in 0..1023 /\ d = 1024 * h + l
  BY <1>1, Rest1024, SMT
<1> HIDE DEF h, l
<1>4. h \in Nat
  BY <1>1, <1>3, SMT
<1>5. Half(c, 1) \in Nat /\ Half(c, 2) \in Nat /\ ~IsHigh(Half(c, 2)) /\ IsLow(Half(c, 2))
  BY <1>2, <1>3, <1>4, SMT DEF IsHigh, IsLow
<1>6. ASSUME Paired(c) PROVE IsHigh(Half(c, 1)) /\ Combined(Half(c, 1), Half(c, 2)) = c
  <2>1. h <= 1023
    BY <1>1, <1>3, <1>6, SMT DEF Paired
  <2> QED BY <1>1, <1>2, <1>3, <1>4, <2>1, SMT DEF IsHigh, Combined
<1>7. ASSUME ~Paired(c) PROVE ~IsHigh(Half(c, 1))
  <2>1. h >= 1024
    BY <1>1, <1>3, <1>7, SMT DEF Paired
  <2> QED BY <1>2, <1>4, <2>1, SMT DEF IsHigh
<1> QED BY <1>5, <1>6, <1>7

LEMMA Utf8Type == \A c \in Int : Utf8(c) \in Seq(Int)
BY DEF Utf8, Tail6

LEMMA LeadBytes ==
    \A b \in Bytes : b < 192 => b \notin Lead2 /\ b \notin Lead3 /\ b \notin Lead4
BY SMT DEF Bytes, Lead2, Lead3, Lead4

\* The code points of two, three and four bytes.
Of2(l, x) == 64 * (l % 32) + Low6(x, 1)
Of3(l, x, y) == 4096 * (l % 16) + Low6(x, 64) + Low6(y, 1)
Of4(l, x, y, z) == 262144 * (l % 8) + Low6(x, 4096) + Low6(y, 64) + Low6(z, 1)

Small(c) == c \in Nat /\ c <= 2097151
LEMMA CodePoints ==
    /\ \A l, x \in Bytes : Small(Of2(l, x))
    /\ \A l, x, y \in Bytes : Small(Of3(l, x, y))
    /\ \A l, x, y, z \in Bytes : Small(Of4(l, x, y, z))
<1> DEFINE At2(l, x) == 64 * l + x * 1
           At3(l, x, y) == 4096 * l + x * 64 + y * 1
           At4(l, x, y, z) == 262144 * l + x * 4096 + y * 64 + z * 1
<1>1. ASSUME NEW l \in Fives, NEW x \in Sixes PROVE Small(At2(l, x))
  BY SMT DEF Small, Fives, Sixes
<1>2. ASSUME NEW l \in Fours, NEW x \in Sixes, NEW y \in Sixes PROVE Small(At3(l, x, y))
  BY SMT DEF Small, Fours, Sixes
<1>3. ASSUME NEW l \in Threes, NEW x \in Sixes, NEW y \in Sixes, NEW z \in Sixes
      PROVE  Small(At4(l, x, y, z))
  BY SMT DEF Small, Threes, Sixes
<1>4. /\ \A l, x : Of2(l, x) = At2(l % 32, x % 64)
      /\ \A l, x, y : Of3(l, x, y) = At3(l % 16, x % 64, y % 64)
  <2>1. ASSUME NEW l, NEW x PROVE Of2(l, x) = At2(l % 32, x % 64)
    BY Zenon DEF Of2, Low6
  <2>2. ASSUME NEW l, NEW x, NEW y PROVE Of3(l, x, y) = At3(l % 16, x % 64, y % 64)
    BY Zenon DEF Of3, Low6
  <2> QED BY <2>1, <2>2, Zenon
<1>8. \A l, x, y, z : Of4(l, x, y, z) = At4(l % 8, x % 64, y % 64, z % 64)
  BY SMT DEF Of4, Low6
<1> HIDE DEF At2, At3, At4
<1>5. ASSUME NEW l \in Bytes, NEW x \in Bytes PROVE Small(Of2(l, x))
  <2>1. l % 32 \in Fives /\ x % 64 \in Sixes
    BY Bits, Zenon
  <2>2. Small(At2(l % 32, x % 64))
    BY <1>1, <2>1, Zenon
  <2> QED BY <1>4, <2>2, Zenon
<1>6. ASSUME NEW l \in Bytes, NEW x \in Bytes, NEW y \in Bytes PROVE Small(Of3(l, x, y))
  <2>1. l % 16 \in Fours /\ x % 64 \in Sixes /\ y % 64 \in Sixes
    BY Bits, Zenon
  <2>2. Small(At3(l % 16, x % 64, y % 64))
    BY <1>2, <2>1, Zenon
  <2> QED BY <1>4, <2>2, Zenon
<1>7. ASSUME NEW l \in Bytes, NEW x \in Bytes, NEW y \in Bytes, NEW z \in Bytes
      PROVE  Small(Of4(l, x, y, z))
  <2>1. l % 8 \in Threes /\ x % 64 \in Sixes /\ y % 64 \in Sixes /\ z % 64 \in Sixes
    BY Bits, Zenon
  <2>2. Small(At4(l % 8, x % 64, y % 64, z % 64))
    BY <1>3, <2>1, Zenon
  <2> QED BY <1>8, <2>2, Zenon
<1> QED BY <1>5, <1>6, <1>7

\* What decodes lies within the string, and is a number of at most 21 bits.
LEMMA DecodedRange ==
    ASSUME NEW s \in Seq(Bytes), NEW i \in 1..Len(s)
    PROVE  /\ s[i] \in Bytes
           /\ Promised(s, i) \in 1..4 /\ i + Promised(s, i) - 1 <= Len(s)
           /\ s[i] < 192 => Promised(s, i) = 1
           /\ Decodes(s, i) => Small(Decoded(s, i))
<1>1. s[i] \in Bytes /\ Len(s) \in Nat /\ \A k \in 1..Len(s) : s[k] \in Bytes
  OBVIOUS
<1>2. Promised(s, i) \in 1..4 /\ i + Promised(s, i) - 1 <= Len(s)
  BY <1>1, SMT DEF Promised
<1>3. s[i] < 192 => Promised(s, i) = 1
  BY <1>1, LeadBytes, SMT DEF Promised
<1>4. ASSUME Decodes(s, i) PROVE Small(Decoded(s, i))
  <2>1. CASE Promised(s, i) = 2
    <3>1. s[i + 1] \in Bytes
      BY <1>1, <1>2, <2>1
    <3>2. Decoded(s, i) = Of2(s[i], s[i + 1])
      BY <2>1, <1>1, <3>1, SMT DEF Decoded, Of2
    <3> QED BY <1>1, <3>1, <3>2, CodePoints, SMT
  <2>2. CASE Promised(s, i) = 3
    <3>1. s[i + 1] \in Bytes /\ s[i + 2] \in Bytes
      BY <1>1, <1>2, <2>2
    <3>2. Decoded(s, i) = Of3(s[i], s[i + 1], s[i + 2])
      BY <2>2, <1>1, <3>1, SMT DEF Decoded, Of3
    <3> QED BY <1>1, <3>1, <3>2, CodePoints, SMT
  <2>3. CASE Promised(s, i) = 4
    <3>1. s[i + 1] \in Bytes /\ s[i + 2] \in Bytes /\ s[i + 3] \in Bytes
      BY <1>1, <1>2, <2>3
    <3>2. Decoded(s, i) = Of4(s[i], s[i + 1], s[i + 2], s[i + 3])
      BY <2>3, <1>1, <3>1, SMT DEF Decoded, Of4
    <3> QED BY <1>1, <3>1, <3>2, CodePoints, SMT
  <2> QED BY <1>2, <1>4, <2>1, <2>2, <2>3, SMT DEF Decodes
<1> QED BY <1>1, <1>2, <1>3, <1>4

\* The bytes of a character are those of its code point, which is no surrogate.
\* The bytes a character may start with, and those that follow.
First2 == 194..223
First4 == 240..244
Tails == 128..191

LEMMA OfTwo ==
    ASSUME NEW l \in First2, NEW x \in Tails
    PROVE  Of2(l, x) = Join2(l - 192, x - 128)
<1>1. l % 32 = l - 192 /\ x % 64 = x - 128 /\ l \in Int /\ x \in Int
  BY BitsOf, SMT DEF First2, Tails
<1> QED BY <1>1, SMT DEF Of2, Join2, Low6

LEMMA OfThree ==
    ASSUME NEW l \in Lead3, NEW x \in Tails, NEW y \in Tails
    PROVE  Of3(l, x, y) = Join3(l - 224, x - 128, y - 128)
<1>1. /\ l % 16 = l - 224 /\ x % 64 = x - 128 /\ y % 64 = y - 128
      /\ l \in Int /\ x \in Int /\ y \in Int
  BY BitsOf, SMT DEF Lead3, Tails
<1> QED BY <1>1, SMT DEF Of3, Join3, Low6

LEMMA OfFour ==
    ASSUME NEW l \in First4, NEW x \in Tails, NEW y \in Tails, NEW z \in Tails
    PROVE  Of4(l, x, y, z) = Join4(l - 240, x - 128, y - 128, z - 128)
<1>1. l % 8 = l - 240 /\ x % 64 = x - 128 /\ y % 64 = y - 128 /\ z % 64 = z - 128
  BY BitsOf, SMT DEF First4, Tails
<1>2. l \in Int /\ x \in Int /\ y \in Int /\ z \in Int
  BY SMT DEF First4, Tails
<1> QED BY <1>1, <1>2, SMT DEF Of4, Join4, Low6

LEMMA Utf8Is ==
    ASSUME NEW c \in Int
    PROVE  /\ 128 <= c /\ c <= 2047 => Utf8(c) = <<192 + Top2(c), Tail6(c, 1)>>
           /\ 2048 <= c /\ c <= 65535 => Utf8(c) = <<224 + Top3(c), Tail6(c, 64), Tail6(c, 1)>>
           /\ 65536 <= c => Utf8(c) = <<240 + Top4(c), Tail6(c, 4096), Tail6(c, 64), Tail6(c, 1)>>
BY SMT DEF Utf8, Top2, Top3, Top4

\* No overlong form, no surrogate, and no number above the last code point.
Allowed3(l, x) == (l = 224 => x >= 160) /\ (l = 237 => x <= 159)
Allowed4(l, x) == (l = 240 => x >= 144) /\ (l = 244 => x <= 143)

LEMMA Character2 ==
    ASSUME NEW l \in First2, NEW x \in Tails
    PROVE  Utf8(Of2(l, x)) = <<l, x>> /\ Paired(Of2(l, x)) /\ ~IsHigh(Of2(l, x))
<1> DEFINE c == Of2(l, x)
           a == l - 192
           b == x - 128
<1>1. a \in 2..31 /\ b \in 0..63 /\ l = 192 + a /\ x = 128 + b
  BY SMT DEF First2, Tails
<1>2. c = Join2(a, b)
  BY OfTwo, ZenonT(60)
<1> HIDE DEF a, b, c
<1>3. c \in Int /\ c >= 128 /\ c <= 2047
  BY <1>1, <1>2, SMT DEF Join2
<1>4. Top2(c) = a /\ Tail6(c, 1) = x
  <2>1. a \in Int
    BY <1>1
  <2>2. b \in Sixes
    BY <1>1 DEF Sixes
  <2>3. Top2(Join2(a, b)) = a /\ Tail6(Join2(a, b), 1) = 128 + b
    BY <2>1, <2>2, TwoParts
  <2> QED BY <1>1, <1>2, <2>3
<1>5. Utf8(c) = <<l, x>>
  <2>1. Utf8(c) = <<192 + Top2(c), Tail6(c, 1)>>
    BY <1>3, Utf8Is, SMT
  <2> QED BY <1>1, <1>4, <2>1, SMT
<1>6. Paired(c) /\ ~IsHigh(c)
  BY <1>3, SMT DEF Paired, IsHigh
<1> QED BY <1>5, <1>6 DEF c

LEMMA Character3 ==
    ASSUME NEW l \in Lead3, NEW x \in Tails, NEW y \in Tails, Allowed3(l, x)
    PROVE  Utf8(Of3(l, x, y)) = <<l, x, y>> /\ Paired(Of3(l, x, y)) /\ ~IsHigh(Of3(l, x, y))
<1> DEFINE c == Of3(l, x, y)
           a == l - 224
           b == x - 128
           d == y - 128
<1>1. /\ a \in 0..15 /\ b \in 0..63 /\ d \in 0..63 /\ l = 224 + a /\ x = 128 + b /\ y = 128 + d
      /\ (a = 0 => b >= 32) /\ (a = 13 => b <= 31)
  BY SMT DEF Lead3, Tails, Allowed3
<1>2. c = Join3(a, b, d)
  <2>1. Of3(l, x, y) = Join3(l - 224, x - 128, y - 128)
    BY OfThree, SMT
  <2> QED BY <2>1, Zenon
<1> HIDE DEF a, b, c, d
<1>3. c \in Int /\ c >= 2048 /\ c <= 65535 /\ ~IsHigh(c)
  BY <1>1, <1>2, SMT DEF Join3, IsHigh
<1>4. Top3(c) = a /\ Tail6(c, 64) = x /\ Tail6(c, 1) = y
  <2>1. a \in Int
    BY <1>1
  <2>2. b \in Sixes /\ d \in Sixes
    BY <1>1 DEF Sixes
  <2>3. /\ Top3(Join3(a, b, d)) = a /\ Tail6(Join3(a, b, d), 64) = 128 + b
        /\ Tail6(Join3(a, b, d), 1) = 128 + d
    BY <2>1, <2>2, ThreeParts
  <2> QED BY <1>1, <1>2, <2>3
<1>5. Utf8(c) = <<l, x, y>>
  <2>1. Utf8(c) = <<224 + Top3(c), Tail6(c, 64), Tail6(c, 1)>>
    BY <1>3, Utf8Is, SMT
  <2> QED BY <1>1, <1>4, <2>1, SMT
<1>6. Paired(c) /\ ~IsHigh(c)
  BY <1>3, SMT DEF Paired, IsHigh
<1> QED BY <1>5, <1>6 DEF c

LEMMA Character4 ==
    ASSUME NEW l \in First4, NEW x \in Tails, NEW y \in Tails, NEW z \in Tails, Allowed4(l, x)
    PROVE  Utf8(Of4(l, x, y, z)) = <<l, x, y, z>> /\ Paired(Of4(l, x, y, z)) /\ ~IsHigh(Of4(l, x, y, z))
<1> DEFINE c == Of4(l, x, y, z)
           a == l - 240
           b == x - 128
           d == y - 128
           e == z - 128
<1>1. /\ a \in 0..4 /\ b \in 0..63 /\ d \in 0..63 /\ e \in 0..63
      /\ l = 240 + a /\ x = 128 + b /\ y = 128 + d /\ z = 128 + e
      /\ (a = 0 => b >= 16) /\ (a = 4 => b <= 15)
  BY SMT DEF First4, Tails, Allowed4
<1>2. c = Join4(a, b, d, e)
  <2>1. Of4(l, x, y, z) = Join4(l - 240, x - 128, y - 128, z - 128)
    BY OfFour, SMT
  <2> QED BY <2>1, Zenon
<1> HIDE DEF a, b, c, d, e
<1>3. c \in Int /\ c >= 65536 /\ c <= 1114111
  BY <1>1, <1>2, SMT DEF Join4
<1>4. Top4(c) = a /\ Tail6(c, 4096) = x /\ Tail6(c, 64) = y /\ Tail6(c, 1) = z
  <2>1. a \in Int
    BY <1>1
  <2>2. b \in Sixes /\ d \in Sixes /\ e \in Sixes
    BY <1>1 DEF Sixes
  <2>3. /\ Top4(Join4(a, b, d, e)) = a /\ Tail6(Join4(a, b, d, e), 4096) = 128 + b
        /\ Tail6(Join4(a, b, d, e), 64) = 128 + d /\ Tail6(Join4(a, b, d, e), 1) = 128 + e
    BY <2>1, <2>2, FourParts
  <2> QED BY <1>1, <1>2, <2>3
<1>5. Utf8(c) = <<l, x, y, z>>
  <2>1. Utf8(c) = <<240 + Top4(c), Tail6(c, 4096), Tail6(c, 64), Tail6(c, 1)>>
    BY <1>3, Utf8Is, SMT
  <2> QED BY <1>1, <1>4, <2>1, SMT
<1>6. Paired(c) /\ ~IsHigh(c)
  BY <1>3, SMT DEF Paired, IsHigh
<1> QED BY <1>5, <1>6 DEF c

LEMMA ByteNumbers == \A b \in Bytes : b \in Int /\ 0 <= b /\ b <= 255
BY DEF Bytes

LEMMA LeadRanges ==
    /\ \A b \in First2 : b \in Lead2
    /\ \A b \in Lead3 : b \notin Lead2
    /\ \A b \in First4 : b \notin Lead2 /\ b \notin Lead3 /\ b \in Lead4
BY SMT DEF First2, First4, Lead2, Lead3, Lead4

\* A short stretch of a string, byte by byte.
LEMMA Stretches ==
    ASSUME NEW S, NEW s \in Seq(S), NEW i \in Nat, i >= 1
    PROVE  /\ i + 1 <= Len(s) => SubSeq(s, i, i + 1) = <<s[i], s[i + 1]>>
           /\ i + 2 <= Len(s) => SubSeq(s, i, i + 2) = <<s[i], s[i + 1], s[i + 2]>>
           /\ i + 3 <= Len(s) => SubSeq(s, i, i + 3) = <<s[i], s[i + 1], s[i + 2], s[i + 3]>>
<1>1. Len(s) \in Nat
  OBVIOUS
<1>2. /\ \A t \in Seq(S) : Len(t) = 2 => t = <<t[1], t[2]>>
      /\ \A t \in Seq(S) : Len(t) = 3 => t = <<t[1], t[2], t[3]>>
      /\ \A t \in Seq(S) : Len(t) = 4 => t = <<t[1], t[2], t[3], t[4]>>
  OBVIOUS
<1> DEFINE Cut(n) == SubSeq(s, i, i + n)
<1>3. ASSUME NEW n \in 1..3, i + n <= Len(s)
      PROVE  /\ Cut(n) \in Seq(S) /\ Len(Cut(n)) = n + 1 /\ Cut(n)[1] = s[i] /\ Cut(n)[2] = s[i + 1]
             /\ (n > 1 => Cut(n)[3] = s[i + 2]) /\ (n > 2 => Cut(n)[4] = s[i + 3])
  <2>1. i \in 1..Len(s) /\ i + n \in (i - 1)..Len(s)
    BY <1>1, <1>3
  <2>2. /\ Cut(n) \in Seq(S) /\ Len(Cut(n)) = n + 1
        /\ \A k \in 1..(n + 1) : Cut(n)[k] = s[i + k - 1]
    BY <1>1, <1>3, <2>1, SubSeqProperties
  <2> HIDE DEF Cut
  <2>3. i + 1 - 1 = i /\ i + 2 - 1 = i + 1 /\ i + 3 - 1 = i + 2 /\ i + 4 - 1 = i + 3
    OBVIOUS
  <2> QED BY <2>2, <2>3
<1> HIDE DEF Cut
<1>4. i + 1 <= Len(s) => Cut(1) = <<s[i], s[i + 1]>>
  BY <1>2, <1>3
<1>5. i + 2 <= Len(s) => Cut(2) = <<s[i], s[i + 1], s[i + 2]>>
  BY SMTT(30), <1>2, <1>3
<1>6. i + 3 <= Len(s) => Cut(3) = <<s[i], s[i + 1], s[i + 2], s[i + 3]>>
  BY SMTT(30), <1>2, <1>3
<1> QED BY <1>4, <1>5, <1>6 DEF Cut

\* What a turn of the writer writes, and of how many bytes.
LEMMA PieceType ==
    ASSUME NEW s \in Seq(Bytes), NEW i \in 1..Len(s), NEW ascii \in BOOLEAN
    PROVE  /\ Piece(s, i, ascii) \in Seq(Marks) /\ Len(Piece(s, i, ascii)) \in {1, 2}
           /\ \A p \in 1..Len(Piece(s, i, ascii)) : Piece(s, i, ascii)[p] # Byte(Quote)
           /\ Taken(s, i, ascii) \in 1..4 /\ i + Taken(s, i, ascii) - 1 <= Len(s)
<1>1. s[i] \in Int
  <2>1. s[i] \in Bytes
    OBVIOUS
  <2> QED BY <2>1, ByteNumbers
<1>2. \A b \in Int : Byte(b) = Byte(Quote) => b = Quote
  BY MarkTypes DEF Quote
<1>3. \A b \in Int : Mark("short", b) # Byte(Quote) /\ Unicode(b) # Byte(Quote)
  BY DEF Mark, Byte, Unicode
<1> DEFINE Fine(p) == /\ p \in Seq(Marks) /\ Len(p) \in {1, 2}
                      /\ \A k \in 1..Len(p) : p[k] # Byte(Quote)
<1>4. ASSUME NEW m \in Marks, m # Byte(Quote) PROVE Fine(<<m>>)
  BY <1>4
<1>5. ASSUME NEW m \in Marks, NEW n \in Marks, m # Byte(Quote), n # Byte(Quote) PROVE Fine(<<m, n>>)
  BY <1>5
<1> HIDE DEF Fine
<1>6. Fine(Piece(s, i, ascii))
  <2>1. CASE s[i] \in Named
    BY <1>1, <1>3, <1>4, <2>1, MarkTypes DEF Piece
  <2>2. CASE s[i] \notin Named /\ s[i] < 32
    BY <1>1, <1>3, <1>4, <2>2, MarkTypes DEF Piece
  <2>3. CASE s[i] \notin Named /\ ~(s[i] < 32) /\ (~ascii \/ s[i] < 128)
    <3>1. s[i] # Quote
      BY <2>3 DEF Named
    <3>2. Byte(s[i]) \in Marks /\ Byte(s[i]) # Byte(Quote)
      BY <1>1, <1>2, <3>1, MarkTypes
    <3> QED BY <1>4, <2>3, <3>2 DEF Piece
  <2>4. CASE s[i] \notin Named /\ ~(s[i] < 32) /\ ~(~ascii \/ s[i] < 128)
    <3>1. CASE ~Decodes(s, i)
      <4>1. Unicode(Replacement) \in Marks /\ Unicode(Replacement) # Byte(Quote)
        BY <1>3, MarkTypes, SMT DEF Replacement
      <4> QED BY <1>4, <2>4, <3>1, <4>1, SMT DEF Piece
    <3>2. CASE Decodes(s, i)
      <4>1. Decoded(s, i) \in Nat
        BY <3>2, DecodedRange DEF Small
      <4>2. Fine(Escapes(Decoded(s, i)))
        <5> DEFINE c == Decoded(s, i)
        <5>1. Escapes(c) = IF Short(c) THEN <<Unicode(c)>> ELSE <<Unicode(Half(c, 1)), Unicode(Half(c, 2))>>
          BY SMT DEF Escapes, Short, Half
        <5>2. c \in Int
          BY <4>1
        <5> HIDE DEF c
        <5>3. CASE Short(c)
          BY <1>3, <1>4, <5>1, <5>2, <5>3, MarkTypes DEF c
        <5>4. CASE ~Short(c)
          <6>1. Half(c, 1) \in Int /\ Half(c, 2) \in Int
            BY <4>1, <5>4, Pairing DEF c
          <6> QED BY <1>3, <1>5, <5>1, <5>4, <6>1, MarkTypes DEF c
        <5> QED BY <5>3, <5>4
      <4> QED BY <2>4, <3>2, <4>2, SMT DEF Piece
    <3> QED BY <3>1, <3>2
  <2> QED BY <2>1, <2>2, <2>3, <2>4
<1>7. Taken(s, i, ascii) \in 1..4 /\ i + Taken(s, i, ascii) - 1 <= Len(s)
  BY DecodedRange DEF Taken
<1> QED BY <1>6, <1>7 DEF Fine

\* A character is written as its code point.
WrittenWhole(s, i, n) ==
    /\ Taken(s, i, TRUE) = n
    /\ n = 1 => s[i] <= 127
    /\ n > 1 => /\ Decodes(s, i) /\ Utf8(Decoded(s, i)) = SubSeq(s, i, i + n - 1)
                /\ ~IsHigh(Decoded(s, i)) /\ Paired(Decoded(s, i))

LEMMA CharacterWritten ==
    ASSUME NEW s \in Seq(Bytes), NEW i \in 1..Len(s), NEW n \in 1..4, IsCharacter(s, i, n)
    PROVE  WrittenWhole(s, i, n)
<1>1. /\ s[i] \in Bytes /\ Len(s) \in Nat /\ i \in Nat /\ \A k \in 1..Len(s) : s[k] \in Bytes
      /\ i + n - 1 <= Len(s)
  BY DEF IsCharacter
<1>2. CASE n = 1
  <2>1. s[i] <= 127
    BY <1>2 DEF IsCharacter
  <2>2. Promised(s, i) = 1
    <3>1. s[i] < 192
      BY <1>1, <2>1, ByteNumbers
    <3> QED BY <3>1, DecodedRange
  <2>3. ~Decodes(s, i)
    BY <2>2 DEF Decodes
  <2> QED BY <1>2, <2>1, <2>3 DEF Taken, WrittenWhole
<1>3. CASE n = 2
  <2>1. s[i] \in First2 /\ i + 1 <= Len(s)
    BY <1>1, <1>3 DEF IsCharacter, First2
  <2>2. IsTail(s[i + 1])
    <3>1. i + 1 \in (i + 1)..(i + n - 1)
      BY <1>1, <1>3
    <3> QED BY <3>1 DEF IsCharacter
  <2>3. Promised(s, i) = 2
    <3>1. s[i] \in Lead2
      BY <2>1, LeadRanges
    <3> QED BY <2>1, <3>1, SMT DEF Promised
  <2>4. Decodes(s, i)
    BY <1>1, <2>2, <2>3, SMT DEF Decodes
  <2>5. s[i + 1] \in Tails
    BY <2>2 DEF IsTail, Tails
  <2>6. Decoded(s, i) = Of2(s[i], s[i + 1])
    BY <2>1, <2>3, <2>5, SMT DEF Decoded, Of2
  <2>7. SubSeq(s, i, i + n - 1) = <<s[i], s[i + 1]>>
    <3>1. i + n - 1 = i + 1
      BY <1>3
    <3>2. i + 1 <= Len(s) => SubSeq(s, i, i + 1) = <<s[i], s[i + 1]>>
      BY <1>1, Stretches
    <3> QED BY <2>1, <3>1, <3>2
  <2>8. /\ Utf8(Decoded(s, i)) = SubSeq(s, i, i + n - 1)
        /\ ~IsHigh(Decoded(s, i)) /\ Paired(Decoded(s, i))
    <3>1. /\ Utf8(Of2(s[i], s[i + 1])) = <<s[i], s[i + 1]>>
          /\ Paired(Of2(s[i], s[i + 1])) /\ ~IsHigh(Of2(s[i], s[i + 1]))
      BY <2>1, <2>5, Character2, Zenon
    <3> QED BY <2>6, <2>7, <3>1, Zenon
  <2> QED BY <1>3, <2>3, <2>4, <2>8 DEF Taken, WrittenWhole
<1>4. CASE n = 3
  <2>1. s[i] \in Lead3 /\ i + 2 <= Len(s) /\ Allowed3(s[i], s[i + 1])
    BY <1>1, <1>4 DEF IsCharacter, Allowed3
  <2>2. IsTail(s[i + 1]) /\ IsTail(s[i + 2])
    <3>1. i + 1 \in (i + 1)..(i + n - 1) /\ i + 2 \in (i + 1)..(i + n - 1)
      BY <1>1, <1>4
    <3> QED BY <3>1 DEF IsCharacter
  <2>3. Promised(s, i) = 3
    <3>1. s[i] \notin Lead2
      BY <2>1, LeadRanges
    <3> QED BY <2>1, <3>1, SMT DEF Promised
  <2>4. Decodes(s, i)
    BY <1>1, <2>2, <2>3, SMT DEF Decodes
  <2>5. s[i + 1] \in Tails /\ s[i + 2] \in Tails
    BY <2>2 DEF IsTail, Tails
  <2>6. Decoded(s, i) = Of3(s[i], s[i + 1], s[i + 2])
    BY <2>1, <2>3, <2>5, SMT DEF Decoded, Of3
  <2>7. SubSeq(s, i, i + n - 1) = <<s[i], s[i + 1], s[i + 2]>>
    <3>1. i + n - 1 = i + 2
      BY <1>4
    <3>2. i + 2 <= Len(s) => SubSeq(s, i, i + 2) = <<s[i], s[i + 1], s[i + 2]>>
      BY <1>1, Stretches
    <3> QED BY <2>1, <3>1, <3>2
  <2>8. /\ Utf8(Decoded(s, i)) = SubSeq(s, i, i + n - 1)
        /\ ~IsHigh(Decoded(s, i)) /\ Paired(Decoded(s, i))
    <3>1. /\ Utf8(Of3(s[i], s[i + 1], s[i + 2])) = <<s[i], s[i + 1], s[i + 2]>>
          /\ Paired(Of3(s[i], s[i + 1], s[i + 2])) /\ ~IsHigh(Of3(s[i], s[i + 1], s[i + 2]))
      BY <2>1, <2>5, Character3, Zenon
    <3> QED BY <2>6, <2>7, <3>1, Zenon
  <2> QED BY <1>4, <2>3, <2>4, <2>8 DEF Taken, WrittenWhole
<1>5. CASE n = 4
  <2>1. s[i] \in First4 /\ i + 3 <= Len(s) /\ Allowed4(s[i], s[i + 1])
    BY <1>1, <1>5 DEF IsCharacter, First4, Allowed4
  <2>2. IsTail(s[i + 1]) /\ IsTail(s[i + 2]) /\ IsTail(s[i + 3])
    <3>1. \A k \in 1..3 : i + k \in (i + 1)..(i + n - 1)
      BY <1>1, <1>5
    <3> QED BY <3>1 DEF IsCharacter
  <2>3. Promised(s, i) = 4
    <3>1. s[i] \notin Lead2 /\ s[i] \notin Lead3 /\ s[i] \in Lead4
      <4>1. s[i] \in First4
        BY <2>1
      <4> QED BY <4>1, LeadRanges, Zenon
    <3> QED BY <2>1, <3>1, SMT DEF Promised
  <2>4. Decodes(s, i)
    BY <1>1, <2>2, <2>3, SMTT(30) DEF Decodes
  <2>5. s[i + 1] \in Tails /\ s[i + 2] \in Tails /\ s[i + 3] \in Tails
    BY <2>2 DEF IsTail, Tails
  <2>6. Decoded(s, i) = Of4(s[i], s[i + 1], s[i + 2], s[i + 3])
    BY <2>1, <2>3, <2>5, SMT DEF Decoded, Of4
  <2>7. SubSeq(s, i, i + n - 1) = <<s[i], s[i + 1], s[i + 2], s[i + 3]>>
    <3>1. i + n - 1 = i + 3
      BY <1>5
    <3>2. i + 3 <= Len(s) => SubSeq(s, i, i + 3) = <<s[i], s[i + 1], s[i + 2], s[i + 3]>>
      BY <1>1, Stretches
    <3> QED BY <2>1, <3>1, <3>2
  <2>8. /\ Utf8(Decoded(s, i)) = SubSeq(s, i, i + n - 1)
        /\ ~IsHigh(Decoded(s, i)) /\ Paired(Decoded(s, i))
    <3>1. /\ Utf8(Of4(s[i], s[i + 1], s[i + 2], s[i + 3])) = <<s[i], s[i + 1], s[i + 2], s[i + 3]>>
          /\ Paired(Of4(s[i], s[i + 1], s[i + 2], s[i + 3])) /\ ~IsHigh(Of4(s[i], s[i + 1], s[i + 2], s[i + 3]))
      BY <2>1, <2>5, Character4, Zenon
    <3> QED BY <2>6, <2>7, <3>1, Zenon
  <2> QED BY <1>5, <2>3, <2>4, <2>8 DEF Taken, WrittenWhole
<1> QED BY <1>2, <1>3, <1>4, <1>5

\* What parse_string makes of what a turn writes.
Given(s, i, ascii) ==
    IF ~ascii \/ s[i] < 128 THEN <<s[i]>>
    ELSE IF ~Decodes(s, i) THEN Utf8(Replacement)
    ELSE IF Paired(Decoded(s, i)) THEN Utf8(Decoded(s, i))
    ELSE Utf8(Half(Decoded(s, i), 1)) \o Utf8(Half(Decoded(s, i), 2))

\* Nothing is written that is refused: a high surrogate without a low one.
Readable(s, i, ascii) ==
    ascii /\ Decodes(s, i) => ~IsHigh(Decoded(s, i))

\* A piece starts at position q of t.
HasPiece(t, q, p) == q + Len(p) - 1 <= Len(t) /\ \A k \in 1..Len(p) : t[q + k - 1] = p[k]

\* One turn of the reader, or two, from one state to another.
Turns(t, p, r, end) ==
    \/ ReadTurn(t, r) = end
    \/ Len(p) = 2 /\ ReadTurn(t, ReadTurn(t, r)) = end

\* What a turn of the reader does inside a string.
LEMMA TurnCases ==
    ASSUME NEW t \in Seq(Marks), NEW q \in 1..Len(t), NEW x
    PROVE  /\ t[q].kind = "short" =>
                 ReadTurn(t, Reading("inside", q, x)) = Reading("inside", q + 1, Append(x, t[q].code))
           /\ t[q].kind = "byte" /\ t[q].code >= 32 /\ t[q].code # Quote =>
                 ReadTurn(t, Reading("inside", q, x)) = Reading("inside", q + 1, Append(x, t[q].code))
           /\ t[q].kind = "unicode" /\ ~IsHigh(t[q].code) =>
                 ReadTurn(t, Reading("inside", q, x)) = Reading("inside", q + 1, x \o Utf8(t[q].code))
           /\ t[q].kind = "unicode" /\ IsHigh(t[q].code) /\ LowFollows(t, q) =>
                 ReadTurn(t, Reading("inside", q, x))
                     = Reading("inside", q + 2, x \o Utf8(Combined(t[q].code, t[q + 1].code)))
<1> DEFINE r == Reading("inside", q, x)
           u == t[q].code
<1>1. r.state = "inside" /\ r.next = q /\ r.string = x
  BY DEF Reading
<1>2. ~(q > Len(t)) /\ t[q] \in Marks
  OBVIOUS
<1>3. u \in Int
  BY <1>2, MarkCodes
<1>4. t[q] = Byte(Quote) => t[q].kind = "byte" /\ u = Quote
  BY DEF Byte, Mark
<1> HIDE DEF r
<1>5. ReadTurn(t, r) =
        IF t[q] = Byte(Quote) THEN Reading("closed", q + 1, x)
        ELSE IF t[q].kind = "unicode" THEN
                IF ~IsHigh(u) THEN Reading("inside", q + 1, x \o Utf8(u))
                ELSE IF LowFollows(t, q)
                THEN Reading("inside", q + 2, x \o Utf8(Combined(u, t[q + 1].code)))
                ELSE Reading("failed", q, <<>>)
        ELSE IF t[q].kind = "byte" /\ u < 32 THEN Reading("failed", q, <<>>)
        ELSE Reading("inside", q + 1, Append(x, u))
  BY <1>1, <1>2 DEF ReadTurn
<1> HIDE DEF u
<1>6. t[q].kind = "short" => ReadTurn(t, r) = Reading("inside", q + 1, Append(x, u))
  BY <1>4, <1>5
<1>7. t[q].kind = "byte" /\ u >= 32 /\ u # Quote =>
          ReadTurn(t, r) = Reading("inside", q + 1, Append(x, u))
  BY <1>3, <1>4, <1>5
<1>8. t[q].kind = "unicode" /\ ~IsHigh(u) =>
          ReadTurn(t, r) = Reading("inside", q + 1, x \o Utf8(u))
  BY <1>4, <1>5
<1>9. t[q].kind = "unicode" /\ IsHigh(u) /\ LowFollows(t, q) =>
          ReadTurn(t, r) = Reading("inside", q + 2, x \o Utf8(Combined(u, t[q + 1].code)))
  BY <1>4, <1>5
<1> QED BY <1>6, <1>7, <1>8, <1>9 DEF r, u

LEMMA JoinThree ==
    \A a, b, c \in Seq(Int) : (a \o b) \o c = a \o (b \o c)
<1>1. ASSUME NEW a \in Seq(Int), NEW b \in Seq(Int), NEW c \in Seq(Int)
      PROVE  (a \o b) \o c = a \o (b \o c)
  BY SMTT(30), ConcatAssociative
<1> QED BY <1>1

LEMMA AppendOne ==
    ASSUME NEW x \in Seq(Int), NEW u \in Int
    PROVE  Append(x, u) = x \o <<u>>
BY AppendIsConcat

LEMMA PieceRead ==
    ASSUME NEW s \in Seq(Bytes), NEW i \in 1..Len(s), NEW ascii \in BOOLEAN,
           NEW t \in Seq(Marks), NEW q \in 1..Len(t), NEW x \in Seq(Int),
           HasPiece(t, q, Piece(s, i, ascii)), Readable(s, i, ascii)
    PROVE  Turns(t, Piece(s, i, ascii), Reading("inside", q, x),
                 Reading("inside", q + Len(Piece(s, i, ascii)), x \o Given(s, i, ascii)))
<1> DEFINE P == Piece(s, i, ascii)
           r == Reading("inside", q, x)
           b == s[i]
           g == Given(s, i, ascii)
           IsTurn(n, y) == ReadTurn(t, r) = Reading("inside", q + n, x \o y)
<1>0. b \in Bytes /\ b \in Int /\ 0 <= b /\ b <= 255
  <2>1. b \in Bytes
    OBVIOUS
  <2> QED BY <2>1, ByteNumbers
<1>1. P = <<>> \/ (t[q] = P[1] /\ q \in Nat)
  <2>1. Len(P) \in {1, 2}
    BY PieceType
  <2>2. q + 1 - 1 = q
    OBVIOUS
  <2> QED BY <2>1, <2>2 DEF HasPiece
<1>2. Piece(s, i, ascii) =
        IF b \in Named THEN <<Mark("short", b)>>
        ELSE IF b < 32 THEN <<Unicode(b)>>
        ELSE IF ~ascii \/ b < 128 THEN <<Byte(b)>>
        ELSE IF ~Decodes(s, i) THEN <<Unicode(Replacement)>> ELSE Escapes(Decoded(s, i))
  BY SMT DEF Piece
<1>3. g = IF ~ascii \/ b < 128 THEN <<b>>
          ELSE IF ~Decodes(s, i) THEN Utf8(Replacement)
          ELSE IF Paired(Decoded(s, i)) THEN Utf8(Decoded(s, i))
          ELSE Utf8(Half(Decoded(s, i), 1)) \o Utf8(Half(Decoded(s, i), 2))
  BY SMT DEF Given
<1>4. ASSUME NEW m \in Marks, P = <<m>>, IsTurn(1, g) PROVE Turns(t, P, r, Reading("inside", q + Len(P), x \o g))
  BY <1>4 DEF Turns
<1> HIDE DEF P, b, g
<1>5. ASSUME NEW m \in Marks, P = <<m>> PROVE t[q] = m
  BY <1>1, <1>5
<1>6. CASE b \in Named
  <2>1. P = <<Mark("short", b)>> /\ g = <<b>>
    BY <1>2, <1>3, <1>6 DEF P, Named, Quote, Backslash
  <2>2. t[q].kind = "short" /\ t[q].code = b
    BY <1>0, <1>5, <2>1, MarkTypes
  <2>3. IsTurn(1, g)
    BY <1>0, <2>1, <2>2, TurnCases, AppendOne
  <2> QED BY <1>0, <1>4, <2>1, <2>3, MarkTypes DEF P, g
<1>7. CASE b \notin Named /\ b < 32
  <2>1. P = <<Unicode(b)>> /\ g = <<b>>
    BY <1>0, <1>2, <1>3, <1>7 DEF P
  <2>2. t[q].kind = "unicode" /\ t[q].code = b
    BY <1>0, <1>5, <2>1, MarkTypes
  <2>3. ~IsHigh(b) /\ Utf8(b) = <<b>>
    BY SMTT(30), <1>0, <1>7 DEF IsHigh, Utf8
  <2>4. IsTurn(1, g)
    BY <2>1, <2>2, <2>3, TurnCases
  <2> QED BY <1>0, <1>4, <2>1, <2>4, MarkTypes DEF P, g
<1>8. CASE b \notin Named /\ ~(b < 32) /\ (~ascii \/ b < 128)
  <2>1. P = <<Byte(b)>> /\ g = <<b>>
    BY <1>2, <1>3, <1>8 DEF P
  <2>2. t[q].kind = "byte" /\ t[q].code = b /\ b >= 32 /\ b # Quote
    BY <1>0, <1>5, <1>8, <2>1, MarkTypes DEF Named
  <2>3. IsTurn(1, g)
    BY <1>0, <2>1, <2>2, TurnCases, AppendOne
  <2> QED BY <1>0, <1>4, <2>1, <2>3, MarkTypes DEF P, g
<1>9. CASE b \notin Named /\ ~(b < 32) /\ ~(~ascii \/ b < 128) /\ ~Decodes(s, i)
  <2>1. P = <<Unicode(Replacement)>> /\ g = Utf8(Replacement)
    BY <1>2, <1>3, <1>9 DEF P
  <2>2. t[q].kind = "unicode" /\ t[q].code = Replacement
    BY <1>5, <2>1, MarkTypes DEF Replacement
  <2>3. ~IsHigh(Replacement)
    BY SMT DEF IsHigh, Replacement
  <2>4. IsTurn(1, g)
    BY <2>1, <2>2, <2>3, TurnCases
  <2>5. Unicode(Replacement) \in Marks
    BY MarkTypes, SMT DEF Replacement
  <2> QED BY <1>4, <2>1, <2>4, <2>5 DEF P, g
<1>10. CASE b \notin Named /\ ~(b < 32) /\ ~(~ascii \/ b < 128) /\ Decodes(s, i)
  <2> DEFINE c == Decoded(s, i)
             h == Half(c, 1)
             l == Half(c, 2)
  <2>1. c \in Nat /\ ~IsHigh(c)
    BY <1>10, DecodedRange DEF Small, Readable
  <2>2. P = Escapes(c) /\ g = IF Paired(c) THEN Utf8(c) ELSE Utf8(h) \o Utf8(l)
    BY <1>2, <1>3, <1>10 DEF P
  <2>3. Escapes(c) = IF Short(c) THEN <<Unicode(c)>> ELSE <<Unicode(h), Unicode(l)>>
    BY SMT DEF Escapes, Half, Short
  <2>4. Short(c) => Paired(c)
    BY <2>1, SMT DEF Short, Paired
  <2> HIDE DEF c
  <2>5. ~Short(c) => /\ h \in Nat /\ l \in Nat /\ ~IsHigh(l)
                     /\ Paired(c) => IsHigh(h) /\ IsLow(l) /\ Combined(h, l) = c
                     /\ ~Paired(c) => ~IsHigh(h)
    BY <2>1, Pairing
  <2> HIDE DEF h, l
  <2>7. CASE Short(c)
    <3>1. P = <<Unicode(c)>>
      BY <2>2, <2>3, <2>7, SMT
    <3>2. t[q].kind = "unicode" /\ t[q].code = c
      BY <1>5, <2>1, <3>1, MarkTypes
    <3>3. IsTurn(1, g)
      BY <2>1, <2>2, <2>4, <2>7, <3>2, TurnCases
    <3> QED BY <1>4, <2>1, <3>1, <3>3, MarkTypes DEF P, g
  <2>8. CASE ~Short(c)
    <3>1. P = <<Unicode(h), Unicode(l)>> /\ Len(P) = 2
      BY <2>2, <2>3, <2>8, SMT
    <3>2. t[q] = Unicode(h) /\ t[q + 1] = Unicode(l) /\ q + 1 <= Len(t)
      <4>1. q + 2 - 1 = q + 1
        OBVIOUS
      <4> QED BY <1>1, <3>1, <4>1 DEF HasPiece, P
    <3>3. t[q].kind = "unicode" /\ t[q].code = h /\ t[q + 1].kind = "unicode" /\ t[q + 1].code = l
      BY <2>5, <2>8, <3>2, MarkTypes
    <3>4. CASE Paired(c)
      <4>1. LowFollows(t, q)
        BY <2>5, <2>8, <3>2, <3>3, <3>4 DEF LowFollows
      <4>2. IsTurn(2, g)
        BY <2>2, <2>5, <2>8, <3>3, <3>4, <4>1, TurnCases
      <4> QED BY <3>1, <4>2, SMT DEF Turns, P, g
    <3>5. CASE ~Paired(c)
      <4>1. Utf8(h) \in Seq(Int) /\ Utf8(l) \in Seq(Int) /\ g = Utf8(h) \o Utf8(l)
        <5>1. h \in Int /\ l \in Int
          BY <2>5, <2>8
        <5>2. g = Utf8(h) \o Utf8(l)
          BY <2>2, <3>5, Zenon
        <5> QED BY <5>1, <5>2, Utf8Type
      <4>2. IsTurn(1, Utf8(h))
        BY <2>5, <2>8, <3>3, <3>5, TurnCases
      <4>3. q + 1 \in 1..Len(t) /\ x \o Utf8(h) \in Seq(Int)
        BY <3>2, <4>1
      <4>4. ReadTurn(t, Reading("inside", q + 1, x \o Utf8(h)))
              = Reading("inside", q + 1 + 1, (x \o Utf8(h)) \o Utf8(l))
        BY <2>5, <2>8, <3>3, <3>5, <4>3, TurnCases
      <4>5. (x \o Utf8(h)) \o Utf8(l) = x \o g /\ q + 1 + 1 = q + 2
        <5>1. (x \o Utf8(h)) \o Utf8(l) = x \o (Utf8(h) \o Utf8(l))
          BY <4>1, JoinThree, Zenon
        <5>2. q + 1 + 1 = q + 2
          OBVIOUS
        <5> QED BY <4>1, <5>1, <5>2, Zenon
      <4>6. ReadTurn(t, ReadTurn(t, r)) = Reading("inside", q + 2, x \o g)
        BY <4>2, <4>4, <4>5
      <4>7. Turns(t, P, r, Reading("inside", q + Len(P), x \o g))
        BY <3>1, <4>6 DEF Turns
      <4> QED BY <4>7 DEF P, g
    <3> QED BY <3>4, <3>5
  <2> QED BY <2>7, <2>8
<1> QED BY <1>6, <1>7, <1>8, <1>9, <1>10, Zenon

LEMMA GivenType ==
    ASSUME NEW s \in Seq(Bytes), NEW i \in 1..Len(s), NEW ascii \in BOOLEAN
    PROVE  Given(s, i, ascii) \in Seq(Int)
<1>1. <<s[i]>> \in Seq(Int)
  <2>1. s[i] \in Bytes
    OBVIOUS
  <2>2. s[i] \in Int
    BY <2>1, ByteNumbers
  <2> QED BY <2>2
<1>2. Utf8(Replacement) \in Seq(Int)
  <2>1. Replacement \in Int
    BY SMT DEF Replacement
  <2> QED BY <2>1, Utf8Type
<1>3. ASSUME Decodes(s, i)
      PROVE  Utf8(Decoded(s, i)) \in Seq(Int)
  <2>1. Decoded(s, i) \in Int
    BY <1>3, DecodedRange DEF Small
  <2> QED BY <2>1, Utf8Type
<1>4. ASSUME Decodes(s, i), ~Paired(Decoded(s, i))
      PROVE  Utf8(Half(Decoded(s, i), 1)) \o Utf8(Half(Decoded(s, i), 2)) \in Seq(Int)
  <2>1. Decoded(s, i) \in Nat
    BY <1>4, DecodedRange DEF Small
  <2>2. ~Short(Decoded(s, i))
    BY <1>4, <2>1, SMT DEF Short, Paired
  <2>3. Half(Decoded(s, i), 1) \in Nat /\ Half(Decoded(s, i), 2) \in Nat
    BY <2>1, <2>2, Pairing
  <2> QED BY <2>3, Utf8Type
<1> QED BY <1>1, <1>2, <1>3, <1>4 DEF Given

-----------------------------------------------------------------------------
(* Strings: the loops of append_escaped and parse_string *)

\* The states of the two loops.
Writings == [from : Nat, marks : Seq(Marks)]
Readings == [state : {"inside", "closed", "failed"}, next : Nat, string : Seq(Int)]

\* What the loop in append_escaped has written after each turn.
Writes(w, s, ascii) ==
    /\ w \in [0..Len(s) -> Writings] /\ w[0] = [from |-> 1, marks |-> <<>>]
    /\ \A k \in 1..Len(s) : w[k] = WriteTurn(s, w[k - 1], ascii)
    /\ Escaped(s, ascii) = w[Len(s)].marks

\* What the loop in parse_string has read after each turn.
Reads(r, t, i) ==
    /\ r \in [0..Len(t) -> Readings] /\ r[0] = Reading("inside", i, <<>>)
    /\ \A k \in 1..Len(t) : r[k] = ReadTurn(t, r[k - 1])
    /\ ReadString(t, i) = Outcome(r[Len(t)])

LEMMA WriteTurnType ==
    ASSUME NEW s \in Seq(Bytes), NEW ascii \in BOOLEAN, NEW w \in Writings, w.from >= 1
    PROVE  WriteTurn(s, w, ascii) \in Writings /\ WriteTurn(s, w, ascii).from >= 1
<1>1. w.from \in Nat /\ w.marks \in Seq(Marks) /\ Len(s) \in Nat
  BY DEF Writings
<1>2. CASE w.from > Len(s)
  BY <1>2 DEF WriteTurn
<1>3. CASE ~(w.from > Len(s))
  <2>1. w.from \in 1..Len(s)
    BY <1>1, <1>3
  <2>2. Piece(s, w.from, ascii) \in Seq(Marks) /\ Taken(s, w.from, ascii) \in 1..4
    BY <2>1, PieceType
  <2> QED BY <1>1, <1>3, <2>2 DEF WriteTurn, Writings
<1> QED BY <1>2, <1>3

LEMMA WritesLoop ==
    ASSUME NEW s \in Seq(Bytes), NEW ascii \in BOOLEAN
    PROVE  \E w : Writes(w, s, ascii)
<1> DEFINE n == Len(s)
           All == {v \in Writings : v.from >= 1}
           base == [from |-> 1, marks |-> <<>>]
           Next1(v) == WriteTurn(s, v, ascii)
           IsKept(f) == f = [k \in 0..n |->
               IF k = 0 THEN [from |-> 1, marks |-> <<>>] ELSE WriteTurn(s, f[k - 1], ascii)]
           wrote == CHOOSE f : IsKept(f)
<1>1. n \in Nat
  OBVIOUS
<1>2. Escaped(s, ascii) = wrote[n].marks
  BY Zenon DEF Escaped
<1>3. \A f : IsKept(f) <=> f = [k \in 0..n |-> IF k = 0 THEN base ELSE Next1(f[k - 1])]
  OBVIOUS
<1>4. base \in All
  BY DEF Writings
<1>5. \A v \in All : Next1(v) \in All
  BY WriteTurnType
<1> HIDE DEF n, IsKept, Next1, All, base
<1>6. \E f : IsKept(f)
  <2> DEFINE Advance == [x \in (1..n) \X All |-> Next1(x[2])]
  <2>1. Advance \in [(1..n) \X All -> All]
    BY <1>5
  <2>2. \A k \in 1..n, v \in All : Advance[<<k, v>>] = Next1(v)
    OBVIOUS
  <2> HIDE DEF Advance
  <2>3. PICK f : Iterates(f, n, All, base, Advance)
    BY <1>1, <1>4, <2>1, Recursion
  <2>4. ASSUME NEW k \in 1..n PROVE f[k] = Next1(f[k - 1])
    <3>1. k - 1 \in 0..n
      BY <1>1
    <3>2. f[k - 1] \in All
      BY <2>3, <3>1 DEF Iterates
    <3> QED BY <2>2, <2>3, <3>2 DEF Iterates
  <2>5. \A k \in 0..n : f[k] = IF k = 0 THEN base ELSE Next1(f[k - 1])
    BY <1>1, <2>3, <2>4 DEF Iterates
  <2>6. f = [k \in 0..n |-> f[k]]
    BY <2>3 DEF Iterates
  <2>7. f = [k \in 0..n |-> IF k = 0 THEN base ELSE Next1(f[k - 1])]
    BY <2>5, <2>6, Zenon
  <2> QED BY <1>3, <2>7, Zenon
<1>7. IsKept(wrote)
  BY <1>6, Zenon
<1> HIDE DEF wrote
<1>8. \A k \in 0..n : wrote[k] = IF k = 0 THEN base ELSE Next1(wrote[k - 1])
  BY <1>3, <1>7, Zenon
<1>9. wrote[0] = base /\ \A k \in 1..n : wrote[k] = Next1(wrote[k - 1])
  BY <1>1, <1>8
<1> DEFINE T == {k \in 0..n : wrote[k] \in All}
<1>10. 0 \in T
  BY <1>1, <1>4, <1>9
<1>11. ASSUME NEW k \in 1..n, k - 1 \in T PROVE k \in T
  <2>1. wrote[k - 1] \in All /\ k \in 0..n
    BY <1>1, <1>11
  <2> QED BY <1>5, <1>9, <2>1
<1> HIDE DEF T
<1>12. 0..n \subseteq T
  BY <1>1, <1>10, <1>11, UpTo
<1>13. \A k \in 0..n : wrote[k] \in Writings
  BY <1>12 DEF T, All
<1>14. wrote \in [0..n -> Writings]
  <2>1. wrote = [k \in 0..n |-> IF k = 0 THEN base ELSE Next1(wrote[k - 1])]
    BY <1>3, <1>7, Zenon
  <2> QED BY <1>13, <2>1
<1> QED BY <1>2, <1>9, <1>14 DEF Writes, n, base, Next1

LEMMA ReadTurnType ==
    ASSUME NEW t \in Seq(Marks), NEW r \in Readings, r.next >= 1
    PROVE  ReadTurn(t, r) \in Readings /\ ReadTurn(t, r).next >= 1
<1> DEFINE i == r.next
           u == t[i].code
           Fine(v) == v \in Readings /\ v.next >= 1
<1>1. i \in Nat /\ i >= 1 /\ r.string \in Seq(Int) /\ Len(t) \in Nat
  BY DEF Readings
<1>2. \A state \in {"inside", "closed", "failed"}, k \in Nat, x \in Seq(Int) :
          k >= 1 => Fine(Reading(state, k, x))
  BY DEF Readings, Reading
<1>3. <<>> \in Seq(Int) /\ i + 1 \in Nat /\ i + 1 >= 1 /\ i + 2 \in Nat /\ i + 2 >= 1
  BY <1>1
<1>4. ASSUME i <= Len(t) PROVE u \in Int
  <2>1. t[i] \in Marks
    BY <1>1, <1>4
  <2> QED BY <2>1, MarkCodes
<1>5. ASSUME i <= Len(t), LowFollows(t, i) PROVE Combined(u, t[i + 1].code) \in Int
  <2>1. t[i + 1] \in Marks
    BY <1>1, <1>5 DEF LowFollows
  <2>2. t[i + 1].code \in Int
    BY <2>1, MarkCodes
  <2>3. u \in Int
    BY <1>4, <1>5
  <2> HIDE DEF u
  <2> QED BY <2>2, <2>3, SMT DEF Combined
<1>6. ReadTurn(t, r) =
        IF r.state # "inside" THEN r
        ELSE IF i > Len(t) THEN Reading("failed", i, <<>>)
        ELSE IF t[i] = Byte(Quote) THEN Reading("closed", i + 1, r.string)
        ELSE IF t[i].kind = "unicode" THEN
                IF ~IsHigh(u) THEN Reading("inside", i + 1, r.string \o Utf8(u))
                ELSE IF LowFollows(t, i)
                THEN Reading("inside", i + 2, r.string \o Utf8(Combined(u, t[i + 1].code)))
                ELSE Reading("failed", i, <<>>)
        ELSE IF t[i].kind = "byte" /\ u < 32 THEN Reading("failed", i, <<>>)
        ELSE Reading("inside", i + 1, Append(r.string, u))
  BY DEF ReadTurn
<1>7. Fine(r)
  OBVIOUS
<1> HIDE DEF i, u, Fine
<1>8. CASE i > Len(t)
  BY <1>1, <1>2, <1>3, <1>6, <1>7, <1>8 DEF Fine
<1>9. CASE ~(i > Len(t))
  <2>1. i <= Len(t)
    BY <1>1, <1>9
  <2>2. Append(r.string, u) \in Seq(Int) /\ r.string \o Utf8(u) \in Seq(Int)
    BY <1>1, <1>4, <2>1, Utf8Type
  <2>3. LowFollows(t, i) => r.string \o Utf8(Combined(u, t[i + 1].code)) \in Seq(Int)
    BY <1>1, <1>5, <2>1, Utf8Type
  <2>4. Fine(ReadTurn(t, r))
    BY <1>1, <1>2, <1>3, <1>6, <1>7, <1>9, <2>2, <2>3
  <2> QED BY <2>4 DEF Fine
<1> QED BY <1>8, <1>9

LEMMA ReadsLoop ==
    ASSUME NEW t \in Seq(Marks), NEW i \in Nat, i >= 1
    PROVE  \E r : Reads(r, t, i)
<1> DEFINE n == Len(t)
           All == {v \in Readings : v.next >= 1}
           base == Reading("inside", i, <<>>)
           Next1(v) == ReadTurn(t, v)
           IsKept(f) == f = [k \in 0..n |->
               IF k = 0 THEN Reading("inside", i, <<>>) ELSE ReadTurn(t, f[k - 1])]
           got == CHOOSE f : IsKept(f)
<1>1. n \in Nat
  OBVIOUS
<1>2. ReadString(t, i) = Outcome(got[n])
  BY Zenon DEF ReadString
<1>3. \A f : IsKept(f) <=> f = [k \in 0..n |-> IF k = 0 THEN base ELSE Next1(f[k - 1])]
  OBVIOUS
<1>4. base \in All
  BY DEF Readings, Reading
<1>5. \A v \in All : Next1(v) \in All
  BY ReadTurnType
<1> HIDE DEF n, IsKept, Next1, All, base
<1>6. \E f : IsKept(f)
  <2> DEFINE Advance == [x \in (1..n) \X All |-> Next1(x[2])]
  <2>1. Advance \in [(1..n) \X All -> All]
    BY <1>5
  <2>2. \A k \in 1..n, v \in All : Advance[<<k, v>>] = Next1(v)
    OBVIOUS
  <2> HIDE DEF Advance
  <2>3. PICK f : Iterates(f, n, All, base, Advance)
    BY <1>1, <1>4, <2>1, Recursion
  <2>4. ASSUME NEW k \in 1..n PROVE f[k] = Next1(f[k - 1])
    <3>1. k - 1 \in 0..n
      BY <1>1
    <3>2. f[k - 1] \in All
      BY <2>3, <3>1 DEF Iterates
    <3> QED BY <2>2, <2>3, <3>2 DEF Iterates
  <2>5. \A k \in 0..n : f[k] = IF k = 0 THEN base ELSE Next1(f[k - 1])
    BY <1>1, <2>3, <2>4 DEF Iterates
  <2>6. f = [k \in 0..n |-> f[k]]
    BY <2>3 DEF Iterates
  <2>7. f = [k \in 0..n |-> IF k = 0 THEN base ELSE Next1(f[k - 1])]
    BY <2>5, <2>6, Zenon
  <2> QED BY <1>3, <2>7, Zenon
<1>7. IsKept(got)
  BY <1>6, Zenon
<1> HIDE DEF got
<1>8. \A k \in 0..n : got[k] = IF k = 0 THEN base ELSE Next1(got[k - 1])
  BY <1>3, <1>7, Zenon
<1>9. got[0] = base /\ \A k \in 1..n : got[k] = Next1(got[k - 1])
  BY <1>1, <1>8
<1> DEFINE T == {k \in 0..n : got[k] \in All}
<1>10. 0 \in T
  BY <1>1, <1>4, <1>9
<1>11. ASSUME NEW k \in 1..n, k - 1 \in T PROVE k \in T
  <2>1. got[k - 1] \in All /\ k \in 0..n
    BY <1>1, <1>11
  <2> QED BY <1>5, <1>9, <2>1
<1> HIDE DEF T
<1>12. 0..n \subseteq T
  BY <1>1, <1>10, <1>11, UpTo
<1>13. \A k \in 0..n : got[k] \in Readings
  BY <1>12 DEF T, All
<1>14. got \in [0..n -> Readings]
  <2>1. got = [k \in 0..n |-> IF k = 0 THEN base ELSE Next1(got[k - 1])]
    BY <1>3, <1>7, Zenon
  <2> QED BY <1>13, <2>1
<1> QED BY <1>2, <1>9, <1>14 DEF Reads, n, base, Next1

\* A turn of the writer takes the next bytes and adds a piece, until none is left.
LEMMA WriteEnds ==
    ASSUME NEW s, NEW ascii, NEW v, v.from > Len(s)
    PROVE  WriteTurn(s, v, ascii) = v
BY DEF WriteTurn

LEMMA WriteStep ==
    ASSUME NEW s \in Seq(Bytes), NEW ascii \in BOOLEAN, NEW v \in Writings,
           v.from >= 1, v.from <= Len(s)
    PROVE  /\ WriteTurn(s, v, ascii).from = v.from + Taken(s, v.from, ascii)
           /\ WriteTurn(s, v, ascii).marks = v.marks \o Piece(s, v.from, ascii)
           /\ v.from \in 1..Len(s) /\ Piece(s, v.from, ascii) \in Seq(Marks)
           /\ Len(Piece(s, v.from, ascii)) \in {1, 2}
           /\ Len(WriteTurn(s, v, ascii).marks) = Len(v.marks) + Len(Piece(s, v.from, ascii))
<1>1. v.from \in Nat /\ v.marks \in Seq(Marks) /\ Len(s) \in Nat
  BY DEF Writings
<1>2. v.from \in 1..Len(s) /\ ~(v.from > Len(s))
  BY <1>1
<1>3. Piece(s, v.from, ascii) \in Seq(Marks) /\ Len(Piece(s, v.from, ascii)) \in {1, 2}
  BY <1>2, PieceType
<1>4. /\ WriteTurn(s, v, ascii).from = v.from + Taken(s, v.from, ascii)
      /\ WriteTurn(s, v, ascii).marks = v.marks \o Piece(s, v.from, ascii)
  BY <1>2 DEF WriteTurn
<1>5. Len(WriteTurn(s, v, ascii).marks) = Len(v.marks) + Len(Piece(s, v.from, ascii))
  BY <1>1, <1>3, <1>4, ConcatProperties
<1> QED BY <1>2, <1>3, <1>4, <1>5

\* After each turn the writer is within the string, has passed a byte more, and
\* has written no quote.
WroteSome(s, v, k) ==
    /\ v \in Writings /\ v.from >= 1 /\ v.from <= Len(s) + 1
    /\ v.from > k \/ v.from > Len(s)
    /\ \A p \in 1..Len(v.marks) : v.marks[p] # Byte(Quote)

LEMMA WroteWell ==
    ASSUME NEW s \in Seq(Bytes), NEW ascii \in BOOLEAN, NEW w, Writes(w, s, ascii)
    PROVE  \A k \in 0..Len(s) : WroteSome(s, w[k], k)
<1> DEFINE n == Len(s)
           T == {k \in 0..n : WroteSome(s, w[k], k)}
<1>1. n \in Nat
  OBVIOUS
<1>2. 0 \in T
  BY <1>1 DEF Writes, WroteSome, Writings
<1>3. ASSUME NEW k \in 1..n, k - 1 \in T PROVE k \in T
  <2> DEFINE v == w[k - 1]
             P == Piece(s, v.from, ascii)
  <2>1. WroteSome(s, v, k - 1) /\ k \in 0..n /\ w[k] = WriteTurn(s, v, ascii)
    BY <1>1, <1>3 DEF Writes
  <2>2. /\ v \in Writings /\ v.from \in Nat /\ v.from >= 1 /\ v.from <= n + 1
        /\ v.from > k - 1 \/ v.from > n
        /\ v.marks \in Seq(Marks) /\ \A p \in 1..Len(v.marks) : v.marks[p] # Byte(Quote)
    BY <2>1 DEF WroteSome, Writings
  <2>3. w[k] \in Writings /\ w[k].from >= 1 /\ w[k].from \in Nat
    BY <2>1, <2>2, WriteTurnType DEF Writings
  <2>4. CASE v.from > n
    BY <1>1, <2>1, <2>2, <2>4, WriteEnds DEF WroteSome
  <2>5. CASE v.from <= n
    <3>1. /\ w[k].from = v.from + Taken(s, v.from, ascii) /\ w[k].marks = v.marks \o P
          /\ v.from \in 1..n
      <4>1. /\ WriteTurn(s, v, ascii).from = v.from + Taken(s, v.from, ascii)
            /\ WriteTurn(s, v, ascii).marks = v.marks \o P /\ v.from \in 1..Len(s)
        BY <2>2, <2>5, WriteStep
      <4> QED BY <2>1, <4>1
    <3>2. /\ P \in Seq(Marks) /\ \A p \in 1..Len(P) : P[p] # Byte(Quote)
          /\ Taken(s, v.from, ascii) \in 1..4 /\ v.from + Taken(s, v.from, ascii) - 1 <= n
      BY <3>1, PieceType
    <3> HIDE DEF P, v
    <3>3. ASSUME NEW p \in 1..Len(v.marks \o P) PROVE (v.marks \o P)[p] # Byte(Quote)
      <4>1. Len(v.marks) \in Nat /\ Len(P) \in Nat /\ Len(v.marks \o P) = Len(v.marks) + Len(P)
        BY <2>2, <3>2, ConcatProperties
      <4>2. CASE p <= Len(v.marks)
        BY <2>2, <3>2, <4>1, <4>2, ConcatProperties
      <4>3. CASE ~(p <= Len(v.marks))
        <5>1. p - Len(v.marks) \in 1..Len(P)
          BY <4>1, <4>3
        <5>2. (v.marks \o P)[p] = P[p - Len(v.marks)]
          BY <2>2, <3>2, <4>1, <4>3, ConcatProperties
        <5> QED BY <3>2, <5>1, <5>2
      <4> QED BY <4>2, <4>3
    <3>4. w[k].from <= n + 1 /\ (w[k].from > k \/ w[k].from > n)
      BY SMTT(30), <1>1, <2>2, <2>5, <3>1, <3>2
    <3> QED BY <2>1, <2>3, <3>1, <3>3, <3>4 DEF WroteSome
  <2> QED BY <1>1, <2>2, <2>4, <2>5
<1> HIDE DEF T
<1>4. 0..n \subseteq T
  BY <1>1, <1>2, <1>3, UpTo
<1> QED BY <1>4 DEF T

\* What is written once stays.
IsPrefixOf(a, b) == Len(a) <= Len(b) /\ \A p \in 1..Len(a) : b[p] = a[p]

LEMMA Written ==
    ASSUME NEW s \in Seq(Bytes), NEW ascii \in BOOLEAN, NEW w, Writes(w, s, ascii)
    PROVE  \A k \in 0..Len(s) : IsPrefixOf(w[k].marks, w[Len(s)].marks)
<1> DEFINE n == Len(s)
           T == {j \in 0..n : IsPrefixOf(w[n - j].marks, w[n].marks)}
<1>1. n \in Nat /\ \A k \in 0..n : WroteSome(s, w[k], k)
  BY WroteWell
<1>2. 0 \in T
  <2>1. n - 0 = n /\ n \in 0..n
    BY <1>1
  <2> QED BY <1>1, <2>1 DEF IsPrefixOf, WroteSome, Writings
<1>3. ASSUME NEW j \in 1..n, j - 1 \in T PROVE j \in T
  <2> DEFINE k == n - j + 1
             v == w[n - j]
             all == w[n].marks
  <2>1. n - (j - 1) = k /\ k - 1 = n - j /\ k \in 1..n /\ n - j \in 0..n /\ j \in 0..n /\ n \in 0..n
    BY <1>1
  <2>2. IsPrefixOf(w[k].marks, all) /\ w[k] = WriteTurn(s, v, ascii)
    BY <1>3, <2>1 DEF Writes
  <2>3. v \in Writings /\ v.from \in Nat /\ v.from >= 1 /\ v.marks \in Seq(Marks) /\ all \in Seq(Marks)
    BY <1>1, <2>1 DEF WroteSome, Writings
  <2>4. IsPrefixOf(v.marks, w[k].marks)
    <3>1. CASE v.from > n
      <4>1. w[k] = v
        BY <2>2, <3>1, WriteEnds
      <4> HIDE DEF v
      <4> QED BY <2>3, <4>1 DEF IsPrefixOf
    <3>2. CASE v.from <= n
      <4> DEFINE P == Piece(s, v.from, ascii)
      <4>1. P \in Seq(Marks) /\ w[k].marks = v.marks \o P
        <5>1. v.from <= Len(s)
          BY <3>2
        <5> HIDE DEF v
        <5>2. P \in Seq(Marks) /\ WriteTurn(s, v, ascii).marks = v.marks \o P
          BY <2>3, <5>1, WriteStep
        <5> QED BY <2>2, <5>2, Zenon
      <4> HIDE DEF P, v
      <4>2. \A p \in 1..Len(v.marks) : (v.marks \o P)[p] = v.marks[p]
        BY <2>3, <4>1, ConcatProperties
      <4>3. Len(v.marks) <= Len(v.marks \o P)
        BY <2>3, <4>1, ConcatProperties
      <4> QED BY <4>1, <4>2, <4>3 DEF IsPrefixOf
    <3> QED BY <1>1, <2>3, <3>1, <3>2
  <2>5. w[k].marks \in Seq(Marks)
    BY <1>1, <2>1 DEF WroteSome, Writings
  <2> HIDE DEF v, all, k
  <2>6. Len(v.marks) \in Nat /\ Len(w[k].marks) \in Nat /\ Len(all) \in Nat
    BY <2>3, <2>5
  <2>7. IsPrefixOf(v.marks, all)
    BY <2>2, <2>4, <2>6 DEF IsPrefixOf
  <2> QED BY <2>1, <2>7 DEF v, all
<1> HIDE DEF T
<1>4. 0..n \subseteq T
  BY <1>1, <1>2, <1>3, UpTo
<1>5. ASSUME NEW k \in 0..n PROVE IsPrefixOf(w[k].marks, w[n].marks)
  <2>1. n - k \in T /\ n - (n - k) = k
    BY <1>1, <1>4
  <2> QED BY <2>1 DEF T
<1> QED BY <1>5

\* Where the reader is when it has read what a turn of the writer wrote: it is
\* there in time, has refused nothing, and, if the writer has passed whole
\* characters only, has what the writer has read.
Following(s, i, v, r, whole, starts) ==
    \E m \in 0..Len(v.marks), x \in Seq(Int) :
        /\ r[m] = Reading("inside", i + Len(v.marks), x)
        /\ whole => v.from \in starts /\ x = SubSeq(s, 1, v.from - 1)

\* From each of these positions the writer writes what is read back as it was.
Faithful(s, ascii, starts) ==
    /\ 1 \in starts
    /\ \A j \in starts : j <= Len(s) =>
          /\ j + Taken(s, j, ascii) \in starts
          /\ Given(s, j, ascii) = SubSeq(s, j, j + Taken(s, j, ascii) - 1)

\* The text of a string, after its opening quote.
HasText(t, i, e) ==
    /\ i + Len(e) <= Len(t) /\ t[i + Len(e)] = Byte(Quote)
    /\ \A p \in 1..Len(e) : t[i + p - 1] = e[p]

\* The reader follows the writer from turn to turn.
LEMMA FollowStep ==
    ASSUME NEW s \in Seq(Bytes), NEW ascii \in BOOLEAN, NEW v \in Writings,
           v.from >= 1, v.from <= Len(s) + 1,
           NEW t \in Seq(Marks), NEW i \in Nat, i >= 1, NEW e \in Seq(Marks), HasText(t, i, e),
           IsPrefixOf(WriteTurn(s, v, ascii).marks, e),
           NEW r, Reads(r, t, i), NEW whole, NEW starts,
           whole => Faithful(s, ascii, starts),
           \A j \in 1..Len(s) : (whole => j \in starts) => Readable(s, j, ascii),
           Following(s, i, v, r, whole, starts)
    PROVE  Following(s, i, WriteTurn(s, v, ascii), r, whole, starts)
<1> DEFINE W == WriteTurn(s, v, ascii)
           j == v.from
           P == Piece(s, j, ascii)
           g == Given(s, j, ascii)
<1>1. j \in Nat /\ v.marks \in Seq(Marks) /\ Len(s) \in Nat /\ Len(v.marks) \in Nat /\ Len(e) \in Nat
      /\ Len(t) \in Nat
  BY DEF Writings
<1>2. CASE j > Len(s)
  BY <1>2, WriteEnds
<1>3. CASE j <= Len(s)
  <2>1. PICK m \in 0..Len(v.marks), x \in Seq(Int) :
           /\ r[m] = Reading("inside", i + Len(v.marks), x)
           /\ whole => j \in starts /\ x = SubSeq(s, 1, j - 1)
    BY DEF Following
  <2>2. /\ W.from = j + Taken(s, j, ascii) /\ W.marks = v.marks \o P
        /\ j \in 1..Len(s) /\ P \in Seq(Marks) /\ Len(P) \in {1, 2}
        /\ Len(W.marks) = Len(v.marks) + Len(P)
    BY <1>3, WriteStep
  <2> DEFINE q == i + Len(v.marks)
  <2>3. Len(W.marks) <= Len(e) /\ \A p \in 1..Len(W.marks) : e[p] = W.marks[p]
    BY DEF IsPrefixOf
  <2>4. g \in Seq(Int)
    BY <2>2, GivenType
  <2>11. Readable(s, j, ascii)
    BY <2>1, <2>2
  <2> HIDE DEF P, W, g, j
  <2>5. q \in 1..Len(t) /\ q + Len(P) <= Len(t)
    BY SMTT(30), <1>1, <2>2, <2>3 DEF HasText
  <2>6. HasPiece(t, q, P)
    <3>1. q + Len(P) - 1 <= Len(t)
      BY SMTT(30), <1>1, <2>2, <2>5
    <3>2. ASSUME NEW k \in 1..Len(P) PROVE t[q + k - 1] = P[k]
      <4>1. Len(v.marks) + k \in 1..Len(W.marks) /\ Len(v.marks) + k \in 1..Len(e)
            /\ i + (Len(v.marks) + k) - 1 = q + k - 1
        BY SMTT(30), <1>1, <2>2, <2>3
      <4>2. t[q + k - 1] = W.marks[Len(v.marks) + k]
        BY <2>3, <4>1 DEF HasText
      <4>3. (v.marks \o P)[Len(v.marks) + k] = P[k]
        BY <1>1, <2>2, ConcatProperties
      <4> QED BY <2>2, <4>2, <4>3
    <3> QED BY <3>1, <3>2 DEF HasPiece
  <2>7. Turns(t, P, Reading("inside", q, x), Reading("inside", q + Len(P), x \o g))
    <3>1. j \in 1..Len(s) /\ Readable(s, j, ascii)
      BY <2>2, <2>11
    <3> QED BY <2>5, <2>6, <3>1, PieceRead DEF P, g
  <2>8. \E k \in 0..Len(W.marks) : r[k] = Reading("inside", q + Len(P), x \o g)
    <3>1. m + 1 \in 1..Len(t) /\ r[m + 1] = ReadTurn(t, r[m])
      <4>1. m + 1 \in 1..Len(t) /\ (m + 1) - 1 = m
        BY <1>1, <2>2, <2>5
      <4> QED BY <4>1 DEF Reads
    <3>4. Len(W.marks) \in Nat /\ m + 1 \in 0..Len(W.marks)
      <4>1. /\ Len(W.marks) = Len(v.marks) + Len(P) /\ Len(P) \in {1, 2}
            /\ Len(v.marks) \in Nat /\ m \in 0..Len(v.marks)
        BY <1>1, <2>2
      <4> DEFINE a == Len(W.marks)
                 b == Len(v.marks)
                 c == Len(P)
      <4>2. a = b + c /\ c \in {1, 2} /\ b \in Nat /\ m \in 0..b
        BY <4>1
      <4> HIDE DEF a, b, c
      <4>3. a \in Nat /\ m + 1 \in 0..a
        BY <4>2
      <4> QED BY <4>3 DEF a
    <3>2. CASE ReadTurn(t, Reading("inside", q, x)) = Reading("inside", q + Len(P), x \o g)
      <4>1. m + 1 \in 0..Len(W.marks)
        BY <3>4
      <4>2. r[m] = Reading("inside", q, x)
        BY <2>1
      <4>3. r[m + 1] = Reading("inside", q + Len(P), x \o g)
        BY <3>1, <3>2, <4>2
      <4> QED BY <4>1, <4>3
    <3>3. CASE /\ Len(P) = 2
               /\ ReadTurn(t, ReadTurn(t, Reading("inside", q, x))) = Reading("inside", q + Len(P), x \o g)
      <4>1. m + 2 \in 0..Len(W.marks) /\ m + 2 \in 1..Len(t) /\ (m + 2) - 1 = m + 1
        BY SMTT(30), <1>1, <2>2, <2>5, <3>3
      <4>2. r[m + 2] = ReadTurn(t, r[m + 1])
        BY <4>1 DEF Reads
      <4> QED BY <2>1, <3>1, <3>3, <4>1, <4>2
    <3> QED BY <2>7, <3>2, <3>3 DEF Turns
  <2>9. q + Len(P) = i + Len(W.marks) /\ x \o g \in Seq(Int)
    BY <1>1, <2>2, <2>4
  <2>10. ASSUME whole PROVE W.from \in starts /\ x \o g = SubSeq(s, 1, W.from - 1)
    <3> DEFINE d == Taken(s, j, ascii)
    <3>1. j \in starts /\ x = SubSeq(s, 1, j - 1) /\ j + d \in starts /\ g = SubSeq(s, j, j + d - 1)
      BY <1>3, <2>1, <2>10 DEF Faithful, g, j
    <3>2. d \in 1..4 /\ j + d - 1 <= Len(s)
      BY <2>2, PieceType
    <3> HIDE DEF d
    <3>3. SubSeq(s, 1, j - 1) \o SubSeq(s, (j - 1) + 1, j + d - 1) = SubSeq(s, 1, j + d - 1)
      <4>1. 1 \in 1..(Len(s) + 1) /\ j - 1 \in (1 - 1)..Len(s) /\ j + d - 1 \in (j - 1)..Len(s)
        BY SMTT(30), <1>1, <2>2, <3>2
      <4> QED BY <4>1, ConcatAdjacentSubSeq
    <3>4. (j - 1) + 1 = j
      BY <1>1
    <3>5. x \o g = SubSeq(s, 1, j + d - 1)
      BY <3>1, <3>3, <3>4
    <3>6. W.from = j + d /\ W.from - 1 = j + d - 1
      BY SMTT(30), <2>2, <3>2, <1>1 DEF d
    <3> QED BY <3>1, <3>5, <3>6
  <2> QED BY <2>8, <2>9, <2>10 DEF Following, W
<1> QED BY <1>1, <1>2, <1>3

\* Some string is read up to the mark after the quote, and it is s if it must be.
ReadsBack(t, i, s, e, whole) ==
    \E x \in Seq(Int) : ReadString(t, i) = Got(String(x), i + Len(e) + 1) /\ (whole => x = s)

\* A string that holds no high surrogate, where it can tell, is read to its end.
LEMMA TextIsRead ==
    ASSUME NEW s \in Seq(Bytes), NEW ascii \in BOOLEAN,
           NEW t \in Seq(Marks), NEW i \in Nat, i >= 1, HasText(t, i, Escaped(s, ascii)),
           NEW whole, NEW starts, whole => Faithful(s, ascii, starts),
           \A j \in 1..Len(s) : (whole => j \in starts) => Readable(s, j, ascii)
    PROVE  ReadsBack(t, i, s, Escaped(s, ascii), whole)
<1> DEFINE n == Len(s)
           e == Escaped(s, ascii)
<1>1. PICK w : Writes(w, s, ascii)
  BY WritesLoop
<1>2. PICK r : Reads(r, t, i)
  BY ReadsLoop
<1>3. n \in Nat /\ Len(t) \in Nat /\ e = w[n].marks
  BY <1>1 DEF Writes
<1>4. /\ \A k \in 0..n : WroteSome(s, w[k], k)
      /\ \A k \in 0..n : IsPrefixOf(w[k].marks, w[n].marks)
  BY <1>1, WroteWell, Written
<1>5. e \in Seq(Marks) /\ Len(e) \in Nat
  <2>1. n \in 0..n
    BY <1>3
  <2> QED BY <1>3, <1>4, <2>1 DEF WroteSome, Writings
<1> DEFINE T == {k \in 0..n : Following(s, i, w[k], r, whole, starts)}
<1>6. 0 \in T
  <2>1. w[0] = [from |-> 1, marks |-> <<>>] /\ r[0] = Reading("inside", i, <<>>)
    BY <1>1, <1>2 DEF Writes, Reads
  <2>2. Len(w[0].marks) = 0 /\ i + 0 = i /\ w[0].from = 1 /\ SubSeq(s, 1, 1 - 1) = <<>> /\ <<>> \in Seq(Int)
    BY <2>1
  <2>3. whole => 1 \in starts
    BY DEF Faithful
  <2>4. 0 \in 0..Len(w[0].marks) /\ 0 \in 0..n
    BY <1>3, <2>2
  <2> QED BY <2>1, <2>2, <2>3, <2>4 DEF Following
<1>7. ASSUME NEW k \in 1..n, k - 1 \in T PROVE k \in T
  <2> DEFINE v == w[k - 1]
  <2>1. Following(s, i, v, r, whole, starts) /\ k - 1 \in 0..n /\ k \in 0..n
        /\ w[k] = WriteTurn(s, v, ascii)
    BY <1>1, <1>3, <1>7 DEF Writes
  <2>2. v \in Writings /\ v.from >= 1 /\ v.from <= Len(s) + 1
    BY <1>4, <2>1 DEF WroteSome
  <2>3. IsPrefixOf(WriteTurn(s, v, ascii).marks, e)
    BY <1>3, <1>4, <2>1
  <2> HIDE DEF v, e
  <2>4. HasText(t, i, e)
    BY DEF e
  <2>5. Following(s, i, WriteTurn(s, v, ascii), r, whole, starts)
    BY <1>2, <1>5, <2>1, <2>2, <2>3, <2>4, FollowStep
  <2> QED BY <2>1, <2>5
<1> HIDE DEF T
<1>8. 0..n \subseteq T
  BY <1>3, <1>6, <1>7, UpTo
<1>9. Following(s, i, w[n], r, whole, starts) /\ w[n].from = n + 1
  <2>1. n \in 0..n /\ n \in T
    BY <1>3, <1>8
  <2> QED BY <1>3, <1>4, <2>1 DEF T, WroteSome, Writings
<1>10. PICK m \in 0..Len(e), x \in Seq(Int) :
          /\ r[m] = Reading("inside", i + Len(e), x)
          /\ whole => x = SubSeq(s, 1, n + 1 - 1)
  BY <1>3, <1>9 DEF Following
<1>11. whole => x = s
  BY <1>3, <1>10, SubSeqFull
<1> HIDE DEF e
<1>12. i + Len(e) <= Len(t) /\ t[i + Len(e)] = Byte(Quote)
  BY DEF HasText, e
<1>13. m + 1 \in 1..Len(t) /\ r[m + 1] = Reading("closed", i + Len(e) + 1, x)
  <2>1. m + 1 \in 1..Len(t) /\ (m + 1) - 1 = m
    BY <1>3, <1>5, <1>12
  <2>2. r[m + 1] = ReadTurn(t, r[m])
    BY <1>2, <2>1 DEF Reads
  <2>3. ~(i + Len(e) > Len(t))
    BY <1>3, <1>5, <1>12
  <2> QED BY <1>10, <1>12, <2>1, <2>2, <2>3 DEF ReadTurn, Reading
<1> DEFINE U == {k \in 0..Len(t) : k >= m + 1 => r[k] = Reading("closed", i + Len(e) + 1, x)}
<1>14. 0 \in U
  BY <1>3
<1>15. ASSUME NEW k \in 1..Len(t), k - 1 \in U PROVE k \in U
  <2>1. r[k] = ReadTurn(t, r[k - 1]) /\ k \in 0..Len(t)
    BY <1>2 DEF Reads
  <2>2. CASE k - 1 >= m + 1
    <3>1. r[k - 1] = Reading("closed", i + Len(e) + 1, x)
      BY <1>15, <2>2
    <3>2. ReadTurn(t, r[k - 1]) = r[k - 1]
      BY ONLY <3>1 DEF ReadTurn, Reading
    <3>3. r[k] = Reading("closed", i + Len(e) + 1, x)
      BY ONLY <2>1, <3>1, <3>2
    <3> QED BY <2>1, <3>3
  <2>3. CASE k = m + 1
    BY <1>13, <2>1, <2>3
  <2>4. CASE k < m + 1
    BY <2>1, <2>4
  <2> QED BY <2>2, <2>3, <2>4
<1> HIDE DEF U
<1>16. 0..Len(t) \subseteq U
  BY <1>3, <1>14, <1>15, UpTo
<1>17. r[Len(t)] = Reading("closed", i + Len(e) + 1, x)
  <2>1. Len(t) \in U /\ Len(t) >= m + 1
    BY SMTT(30), <1>3, <1>13, <1>16
  <2> QED BY <2>1 DEF U
<1>18. ReadString(t, i) = Got(String(x), i + Len(e) + 1)
  BY <1>2, <1>17 DEF Reads, Reading, Outcome
<1> QED BY <1>11, <1>18 DEF e, ReadsBack

LEMMA OneByte ==
    ASSUME NEW S, NEW s \in Seq(S), NEW i \in 1..Len(s)
    PROVE  SubSeq(s, i, i) = <<s[i]>>
<1> DEFINE c == SubSeq(s, i, i)
<1>1. c \in Seq(S) /\ Len(c) = i - i + 1 /\ \A k \in 1..(i - i + 1) : c[k] = s[i + k - 1]
  BY SubSeqProperties
<1> HIDE DEF c
<1>2. i - i + 1 = 1 /\ i + 1 - 1 = i
  OBVIOUS
<1>3. Len(c) = 1 /\ c[1] = s[i]
  BY <1>1, <1>2
<1>4. c = <<c[1]>>
  BY <1>1, <1>3
<1> QED BY <1>3, <1>4 DEF c

\* dump_json in its default mode keeps every byte, whatever the string is.
LEMMA BytesAreFaithful ==
    ASSUME NEW s \in Seq(Bytes)
    PROVE  Faithful(s, FALSE, 1..(Len(s) + 1))
<1>1. Len(s) \in Nat /\ 1 \in 1..(Len(s) + 1)
  OBVIOUS
<1>2. ASSUME NEW j \in 1..(Len(s) + 1), j <= Len(s)
      PROVE  /\ j + Taken(s, j, FALSE) \in 1..(Len(s) + 1)
             /\ Given(s, j, FALSE) = SubSeq(s, j, j + Taken(s, j, FALSE) - 1)
  <2>1. j \in 1..Len(s) /\ j + 1 \in 1..(Len(s) + 1) /\ j + 1 - 1 = j
    BY <1>1, <1>2
  <2>2. Taken(s, j, FALSE) = 1 /\ Given(s, j, FALSE) = <<s[j]>>
    BY DEF Taken, Given
  <2> QED BY <2>1, <2>2, OneByte
<1> QED BY <1>1, <1>2 DEF Faithful

\* Escaped to ASCII, a string that is UTF-8 is kept from each start of a character.
LEMMA CharactersAreFaithful ==
    ASSUME NEW s \in Seq(Bytes), WellFormed(s)
    PROVE  \E starts : /\ Faithful(s, TRUE, starts)
                       /\ \A j \in 1..Len(s) : j \in starts => Readable(s, j, TRUE)
<1>1. PICK begins \in SUBSET DOMAIN s :
        /\ s = <<>> \/ 1 \in begins
        /\ \A i \in begins : \E n \in 1..4 : IsCharacter(s, i, n) /\ i + n \in begins \cup {Len(s) + 1}
  BY DEF WellFormed
<1> DEFINE starts == begins \cup {Len(s) + 1}
<1>2. Len(s) \in Nat /\ DOMAIN s = 1..Len(s)
  OBVIOUS
<1>3. 1 \in starts
  BY <1>1
<1>4. ASSUME NEW j \in starts, j <= Len(s)
      PROVE  /\ j + Taken(s, j, TRUE) \in starts
             /\ Given(s, j, TRUE) = SubSeq(s, j, j + Taken(s, j, TRUE) - 1)
             /\ Readable(s, j, TRUE)
  <2>1. j \in begins /\ j \in 1..Len(s)
    BY <1>1, <1>2, <1>4
  <2>2. PICK n \in 1..4 : IsCharacter(s, j, n) /\ j + n \in starts
    BY <1>1, <2>1
  <2> HIDE DEF starts
  <2>3. WrittenWhole(s, j, n)
    BY <2>1, <2>2, CharacterWritten, Zenon
  <2>4. s[j] \in Bytes /\ Taken(s, j, TRUE) = n
    <3>1. s[j] \in Bytes
      BY <2>1
    <3> QED BY <2>3, <3>1 DEF WrittenWhole
  <2>5. CASE n = 1
    <3>1. s[j] < 128 /\ s[j] < 192
      BY <2>3, <2>4, <2>5, ByteNumbers DEF WrittenWhole
    <3>2. Given(s, j, TRUE) = <<s[j]>>
      BY <3>1 DEF Given
    <3>3. ~Decodes(s, j)
      BY <2>1, <3>1, DecodedRange DEF Decodes
    <3>4. j + 1 - 1 = j
      BY <2>1
    <3> QED BY <2>1, <2>2, <2>4, <2>5, <3>2, <3>3, <3>4, OneByte DEF Readable
  <2>6. CASE n > 1
    <3>1. /\ Decodes(s, j) /\ Utf8(Decoded(s, j)) = SubSeq(s, j, j + n - 1)
          /\ ~IsHigh(Decoded(s, j)) /\ Paired(Decoded(s, j))
      BY <2>3, <2>6 DEF WrittenWhole
    <3>2. ~(s[j] < 128)
      <4>1. Promised(s, j) # 1
        BY <3>1 DEF Decodes
      <4>2. ~(s[j] < 192)
        BY <2>1, <4>1, DecodedRange
      <4> QED BY <2>4, <4>2, ByteNumbers
    <3>3. Given(s, j, TRUE) = Utf8(Decoded(s, j))
      BY <3>1, <3>2 DEF Given
    <3>4. j + Taken(s, j, TRUE) \in starts /\ j + Taken(s, j, TRUE) - 1 = j + n - 1
      BY <2>2, <2>4, Zenon
    <3>5. Readable(s, j, TRUE)
      BY <3>1 DEF Readable
    <3> QED BY <3>1, <3>3, <3>4, <3>5, Zenon
  <2>7. n = 1 \/ n > 1
    BY <2>2
  <2> QED BY <2>5, <2>6, <2>7, Zenon
<1>5. Faithful(s, TRUE, starts)
  BY <1>3, <1>4 DEF Faithful
<1>6. \A j \in 1..Len(s) : j \in starts => Readable(s, j, TRUE)
  <2>1. \A j \in 1..Len(s) : j <= Len(s)
    BY <1>2
  <2> HIDE DEF starts
  <2> QED BY <1>4, <2>1, Zenon
<1> QED BY <1>5, <1>6

\* What is between the quotes.
LEMMA EscapedType ==
    ASSUME NEW s \in Seq(Bytes), NEW ascii \in BOOLEAN
    PROVE  /\ Escaped(s, ascii) \in Seq(Marks)
           /\ \A p \in 1..Len(Escaped(s, ascii)) : Escaped(s, ascii)[p] # Byte(Quote)
<1>1. PICK w : Writes(w, s, ascii)
  BY WritesLoop
<1>2. Len(s) \in 0..Len(s)
  OBVIOUS
<1>3. WroteSome(s, w[Len(s)], Len(s)) /\ Escaped(s, ascii) = w[Len(s)].marks
  BY <1>1, <1>2, WroteWell DEF Writes
<1> QED BY <1>3 DEF WroteSome, Writings

LEMMA JoinedMarks ==
    \A a, b \in Seq(Marks) :
        /\ a \o b \in Seq(Marks) /\ Len(a \o b) = Len(a) + Len(b)
        /\ \A k \in 1..(Len(a) + Len(b)) : (a \o b)[k] = IF k <= Len(a) THEN a[k] ELSE b[k - Len(a)]
BY ConcatProperties

\* A quoted text, mark by mark.
LEMMA QuotedMarks ==
    ASSUME NEW s \in Seq(Bytes), NEW ascii \in BOOLEAN
    PROVE  LET e == Escaped(s, ascii)
               text == Quoted(s, ascii)
           IN  /\ text \in Seq(Marks) /\ Len(text) = Len(e) + 2 /\ text[1] = Byte(Quote)
               /\ text[Len(e) + 2] = Byte(Quote) /\ \A p \in 1..Len(e) : text[p + 1] = e[p]
<1> DEFINE e == Escaped(s, ascii)
           mark == Byte(Quote)
           head == <<mark>> \o e
           text == head \o <<mark>>
<1>1. e \in Seq(Marks) /\ Len(e) \in Nat
  BY EscapedType
<1>2. mark \in Marks
  BY MarkTypes DEF Quote
<1>3. text = Quoted(s, ascii)
  BY DEF Quoted
<1> HIDE DEF e, mark
<1>4. /\ <<mark>> \in Seq(Marks) /\ Len(<<mark>>) = 1 /\ <<mark>>[1] = mark
  BY <1>2
<1>5. /\ head \in Seq(Marks) /\ Len(head) = 1 + Len(e) /\ head[1] = mark
      /\ \A p \in 1..Len(e) : head[p + 1] = e[p]
  <2>1. /\ head \in Seq(Marks) /\ Len(head) = 1 + Len(e)
        /\ \A k \in 1..(1 + Len(e)) : head[k] = IF k <= 1 THEN <<mark>>[k] ELSE e[k - 1]
    BY <1>1, <1>4, ConcatProperties
  <2> HIDE DEF head
  <2>2. \A p \in 1..Len(e) : p + 1 \in 1..(1 + Len(e)) /\ ~(p + 1 <= 1) /\ (p + 1) - 1 = p
    BY <1>1
  <2>3. 1 \in 1..(1 + Len(e))
    BY <1>1
  <2> QED BY <1>4, <2>1, <2>2, <2>3
<1> HIDE DEF head
<1>6. /\ text \in Seq(Marks) /\ Len(text) = Len(head) + 1
      /\ \A k \in 1..(Len(head) + 1) : text[k] = IF k <= Len(head) THEN head[k] ELSE <<mark>>[k - Len(head)]
  BY <1>4, <1>5, ConcatProperties
<1> HIDE DEF text
<1>7. Len(text) = Len(e) + 2 /\ text[1] = mark
  BY <1>1, <1>5, <1>6
<1>8. text[Len(e) + 2] = mark
  <2>1. Len(e) + 2 \in 1..(Len(head) + 1) /\ ~(Len(e) + 2 <= Len(head)) /\ (Len(e) + 2) - Len(head) = 1
    BY <1>1, <1>5
  <2> QED BY <1>4, <1>6, <2>1
<1>9. ASSUME NEW p \in 1..Len(e) PROVE text[p + 1] = e[p]
  <2>1. p + 1 \in 1..(Len(head) + 1) /\ p + 1 <= Len(head)
    BY <1>1, <1>5
  <2> QED BY <1>5, <1>6, <2>1
<1> QED BY <1>3, <1>6, <1>7, <1>8, <1>9 DEF e, mark

\* It is found in a text that goes on before and after it.
LEMMA QuotedInText ==
    ASSUME NEW s \in Seq(Bytes), NEW ascii \in BOOLEAN,
           NEW before \in Seq(Marks), NEW after \in Seq(Marks)
    PROVE  /\ before \o Quoted(s, ascii) \o after \in Seq(Marks)
           /\ HasText(before \o Quoted(s, ascii) \o after, Len(before) + 2, Escaped(s, ascii))
<1> DEFINE e == Escaped(s, ascii)
           text == Quoted(s, ascii)
           h == before \o text
           t == h \o after
           b == Len(before)
           i == b + 2
<1>1. e \in Seq(Marks) /\ Len(e) \in Nat /\ b \in Nat /\ Len(after) \in Nat
  BY EscapedType
<1>2. /\ text \in Seq(Marks) /\ Len(text) = Len(e) + 2
      /\ text[Len(e) + 2] = Byte(Quote) /\ \A p \in 1..Len(e) : text[p + 1] = e[p]
  BY QuotedMarks
<1> HIDE DEF e, text
<1>3. /\ h \in Seq(Marks) /\ Len(h) = b + Len(text)
      /\ \A k \in 1..(b + Len(text)) : h[k] = IF k <= b THEN before[k] ELSE text[k - b]
  BY <1>2, ConcatProperties
<1> HIDE DEF h
<1>4. /\ t \in Seq(Marks) /\ Len(t) = Len(h) + Len(after)
      /\ \A k \in 1..(Len(h) + Len(after)) : t[k] = IF k <= Len(h) THEN h[k] ELSE after[k - Len(h)]
  BY <1>3, JoinedMarks, Zenon
<1> HIDE DEF t
<1>5. ASSUME NEW p \in 2..(Len(e) + 2) PROVE t[b + p] = text[p]
  <2>1. /\ b + p \in 1..(b + Len(text)) /\ ~(b + p <= b) /\ (b + p) - b = p
        /\ b + p \in 1..(Len(h) + Len(after)) /\ b + p <= Len(h)
    BY <1>1, <1>2, <1>3
  <2> QED BY <1>3, <1>4, <2>1
<1> HIDE DEF b
<1>6. i + Len(e) <= Len(t)
  BY <1>1, <1>2, <1>3, <1>4
<1>7. t[i + Len(e)] = Byte(Quote)
  <2>1. Len(e) + 2 \in 2..(Len(e) + 2) /\ b + (Len(e) + 2) = i + Len(e)
    BY <1>1
  <2> QED BY <1>2, <1>5, <2>1
<1>8. ASSUME NEW p \in 1..Len(e) PROVE t[i + p - 1] = e[p]
  <2>1. p + 1 \in 2..(Len(e) + 2) /\ b + (p + 1) = i + p - 1
    BY <1>1
  <2>2. t[b + (p + 1)] = text[p + 1]
    BY <1>5, <2>1
  <2>3. t[i + p - 1] = text[p + 1]
    BY <2>1, <2>2
  <2> QED BY <1>2, <2>3
<1>9. HasText(t, i, e)
  BY <1>6, <1>7, <1>8 DEF HasText
<1> QED BY <1>4, <1>9 DEF t, h, text, e, b

\* What dump_json writes of a string, parse_json reads back to its closing quote,
\* whatever precedes and follows it: in the default mode every string, escaped to
\* ASCII every string that is UTF-8, comes back as it was; escaped to ASCII any
\* string comes back as some string unless a high surrogate was encoded in it.
THEOREM StringsSurvive ==
    ASSUME NEW s \in Seq(Bytes), NEW ascii \in BOOLEAN,
           NEW before \in Seq(Marks), NEW after \in Seq(Marks)
    PROVE  LET read == ReadString(before \o Quoted(s, ascii) \o after, Len(before) + 2)
               next == Len(before) + Len(Quoted(s, ascii)) + 1
           IN  /\ ~ascii \/ WellFormed(s) => read = Got(String(s), next)
               /\ ~ascii \/ ~HoldsSurrogate(s) => \E x \in Seq(Int) : read = Got(String(x), next)
<1> DEFINE t == before \o Quoted(s, ascii) \o after
           i == Len(before) + 2
           e == Escaped(s, ascii)
           next == Len(before) + Len(Quoted(s, ascii)) + 1
           IsRead(x) == ReadString(t, i) = Got(String(x), next)
<1>1. t \in Seq(Marks) /\ HasText(t, i, e) /\ i \in Nat /\ i >= 1
  BY QuotedInText
<1>2. next = i + Len(e) + 1
  <2>1. Len(Quoted(s, ascii)) = Len(e) + 2 /\ Len(e) \in Nat /\ Len(before) \in Nat
    BY QuotedMarks, EscapedType
  <2> HIDE DEF e
  <2> QED BY <2>1
<1> HIDE DEF t, i
<1>3. ASSUME NEW whole, NEW starts, whole => Faithful(s, ascii, starts),
             \A j \in 1..Len(s) : (whole => j \in starts) => Readable(s, j, ascii)
      PROVE  \E x \in Seq(Int) : IsRead(x) /\ (whole => x = s)
  <2>1. ReadsBack(t, i, s, e, whole)
    <3> HIDE DEF e
    <3>1. HasText(t, i, Escaped(s, ascii))
      BY <1>1 DEF e
    <3>2. ReadsBack(t, i, s, Escaped(s, ascii), whole)
      BY <1>1, <1>3, <3>1, TextIsRead
    <3> QED BY <3>2, Zenon DEF e
  <2> QED BY <1>2, <2>1 DEF ReadsBack
<1> HIDE DEF IsRead
<1>4. ASSUME ~ascii PROVE IsRead(s)
  <2>1. Faithful(s, ascii, 1..(Len(s) + 1))
    BY <1>4, BytesAreFaithful
  <2>2. \A j \in 1..Len(s) : Readable(s, j, ascii)
    BY <1>4 DEF Readable
  <2>3. \E x \in Seq(Int) : IsRead(x) /\ (TRUE => x = s)
    BY <1>3, <2>1, <2>2
  <2> QED BY <2>3
<1>5. ASSUME ascii, WellFormed(s) PROVE IsRead(s)
  <2>1. PICK starts : /\ Faithful(s, ascii, starts)
                      /\ \A j \in 1..Len(s) : j \in starts => Readable(s, j, ascii)
    BY <1>5, CharactersAreFaithful
  <2>2. \E x \in Seq(Int) : IsRead(x) /\ (TRUE => x = s)
    BY <1>3, <2>1
  <2> QED BY <2>2
<1>6. ASSUME ascii, ~HoldsSurrogate(s) PROVE \E x \in Seq(Int) : IsRead(x)
  <2>1. \A j \in 1..Len(s) : Readable(s, j, ascii)
    BY <1>6 DEF HoldsSurrogate, Readable
  <2>2. \E x \in Seq(Int) : IsRead(x) /\ (FALSE => x = s)
    BY <1>3, <2>1
  <2> QED BY <2>2
<1>7. s \in Seq(Int)
  BY ByteNumbers
<1> QED BY <1>4, <1>5, <1>6, <1>7 DEF IsRead, t, i

\* Without a quote ahead no string is read.
LEMMA NeverClosed ==
    ASSUME NEW t \in Seq(Marks), NEW i \in Nat, i >= 1,
           \A p \in 1..Len(t) : p >= i => t[p] # Byte(Quote)
    PROVE  ReadString(t, i) = NotRead
<1>1. PICK r : Reads(r, t, i)
  BY ReadsLoop
<1> DEFINE n == Len(t)
           Open(v) == v.state # "closed" /\ v.next >= i
           T == {k \in 0..n : Open(r[k])}
<1>2. n \in Nat
  OBVIOUS
<1>3. 0 \in T
  BY <1>1, <1>2 DEF Reads, Reading
<1>4. ASSUME NEW k \in 1..n, k - 1 \in T PROVE k \in T
  <2> DEFINE v == r[k - 1]
             q == v.next
  <2>1. r[k] = ReadTurn(t, v) /\ k \in 0..n /\ k - 1 \in 0..n /\ v \in Readings
    BY <1>1, <1>2 DEF Reads
  <2>2. v.state # "closed" /\ q >= i /\ q \in Nat
    BY <1>4, <2>1 DEF Readings
  <2>3. q <= n => t[q] # Byte(Quote)
    BY <1>2, <2>2
  <2> HIDE DEF v
  <2>4. ~(q > n) => q <= n
    BY <1>2, <2>2
  <2>5. q + 1 >= i /\ q + 2 >= i
    BY <2>2
  <2>6. \A x : /\ Open(Reading("inside", q + 1, x)) /\ Open(Reading("inside", q + 2, x))
               /\ Open(Reading("failed", q, x))
    BY <2>2, <2>5 DEF Reading
  <2>7. Open(v)
    BY <2>2
  <2> HIDE DEF Open
  <2>8. Open(ReadTurn(t, v))
    BY <2>3, <2>4, <2>6, <2>7 DEF ReadTurn
  <2> QED BY <2>1, <2>8
<1> HIDE DEF T
<1>5. 0..n \subseteq T
  BY <1>2, <1>3, <1>4, UpTo
<1>6. r[n].state # "closed"
  BY <1>2, <1>5 DEF T
<1> QED BY <1>1, <1>6 DEF Reads, Outcome

\* A string whose text ends before its closing quote is refused: parse_json never
\* takes a text that was cut off for the one that was written.
THEOREM CutStringsAreRefused ==
    ASSUME NEW s \in Seq(Bytes), NEW ascii \in BOOLEAN, NEW before \in Seq(Marks),
           NEW n \in 1..(Len(Quoted(s, ascii)) - 1)
    PROVE  ReadString(before \o SubSeq(Quoted(s, ascii), 1, n), Len(before) + 2) = NotRead
<1> DEFINE e == Escaped(s, ascii)
           text == Quoted(s, ascii)
           cut == SubSeq(text, 1, n)
           b == Len(before)
           t == before \o cut
<1>1. e \in Seq(Marks) /\ Len(e) \in Nat /\ \A p \in 1..Len(e) : e[p] # Byte(Quote)
  BY EscapedType
<1>2. /\ text \in Seq(Marks) /\ Len(text) = Len(e) + 2
      /\ \A p \in 1..Len(e) : text[p + 1] = e[p]
  BY QuotedMarks
<1> HIDE DEF e, text
<1>3. n \in 1..(Len(e) + 1) /\ n \in Nat /\ n <= Len(text)
  BY <1>1, <1>2 DEF text
<1>4. cut \in Seq(Marks) /\ Len(cut) = n /\ \A k \in 1..n : cut[k] = text[k]
  <2>1. /\ cut \in Seq(Marks) /\ Len(cut) = IF 1 <= n THEN n - 1 + 1 ELSE 0
        /\ \A k \in 1..(n - 1 + 1) : cut[k] = text[1 + k - 1]
    BY <1>1, <1>2, <1>3, SubSeqProperties
  <2> HIDE DEF cut
  <2>2. n - 1 + 1 = n /\ 1 <= n /\ \A k \in 1..n : 1 + k - 1 = k
    BY <1>3
  <2> QED BY <2>1, <2>2
<1> HIDE DEF cut
<1>5. /\ t \in Seq(Marks) /\ Len(t) = b + n /\ b \in Nat
      /\ \A k \in 1..(b + n) : t[k] = IF k <= b THEN before[k] ELSE cut[k - b]
  <2>1. /\ t \in Seq(Marks) /\ Len(t) = b + Len(cut)
        /\ \A k \in 1..(b + Len(cut)) : t[k] = IF k <= b THEN before[k] ELSE cut[k - b]
    BY <1>4, JoinedMarks, Zenon
  <2>2. b \in Nat
    OBVIOUS
  <2> HIDE DEF t, b
  <2> QED BY <1>4, <2>1, <2>2
<1> HIDE DEF t, b
<1>6. ASSUME NEW p \in 1..Len(t), p >= b + 2 PROVE t[p] # Byte(Quote)
  <2>1. /\ p \in 1..(b + n) /\ ~(p <= b) /\ p - b \in 1..n
        /\ p - b - 1 \in 1..Len(e) /\ (p - b - 1) + 1 = p - b
    BY <1>1, <1>3, <1>5, <1>6
  <2>2. t[p] = cut[p - b] /\ cut[p - b] = text[p - b]
    BY <1>4, <1>5, <2>1
  <2>3. text[p - b] = e[p - b - 1] /\ e[p - b - 1] # Byte(Quote)
    BY <1>1, <1>2, <2>1
  <2> QED BY <2>2, <2>3
<1>7. ReadString(t, b + 2) = NotRead
  <2>1. b + 2 \in Nat /\ b + 2 >= 1
    BY <1>5
  <2> QED BY <1>5, <1>6, <2>1, NeverClosed
<1> QED BY <1>7 DEF t, b, cut, text
=============================================================================
