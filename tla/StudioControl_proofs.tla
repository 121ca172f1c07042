------------------------ MODULE StudioControl_proofs ------------------------
(***************************************************************************)
(* Theorems about StudioControl, for any takes, any number of overlapping  *)
(* calls, and any numbers of commands, crashes, lost messages, failed      *)
(* appends and uses of the command line tool.                              *)
(***************************************************************************)
EXTENDS StudioControl, SequenceTheorems, WellFoundedInduction, TLAPS

-----------------------------------------------------------------------------
(* What an append, an interrupted append and a repair do to the records of *)
(* a journal, of any length over any set of records.                       *)

LEMMA AppendElements ==
  ASSUME NEW S, NEW s \in Seq(S), NEW e \in S
  PROVE  ToSet(Append(s, e)) = ToSet(s) \cup {e}
<1>1. /\ Append(s, e) \in Seq(S)
      /\ Len(Append(s, e)) = Len(s) + 1
      /\ DOMAIN Append(s, e) = 1 .. Len(s) + 1
      /\ DOMAIN s = 1 .. Len(s)
      /\ Len(s) \in Nat
  BY AppendProperties, LenProperties
<1>2. /\ \A i \in 1 .. Len(s) : Append(s, e)[i] = s[i]
      /\ Append(s, e)[Len(s) + 1] = e
  BY AppendProperties
<1>3. ASSUME NEW x \in ToSet(Append(s, e)) PROVE x \in ToSet(s) \cup {e}
  <2>1. PICK i \in 1 .. Len(s) + 1 : x = Append(s, e)[i]
    BY <1>1, <1>3 DEF ToSet
  <2>2. i \in 1 .. Len(s) \/ i = Len(s) + 1
    BY <1>1, <2>1
  <2> QED BY <1>1, <1>2, <2>1, <2>2 DEF ToSet
<1>4. ASSUME NEW x \in ToSet(s) \cup {e} PROVE x \in ToSet(Append(s, e))
  <2>1. CASE x = e
    <3>1. Len(s) + 1 \in DOMAIN Append(s, e)
      BY <1>1
    <3> QED BY <1>2, <2>1, <3>1 DEF ToSet
  <2>2. CASE x \in ToSet(s)
    <3>1. PICK i \in 1 .. Len(s) : x = s[i]
      BY <1>1, <2>2 DEF ToSet
    <3>2. i \in DOMAIN Append(s, e)
      BY <1>1, <3>1
    <3> QED BY <1>2, <3>1, <3>2 DEF ToSet
  <2> QED BY <1>4, <2>1, <2>2
<1> QED BY <1>3, <1>4

LEMMA ElementsInRange ==
  ASSUME NEW S, NEW s \in Seq(S)
  PROVE  ToSet(s) \subseteq S
BY ElementOfSeq, LenProperties DEF ToSet

LEMMA FrontElements ==
  ASSUME NEW S, NEW s \in Seq(S), s # <<>>
  PROVE  /\ Front(s) \in Seq(S)
         /\ Last(s) \in S
         /\ ToSet(s) = ToSet(Front(s)) \cup {Last(s)}
<1>1. /\ Len(s) \in Nat
      /\ Len(s) > 0
      /\ DOMAIN s = 1 .. Len(s)
  BY LenProperties, EmptySeq
<1>2. /\ Front(s) \in Seq(S)
      /\ Len(Front(s)) = Len(s) - 1
      /\ \A i \in 1 .. Len(s) - 1 : Front(s)[i] = s[i]
  BY <1>1, SubSeqProperties, ElementOfSeq DEF Front
<1>3. DOMAIN Front(s) = 1 .. Len(s) - 1
  BY <1>2, LenProperties
<1>4. Last(s) = s[Len(s)] /\ Last(s) \in S
  BY <1>1, ElementOfSeq DEF Last
<1>5. ASSUME NEW x \in ToSet(s) PROVE x \in ToSet(Front(s)) \cup {Last(s)}
  <2>1. PICK i \in 1 .. Len(s) : x = s[i]
    BY <1>1, <1>5 DEF ToSet
  <2>2. i \in 1 .. Len(s) - 1 \/ i = Len(s)
    <3> DEFINE n == Len(s)
    <3>1. n \in Nat /\ i \in 1 .. n
      BY <1>1, <2>1
    <3> HIDE DEF n
    <3> QED BY <3>1
  <2> QED BY <1>2, <1>3, <1>4, <2>1, <2>2 DEF ToSet
<1>6. ASSUME NEW x \in ToSet(Front(s)) \cup {Last(s)} PROVE x \in ToSet(s)
  <2>1. CASE x \in ToSet(Front(s))
    <3>1. PICK i \in 1 .. Len(s) - 1 : x = Front(s)[i]
      BY <1>3, <2>1 DEF ToSet
    <3>2. i \in 1 .. Len(s) /\ Front(s)[i] = s[i]
      BY <1>1, <1>2, <3>1
    <3> QED BY <1>1, <3>1, <3>2 DEF ToSet
  <2>2. CASE x = Last(s)
    BY <1>1, <1>4, <2>2 DEF ToSet
  <2> QED BY <1>6, <2>1, <2>2
<1> QED BY <1>2, <1>4, <1>5, <1>6

LEMMA EmptyJournalType ==
  ASSUME NEW R
  PROVE  /\ EmptyJournal \in JournalOf(R)
         /\ Records(EmptyJournal) = {}
BY EmptySeq DEF EmptyJournal, JournalOf, TailState, Records, ToSet

(***************************************************************************)
(* What holds of every journal the stores write: a record that still lacks *)
(* its newline is there, and parses.                                       *)
(***************************************************************************)
LastIsRecord(j) == j.tail = "whole" => j.lines # <<>> /\ Last(j.lines) # Corrupt

LEMMA AppendRecordType ==
  ASSUME NEW R, NEW j \in JournalOf(R), NEW r \in R
  PROVE  AppendRecord(j, r) \in JournalOf(R)
<1>1. /\ j.lines \in Seq(R \cup {Corrupt})
      /\ j.tail \in TailState
  BY DEF JournalOf
<1>2. Front(j.lines) \in Seq(R \cup {Corrupt})
  <2>1. CASE j.lines = <<>>
    <3>1. Len(j.lines) = 0
      BY <2>1, EmptySeq
    <3>2. SubSeq(j.lines, 1, -1) = <<>>
      BY SubSeqEmpty
    <3> QED BY <3>1, <3>2, EmptySeq DEF Front
  <2>2. CASE j.lines # <<>>
    BY <1>1, <2>2, FrontElements
  <2> QED BY <2>1, <2>2
<1>3. \A s \in Seq(R \cup {Corrupt}), e \in R \cup {Corrupt} :
        Append(s, e) \in Seq(R \cup {Corrupt})
  BY AppendProperties
<1> QED BY <1>1, <1>2, <1>3 DEF AppendRecord, JournalOf, TailState

LEMMA InterruptedAppendType ==
  ASSUME NEW R, NEW j \in JournalOf(R), NEW r \in R, NEW k \in InterruptedAppend(j, r)
  PROVE  k \in JournalOf(R)
<1>1. /\ j.lines \in Seq(R \cup {Corrupt})
      /\ j.tail \in TailState
  BY DEF JournalOf
<1>2. Front(j.lines) \in Seq(R \cup {Corrupt})
  <2>1. CASE j.lines = <<>>
    <3>1. Len(j.lines) = 0
      BY <2>1, EmptySeq
    <3>2. SubSeq(j.lines, 1, -1) = <<>>
      BY SubSeqEmpty
    <3> QED BY <3>1, <3>2, EmptySeq DEF Front
  <2>2. CASE j.lines # <<>>
    BY <1>1, <2>2, FrontElements
  <2> QED BY <2>1, <2>2
<1>3. Append(j.lines, r) \in Seq(R \cup {Corrupt})
  BY <1>1, AppendProperties
<1>4. AppendRecord(j, r) \in JournalOf(R)
  BY AppendRecordType
<1>5. \/ k = j
      \/ k = AppendRecord(j, r)
      \/ k = [lines |-> j.lines, tail |-> "torn"]
      \/ k = [lines |-> Append(j.lines, r), tail |-> "whole"]
      \/ k = [lines |-> Front(j.lines), tail |-> "torn"]
  BY <1>1 DEF InterruptedAppend, TailState
<1>6. \A s \in Seq(R \cup {Corrupt}), t \in TailState :
        [lines |-> s, tail |-> t] \in JournalOf(R)
  BY DEF JournalOf
<1> QED BY <1>1, <1>2, <1>3, <1>4, <1>5, <1>6 DEF TailState

(***************************************************************************)
(* An append adds its record and nothing else, and loses no record but one *)
(* that lacked its newline; a record it does not add is replaced by a line *)
(* that will be refused.  append_jsonl writes without looking at the tail. *)
(***************************************************************************)
LEMMA AppendRecordEffect ==
  ASSUME NEW R, NEW j \in JournalOf(R), NEW r \in R, LastIsRecord(j)
  PROVE  /\ Records(AppendRecord(j, r)) \subseteq Records(j) \cup {r, Corrupt}
         /\ AppendRecord(j, r).tail = "none"
         /\ \A x \in Records(j) : x \in Records(AppendRecord(j, r))
                                   \/ (j.tail = "whole" /\ x = Last(j.lines))
         /\ r \in Records(AppendRecord(j, r)) \/ Corrupt \in Records(AppendRecord(j, r))
         /\ j.tail = "none" => Records(AppendRecord(j, r)) = Records(j) \cup {r}
<1> DEFINE L == j.lines
<1>1. L \in Seq(R \cup {Corrupt}) /\ j.tail \in TailState
  BY DEF JournalOf
<1>2. CASE j.tail = "none"
  <2>1. AppendRecord(j, r) = [lines |-> Append(L, r), tail |-> "none"]
    BY <1>2 DEF AppendRecord
  <2>2. ToSet(Append(L, r)) = ToSet(L) \cup {r}
    BY <1>1, AppendElements
  <2> QED BY <1>2, <2>1, <2>2 DEF Records
<1>3. CASE j.tail = "torn"
  <2>1. AppendRecord(j, r) = [lines |-> Append(L, Corrupt), tail |-> "none"]
    BY <1>3 DEF AppendRecord
  <2>2. ToSet(Append(L, Corrupt)) = ToSet(L) \cup {Corrupt}
    BY <1>1, AppendElements
  <2> QED BY <1>3, <2>1, <2>2 DEF Records
<1>4. CASE j.tail = "whole"
  <2>1. AppendRecord(j, r) = [lines |-> Append(Front(L), Corrupt), tail |-> "none"]
    BY <1>4 DEF AppendRecord
  <2>2. /\ Front(L) \in Seq(R \cup {Corrupt})
        /\ ToSet(L) = ToSet(Front(L)) \cup {Last(L)}
    BY <1>1, <1>4, FrontElements DEF LastIsRecord
  <2>3. ToSet(Append(Front(L), Corrupt)) = ToSet(Front(L)) \cup {Corrupt}
    BY <2>2, AppendElements
  <2> QED BY <1>4, <2>1, <2>2, <2>3 DEF Records
<1> QED BY <1>1, <1>2, <1>3, <1>4 DEF TailState

(***************************************************************************)
(* The same of an append that stops part-way; what it leaves without a     *)
(* newline is the record it was appending, on a journal that was clean, or *)
(* what an earlier one left.                                               *)
(***************************************************************************)
LEMMA InterruptedAppendEffect ==
  ASSUME NEW R, NEW j \in JournalOf(R), NEW r \in R, Corrupt \notin R, LastIsRecord(j),
         NEW k \in InterruptedAppend(j, r)
  PROVE  /\ Records(k) \subseteq Records(j) \cup {r, Corrupt}
         /\ LastIsRecord(k)
         /\ k.tail = "whole" => k = j \/ Last(k.lines) = r
         /\ \A x \in Records(j) : x \in Records(k) \/ (j.tail = "whole" /\ x = Last(j.lines))
         /\ j.tail = "none" => Records(k) \subseteq Records(j) \cup {r}
<1> DEFINE L == j.lines
<1>1. L \in Seq(R \cup {Corrupt}) /\ j.tail \in TailState
  BY DEF JournalOf
<1>2. CASE k = j
  BY <1>2
<1>3. CASE k = AppendRecord(j, r)
  BY <1>3, AppendRecordEffect DEF LastIsRecord
<1>4. CASE j.tail = "none" /\ k = [lines |-> L, tail |-> "torn"]
  BY <1>4 DEF LastIsRecord, Records
<1>5. CASE j.tail = "none" /\ k = [lines |-> Append(L, r), tail |-> "whole"]
  <2>1. ToSet(Append(L, r)) = ToSet(L) \cup {r}
    BY <1>1, AppendElements
  <2>2. Append(L, r) # <<>> /\ Last(Append(L, r)) = r
    BY <1>1, AppendProperties DEF Last
  <2> QED BY <1>5, <2>1, <2>2 DEF Records, LastIsRecord
<1>6. CASE j.tail = "whole" /\ k = [lines |-> Front(L), tail |-> "torn"]
  <2>1. ToSet(L) = ToSet(Front(L)) \cup {Last(L)}
    BY <1>1, <1>6, FrontElements DEF LastIsRecord
  <2> QED BY <1>6, <2>1 DEF Records, LastIsRecord
<1> QED BY <1>1, <1>2, <1>3, <1>4, <1>5, <1>6 DEF InterruptedAppend, TailState

\* Repairing a journal changes none of its records.
LEMMA RepairedEffect ==
  ASSUME NEW R, NEW j \in JournalOf(R)
  PROVE  /\ Repaired(j) \in JournalOf(R)
         /\ Repaired(j).lines = j.lines
         /\ Records(Repaired(j)) = Records(j)
         /\ LastIsRecord(Repaired(j))
BY DEF Repaired, JournalOf, TailState, Records, LastIsRecord

\* A journal that is read holds records only.
LEMMA ReadableEffect ==
  ASSUME NEW R, NEW j \in JournalOf(R), Readable(j)
  PROVE  /\ j.lines \in Seq(R)
         /\ Records(j) \subseteq R
<1>1. /\ j.lines \in Seq(R \cup {Corrupt})
      /\ Len(j.lines) \in Nat
      /\ DOMAIN j.lines = 1 .. Len(j.lines)
  BY LenProperties DEF JournalOf
<1>2. \A i \in 1 .. Len(j.lines) : j.lines[i] \in R \cup {Corrupt} /\ j.lines[i] # Corrupt
  BY <1>1, ElementOfSeq DEF Readable, Records, ToSet
<1>3. \A i \in 1 .. Len(j.lines) : j.lines[i] \in R
  BY <1>2
<1>4. j.lines \in Seq(R)
  BY <1>1, <1>3
<1> QED BY <1>1, <1>3, <1>4 DEF Records, ToSet

-----------------------------------------------------------------------------
(* The replay of a journal.  StateAfter is defined by recursion over the   *)
(* commands: that its equations hold, and that it depends only on the      *)
(* commands it replays, is shown with a least counterexample.              *)

LEMMA Smallest ==
  ASSUME NEW T, T \subseteq Nat, T # {}
  PROVE  \E x \in T : \A y \in T : x <= y
<1>1. PICK x \in T : \A y \in T : ~ (<<y, x>> \in OpToRel(<, Nat))
  BY NatLessThanWellFounded, WFMin
<1>2. \A y \in T : <<y, x>> \in OpToRel(<, Nat) <=> y < x
  BY DEF OpToRel
<1>3. \A y \in T : ~(y < x)
  BY <1>1, <1>2, Zenon
<1> HIDE <1>1, <1>2
<1> QED BY <1>3

\* f holds the states after the first 0 .. n commands of cmds.
Replays(f, cmds, n) ==
  f = [i \in 0 .. n |-> IF i = 0 THEN NewState ELSE Effect(f[i - 1], cmds[i])]

LEMMA ReplayExists ==
  ASSUME NEW cmds
  PROVE  \A n \in Nat : \E f : Replays(f, cmds, n)
<1> DEFINE T == {n \in Nat : ~ \E f : Replays(f, cmds, n)}
<1> SUFFICES ASSUME T # {} PROVE FALSE
  OBVIOUS
<1>1. PICK n \in T : \A m \in T : n <= m
  <2>1. T \subseteq Nat
    OBVIOUS
  <2> HIDE DEF T
  <2> QED BY <2>1, Smallest
<1>2. CASE n = 0
  <2> DEFINE f == [i \in 0 .. 0 |-> NewState]
  <2>1. f = [i \in 0 .. 0 |-> IF i = 0 THEN NewState ELSE Effect(f[i - 1], cmds[i])]
    OBVIOUS
  <2> QED BY <1>2, <2>1 DEF Replays
<1>3. CASE n # 0
  <2>1. n \in Nat /\ n - 1 \in Nat /\ n - 1 \notin T
    BY <1>1, <1>3
  <2>2. PICK g : Replays(g, cmds, n - 1)
    BY <2>1
  <2> DEFINE f == [i \in 0 .. n |-> IF i = n THEN Effect(g[n - 1], cmds[n]) ELSE g[i]]
  <2>3. ASSUME NEW i \in 0 .. n
        PROVE  f[i] = IF i = 0 THEN NewState ELSE Effect(f[i - 1], cmds[i])
    <3>1. g = [j \in 0 .. n - 1 |-> IF j = 0 THEN NewState ELSE Effect(g[j - 1], cmds[j])]
      BY <2>2 DEF Replays
    <3>2. CASE i = n
      <4>1. n - 1 \in 0 .. n /\ f[n - 1] = g[n - 1]
        BY <2>1
      <4> QED BY <1>3, <3>2, <4>1
    <3>3. CASE i # n
      <4>1. i \in 0 .. n - 1 /\ f[i] = g[i]
        BY <2>1, <3>3
      <4>2. g[i] = IF i = 0 THEN NewState ELSE Effect(g[i - 1], cmds[i])
        BY <3>1, <4>1
      <4>3. i # 0 => f[i - 1] = g[i - 1]
        BY <2>1, <3>3
      <4> QED BY <4>1, <4>2, <4>3
    <3> QED BY <3>2, <3>3
  <2>4. f = [i \in 0 .. n |-> IF i = 0 THEN NewState ELSE Effect(f[i - 1], cmds[i])]
    <3> DEFINE h == [i \in 0 .. n |-> IF i = 0 THEN NewState ELSE Effect(f[i - 1], cmds[i])]
    <3>1. \A i \in 0 .. n : h[i] = f[i]
      BY <2>3
    <3>2. DOMAIN f = 0 .. n /\ f = [i \in DOMAIN f |-> f[i]]
      OBVIOUS
    <3> HIDE DEF f
    <3> QED BY <2>3, <3>2
  <2> QED BY <1>1, <2>4 DEF Replays
<1> QED BY <1>2, <1>3

\* s and t have the same first m commands.
Same(s, t, m) == \A i \in 1 .. m : s[i] = t[i]

\* Two replays agree as far as their commands do.
LEMMA ReplaysAgree ==
  ASSUME NEW m \in Nat, NEW n \in Nat, NEW s, NEW t, Same(s, t, m), m <= n,
         NEW f, NEW g, Replays(f, s, m), Replays(g, t, n)
  PROVE  \A i \in 0 .. m : f[i] = g[i]
<1> DEFINE T == {i \in 0 .. m : f[i] # g[i]}
<1> SUFFICES ASSUME T # {} PROVE FALSE
  OBVIOUS
<1>1. PICK k \in T : \A j \in T : k <= j
  <2>1. T \subseteq Nat
    OBVIOUS
  <2> HIDE DEF T
  <2> QED BY <2>1, Smallest
<1>2. k \in 0 .. m /\ k \in 0 .. n /\ f[k] # g[k]
  BY <1>1
<1>3. /\ f[k] = IF k = 0 THEN NewState ELSE Effect(f[k - 1], s[k])
      /\ g[k] = IF k = 0 THEN NewState ELSE Effect(g[k - 1], t[k])
  BY <1>2 DEF Replays
<1>4. CASE k = 0
  BY <1>2, <1>3, <1>4
<1>5. CASE k # 0
  <2>1. k \in 1 .. m /\ k - 1 \in 0 .. m /\ ~(k <= k - 1)
    BY <1>2, <1>5
  <2>2. f[k - 1] = g[k - 1]
    BY <1>1, <2>1
  <2> QED BY <1>2, <1>3, <1>5, <2>1, <2>2 DEF Same
<1> QED BY <1>4, <1>5

LEMMA StateAfterReplay ==
  ASSUME NEW cmds, NEW n \in Nat
  PROVE  \E f : Replays(f, cmds, n) /\ StateAfter(cmds, n) = f[n]
<1> DEFINE F == CHOOSE f : f = [i \in 0 .. n |-> IF i = 0 THEN NewState
                                                 ELSE Effect(f[i - 1], cmds[i])]
<1>1. StateAfter(cmds, n) = F[n]
  BY DEF StateAfter
<1>2. Replays(F, cmds, n)
  BY ReplayExists DEF Replays
<1> QED BY <1>1, <1>2

\* The state depends on the commands that were replayed, and on no later ones.
LEMMA SameReplay ==
  ASSUME NEW n \in Nat, NEW s, NEW t, Same(s, t, n)
  PROVE  StateAfter(s, n) = StateAfter(t, n)
<1>1. PICK f : Replays(f, s, n) /\ StateAfter(s, n) = f[n]
  BY StateAfterReplay
<1>2. PICK g : Replays(g, t, n) /\ StateAfter(t, n) = g[n]
  BY StateAfterReplay
<1>3. n \in 0 .. n /\ n <= n
  OBVIOUS
<1> QED BY <1>1, <1>2, <1>3, ReplaysAgree

LEMMA StateAfterNone ==
  ASSUME NEW cmds
  PROVE  StateAfter(cmds, 0) = NewState
<1>1. PICK f : Replays(f, cmds, 0) /\ StateAfter(cmds, 0) = f[0]
  BY StateAfterReplay
<1> QED BY <1>1 DEF Replays

LEMMA StateAfterNext ==
  ASSUME NEW cmds, NEW n \in Nat
  PROVE  StateAfter(cmds, n + 1) = Effect(StateAfter(cmds, n), cmds[n + 1])
<1>1. PICK f : Replays(f, cmds, n) /\ StateAfter(cmds, n) = f[n]
  BY StateAfterReplay
<1>2. PICK g : Replays(g, cmds, n + 1) /\ StateAfter(cmds, n + 1) = g[n + 1]
  BY StateAfterReplay
<1>3. n \in 0 .. n /\ n <= n + 1 /\ n + 1 \in Nat /\ n + 1 \in 0 .. n + 1 /\ n + 1 # 0 /\ n + 1 - 1 = n
  OBVIOUS
<1>4. f[n] = g[n]
  <2>1. Same(cmds, cmds, n)
    BY DEF Same
  <2>2. \A i \in 0 .. n : f[i] = g[i]
    BY <1>1, <1>2, <1>3, <2>1, ReplaysAgree
  <2> QED BY <1>3, <2>2
<1>5. g[n + 1] = Effect(g[n], cmds[n + 1])
  BY <1>2, <1>3 DEF Replays
<1> QED BY <1>1, <1>2, <1>4, <1>5
-----------------------------------------------------------------------------
(* Types.                                                                  *)

LEMMA PendingFacts ==
  ASSUME NEW s \in Seq(Command), s # <<>>
  PROVE  /\ Head(s) \in Command /\ Head(s) = s[1] /\ Tail(s) \in Seq(Command)
         /\ Len(s) \in Nat \ {0} /\ DOMAIN s = 1 .. Len(s) /\ 1 \in DOMAIN s
         /\ DOMAIN Tail(s) = 1 .. Len(s) - 1
         /\ \A i \in 1 .. Len(s) - 1 : Tail(s)[i] = s[i + 1]
         /\ Tail(s) = <<>> <=> Len(s) = 1
<1>1. /\ Head(s) \in Command /\ Tail(s) \in Seq(Command) /\ Len(Tail(s)) = Len(s) - 1
      /\ \A i \in 1 .. Len(Tail(s)) : Tail(s)[i] = s[i + 1]
  BY HeadTailProperties
<1>2. /\ Len(s) \in Nat \ {0} /\ Head(s) = s[1]
      /\ DOMAIN s = 1 .. Len(s) /\ DOMAIN Tail(s) = 1 .. Len(s) - 1
  BY <1>1, LenProperties, EmptySeq
<1>3. Tail(s) = <<>> <=> Len(Tail(s)) = 0
  BY <1>1, EmptySeq
<1> QED BY <1>1, <1>2, <1>3

LEMMA SuffixFacts ==
  ASSUME NEW s \in Seq(Command), NEW n \in Nat
  PROVE  LET t == SubSeq(s, n + 1, Len(s)) IN
         /\ t \in Seq(Command) /\ DOMAIN t = 1 .. Len(t) /\ Len(t) \in Nat
         /\ \A i \in DOMAIN t : n + i \in 1 .. Len(s) /\ t[i] = s[n + i]
<1> DEFINE t == SubSeq(s, n + 1, Len(s))
<1>1. Len(s) \in Nat /\ \A i \in 1 .. Len(s) : s[i] \in Command
  BY LenProperties, ElementOfSeq
<1>2. \A i \in n + 1 .. Len(s) : s[i] \in Command
  BY <1>1
<1>3. /\ t \in Seq(Command)
      /\ Len(t) = IF n + 1 <= Len(s) THEN Len(s) - (n + 1) + 1 ELSE 0
      /\ \A i \in 1 .. Len(s) - (n + 1) + 1 : t[i] = s[n + 1 + i - 1]
  BY <1>1, <1>2, SubSeqProperties
<1> HIDE DEF t
<1>4. DOMAIN t = 1 .. Len(t) /\ Len(t) \in Nat
  BY <1>3, LenProperties
<1>5. ASSUME NEW i \in 1 .. Len(t) PROVE n + i \in 1 .. Len(s) /\ t[i] = s[n + i]
  <2>1. Len(t) = Len(s) - n /\ n + 1 <= Len(s)
    BY <1>1, <1>3, <1>5
  <2>2. i \in 1 .. Len(s) - (n + 1) + 1 /\ n + 1 + i - 1 = n + i
    BY <1>1, <2>1
  <2> QED BY <1>1, <1>3, <2>1, <2>2
<1> QED BY <1>3, <1>4, <1>5 DEF t

CallType == [step : CallStep, since : 0 .. MaxCommands, pending : Seq(Command)]

\* A call has commands in hand unless it is idle or has not been answered yet.
CallOK(call) ==
  call \in CallType /\ (call.pending = <<>> <=> call.step \in {"idle", "polling"})

StudioTypes ==
  /\ log \in JournalOf(Command) /\ ackLog \in JournalOf(Ack)
  /\ studioUp \in BOOLEAN /\ commands \in Seq(Command) /\ acks \in SUBSET Ack
  /\ tool \in [open : BOOLEAN, commands : Seq(Command)]

DeviceTypes ==
  /\ appUp \in BOOLEAN /\ overlapped \in BOOLEAN /\ run \in 1 .. MaxFaults + 1
  /\ lifecycle \in [state : {"ready", "recording", "paused", "stopped", "complete"},
                    revision : 0 .. MaxCommands, take : Take \cup {NoTake}]
  /\ camera \in [take : Take \cup {NoTake}, accepting : BOOLEAN]

CallTypes == calls \in [Caller -> CallType] /\ \A k \in Caller : CallOK(calls[k])

CounterTypes == faults \in 0 .. MaxFaults /\ errors \in 0 .. MaxErrors /\ tools \in 0 .. MaxTools

\* The app is started once for every time it has died, and once before.
Starts == IF appUp THEN run <= faults + 1 ELSE run <= faults

TypeInv ==
  StudioTypes /\ DeviceTypes /\ CallTypes /\ posts \in SUBSET Ack /\ CounterTypes /\ Starts

LEMMA TypeParts == TypeInv => TypeOK
BY DEF TypeInv, TypeOK, StudioTypes, DeviceTypes, CallTypes, CounterTypes, CallOK, CallType

LEMMA CommandFacts ==
  ASSUME NEW c \in Command
  PROVE  /\ c.revision \in 1 .. MaxCommands /\ c.take \in Take \cup {NoTake}
         /\ c.action \in Action /\ c # Corrupt
         /\ c.take = NoTake <=> c.action = "end"
         /\ c.of # NoTake <=> c.action = "retake"
BY SentinelAssumption DEF Command, Revision

LEMMA IssuableFacts ==
  ASSUME NEW cmds, NEW c \in Issuable(cmds)
  PROVE  c \in Command /\ c.revision = Len(cmds) + 1 /\ Allowed(StateOf(cmds), c)
BY DEF Issuable

LEMMA IdleOK == CallOK(Idle) /\ Idle \in CallType
BY EmptySeq, BoundsAssumption DEF CallOK, Idle, CallType, CallStep

LEMMA TypeInit == Init => TypeInv
<1> SUFFICES ASSUME Init PROVE TypeInv
  OBVIOUS
<1>1. StudioTypes
  BY EmptyJournalType, EmptySeq DEF Init, StudioTypes, NoTool
<1>2. DeviceTypes
  <2>1. run \in 1 .. MaxFaults + 1 /\ appUp \in BOOLEAN /\ overlapped \in BOOLEAN
    <3>1. run = 1 /\ appUp = TRUE /\ overlapped = FALSE
      BY DEF Init
    <3>2. 1 \in 1 .. MaxFaults + 1
      BY BoundsAssumption
    <3> QED BY <3>1, <3>2
  <2>2. NewLifecycle \in [state : {"ready", "recording", "paused", "stopped", "complete"},
                          revision : 0 .. MaxCommands, take : Take \cup {NoTake}]
    BY BoundsAssumption DEF NewLifecycle
  <2>3. NewCamera \in [take : Take \cup {NoTake}, accepting : BOOLEAN]
    BY DEF NewCamera
  <2> QED BY <2>1, <2>2, <2>3 DEF Init, DeviceTypes
<1>3. CallTypes
  BY IdleOK DEF Init, CallTypes
<1> QED BY <1>1, <1>2, <1>3, BoundsAssumption DEF Init, CounterTypes, TypeInv, Starts

\* The calls that end, or go on, when the studio answers or dies.
LEMMA ContinuedOK ==
  ASSUME NEW call, CallOK(call), call.step = "waiting"
  PROVE  CallOK(Continued(call)) /\ Continued(call) \in CallType
<1>1. call.pending \in Seq(Command) /\ call.pending # <<>> /\ call \in CallType
  BY DEF CallOK, CallType
<1>2. Tail(call.pending) \in Seq(Command) /\ (Tail(call.pending) = <<>> <=> Len(call.pending) = 1)
  BY <1>1, PendingFacts
<1>3. CASE Len(call.pending) = 1
  BY <1>3, IdleOK DEF Continued
<1>4. CASE Len(call.pending) # 1
  <2> DEFINE t == Tail(call.pending)
             d == [call EXCEPT !.step = "handling", !.pending = t]
  <2>1. Continued(call) = d /\ t \in Seq(Command) /\ t # <<>>
    BY <1>2, <1>4 DEF Continued
  <2> HIDE DEF t
  <2>2. CallOK(d)
    BY <1>1, <2>1 DEF CallOK, CallType, CallStep
  <2> QED BY <2>1, <2>2 DEF CallOK
<1> QED BY <1>3, <1>4

\* A step of one call, whose commands stay as they are.
LEMMA StepsOK ==
  ASSUME NEW call, CallOK(call), call.step \in {"handling", "applying", "waiting"},
         NEW s \in {"handling", "applying", "waiting"}
  PROVE  CallOK([call EXCEPT !.step = s])
BY DEF CallOK, CallType, CallStep

LEMMA OneCall ==
  ASSUME CallTypes, NEW k \in Caller, NEW call, CallOK(call), calls' = [calls EXCEPT ![k] = call]
  PROVE  CallTypes'
BY DEF CallTypes, CallOK

\* Steps of one side leave the types of the other side's variables alone.
LEMMA StudioSame ==
  ASSUME StudioTypes, UNCHANGED studioVars PROVE StudioTypes'
BY DEF StudioTypes, studioVars

LEMMA DeviceSame ==
  ASSUME DeviceTypes, UNCHANGED <<appUp, run, lifecycle, camera, overlapped>> PROVE DeviceTypes'
BY DEF DeviceTypes

LEMMA CallsSame ==
  ASSUME CallTypes, UNCHANGED calls PROVE CallTypes'
BY DEF CallTypes

LEMMA CommandsGrow ==
  ASSUME NEW s \in Seq(Command), NEW c \in Issuable(s)
  PROVE  Append(s, c) \in Seq(Command)
BY AppendProperties, IssuableFacts

LEMMA NewAck ==
  ASSUME DeviceTypes, NEW c \in Command
  PROVE  [revision |-> c.revision, run |-> run] \in Ack
BY CommandFacts DEF DeviceTypes, Ack, Revision

LEMMA AppliedType ==
  ASSUME DeviceTypes, NEW c \in Command
  PROVE  Applied(c) \in [state : {"ready", "recording", "paused", "stopped", "complete"},
                         revision : 0 .. MaxCommands, take : Take \cup {NoTake}]
<1>1. /\ c.revision \in 0 .. MaxCommands /\ c.take \in Take \cup {NoTake}
      /\ lifecycle.take \in Take \cup {NoTake}
  BY CommandFacts, BoundsAssumption DEF DeviceTypes
<1>2. c.action \in {"start", "pause", "stop", "retake", "end"}
  BY CommandFacts DEF Action
<1>3. CASE c.action = "start"
  BY <1>1, <1>3 DEF Applied
<1>4. CASE c.action = "retake"
  BY <1>1, <1>4 DEF Applied
<1>5. CASE c.action = "pause"
  BY <1>1, <1>5 DEF Applied
<1>6. CASE c.action = "stop"
  BY <1>1, <1>6 DEF Applied
<1>7. CASE c.action = "end"
  BY <1>1, <1>7 DEF Applied
<1> QED BY <1>2, <1>3, <1>4, <1>5, <1>6, <1>7

\* One more fault, and the app as it was.
LEMMA OneFault ==
  ASSUME Starts, DeviceTypes, CounterTypes, faults < MaxFaults, faults' = faults + 1,
         UNCHANGED <<appUp, run, errors, tools>>
  PROVE  Starts' /\ CounterTypes'
<1>1. run \in Nat /\ faults \in Nat /\ MaxFaults \in Nat
  BY BoundsAssumption DEF DeviceTypes, CounterTypes
<1>2. CounterTypes'
  BY <1>1 DEF CounterTypes
<1>3. appUp' <=> appUp
  BY Zenon
<1>4. Starts <=> IF appUp THEN run <= faults + 1 ELSE run <= faults
  BY Zenon DEF Starts
<1>5. Starts' <=> IF appUp THEN run <= faults + 1 + 1 ELSE run <= faults + 1
  BY <1>3 DEF Starts
<1>6. Starts'
  BY <1>1, <1>4, <1>5
<1> QED BY <1>2, <1>6

LEMMA TypeStudio ==
  ASSUME TypeInv, Studio
  PROVE  TypeInv'
<1> USE DEF TypeInv
<1>0. StudioTypes /\ DeviceTypes /\ CallTypes /\ posts \in SUBSET Ack /\ CounterTypes /\ Starts
  OBVIOUS
<1>1. ASSUME NEW c \in Issuable(commands), IssueControl(c) PROVE TypeInv'
  <2>1. StudioTypes'
    BY <1>0, <1>1, CommandsGrow, IssuableFacts, AppendRecordType DEF StudioTypes, IssueControl
  <2>2. DeviceTypes' /\ CallTypes'
    BY <1>0, <1>1, DeviceSame, CallsSame DEF IssueControl, deviceVars
  <2> QED BY <1>0, <1>1, <2>1, <2>2
          DEF IssueControl, CounterTypes, counters, Starts, deviceVars
<1>2. ASSUME NEW c \in Issuable(commands), IssueControlFails(c) PROVE TypeInv'
  <2>1. StudioTypes'
    BY <1>0, <1>2, IssuableFacts, InterruptedAppendType DEF StudioTypes, IssueControlFails
  <2>2. DeviceTypes' /\ CallTypes'
    BY <1>0, <1>2, DeviceSame, CallsSame DEF IssueControlFails, deviceVars
  <2> QED BY <1>0, <1>2, <2>1, <2>2, BoundsAssumption
          DEF IssueControlFails, CounterTypes, Starts, deviceVars
<1>3. ASSUME NEW p \in posts, RecordAck(p) PROVE TypeInv'
  <2>0. p \in Ack /\ posts' \in SUBSET Ack
    BY <1>0, <1>3 DEF RecordAck
  <2>1. StudioTypes'
    BY <1>0, <1>3, <2>0, AppendRecordType DEF StudioTypes, RecordAck
  <2>2. DeviceTypes'
    BY <1>0, <1>3, DeviceSame DEF RecordAck
  <2>3. ASSUME NEW k \in Caller PROVE calls'[k] \in CallType /\ CallOK(calls'[k])
    <3>1. calls[k] \in CallType /\ CallOK(calls[k])
      BY <1>0 DEF CallTypes
    <3>2. CASE AwaitsAck(k, p)
      BY <1>3, <3>1, <3>2, ContinuedOK, IdleOK DEF AwaitsAck, RecordAck
    <3>3. CASE ~AwaitsAck(k, p)
      BY <1>3, <3>1, <3>3 DEF RecordAck
    <3> QED BY <3>2, <3>3
  <2>4. CallTypes'
    BY <1>3, <2>3 DEF CallTypes, RecordAck
  <2> QED BY <1>0, <1>3, <2>0, <2>1, <2>2, <2>4
          DEF RecordAck, CounterTypes, counters, Starts
<1>4. ASSUME NEW p \in posts, RecordAckFails(p) PROVE TypeInv'
  <2>0. p \in Ack /\ posts' \in SUBSET Ack
    BY <1>0, <1>4 DEF RecordAckFails
  <2>1. StudioTypes'
    BY <1>0, <1>4, <2>0, InterruptedAppendType DEF StudioTypes, RecordAckFails
  <2>2. DeviceTypes'
    BY <1>0, <1>4, DeviceSame DEF RecordAckFails
  <2>3. CallTypes'
    BY <1>0, <1>4, IdleOK DEF RecordAckFails, CallTypes
  <2> QED BY <1>0, <1>4, <2>0, <2>1, <2>2, <2>3, BoundsAssumption
          DEF RecordAckFails, CounterTypes, Starts
<1>5. ASSUME StudioCrash PROVE TypeInv'
  <2>1. log' \in JournalOf(Command) /\ ackLog' \in JournalOf(Ack)
    BY <1>0, <1>5, IssuableFacts, InterruptedAppendType DEF StudioTypes, StudioCrash
  <2>2. StudioTypes'
    BY <1>0, <1>5, <2>1, EmptySeq DEF StudioTypes, StudioCrash
  <2>3. DeviceTypes'
    BY <1>0, <1>5, DeviceSame DEF StudioCrash
  <2>4. CallTypes'
    BY <1>0, <1>5, IdleOK DEF StudioCrash, CallTypes
  <2>5. Starts' /\ CounterTypes'
    BY <1>0, <1>5, OneFault DEF StudioCrash
  <2> QED BY <1>5, <2>2, <2>3, <2>4, <2>5 DEF StudioCrash
<1>6. ASSUME StudioReopen PROVE TypeInv'
  <2>1. log.lines \in Seq(Command) /\ Records(ackLog) \subseteq Ack
    BY <1>0, <1>6, ReadableEffect DEF StudioTypes, StudioReopen, Opens
  <2>2. StudioTypes'
    BY <1>0, <1>6, <2>1, RepairedEffect DEF StudioTypes, StudioReopen
  <2>3. DeviceTypes' /\ CallTypes'
    BY <1>0, <1>6, DeviceSame, CallsSame DEF StudioReopen, deviceVars
  <2> QED BY <1>0, <1>6, <2>2, <2>3
          DEF StudioReopen, CounterTypes, counters, Starts, deviceVars
<1>7. ASSUME ToolOpens PROVE TypeInv'
  <2>1. log.lines \in Seq(Command)
    BY <1>0, <1>7, ReadableEffect DEF StudioTypes, ToolOpens, Opens
  <2>2. StudioTypes'
    BY <1>0, <1>7, <2>1, RepairedEffect DEF StudioTypes, ToolOpens
  <2>3. DeviceTypes' /\ CallTypes'
    BY <1>0, <1>7, DeviceSame, CallsSame DEF ToolOpens, deviceVars
  <2> QED BY <1>0, <1>7, <2>2, <2>3, BoundsAssumption
          DEF ToolOpens, CounterTypes, Starts, deviceVars
<1>8. ASSUME NEW c \in Issuable(tool.commands), ToolIssues(c) PROVE TypeInv'
  <2>1. NoTool \in [open : BOOLEAN, commands : Seq(Command)]
    BY EmptySeq DEF NoTool
  <2>2. StudioTypes'
    BY <1>0, <1>8, <2>1, IssuableFacts, AppendRecordType DEF StudioTypes, ToolIssues
  <2>3. DeviceTypes' /\ CallTypes'
    BY <1>0, <1>8, DeviceSame, CallsSame DEF ToolIssues, deviceVars
  <2> QED BY <1>0, <1>8, <2>2, <2>3
          DEF ToolIssues, CounterTypes, counters, Starts, deviceVars
<1> QED BY <1>1, <1>2, <1>3, <1>4, <1>5, <1>6, <1>7, <1>8 DEF Studio

LEMMA TypeDevice ==
  ASSUME TypeInv, Device
  PROVE  TypeInv'
<1> USE DEF TypeInv
<1>0. StudioTypes /\ DeviceTypes /\ CallTypes /\ posts \in SUBSET Ack /\ CounterTypes /\ Starts
  OBVIOUS
<1>1. ASSUME NEW k \in Caller, Poll(k) PROVE TypeInv'
  <2> DEFINE call == [step |-> "polling", since |-> lifecycle.revision, pending |-> <<>>]
  <2>1. lifecycle.revision \in 0 .. MaxCommands
    BY <1>0 DEF DeviceTypes
  <2>2. CallOK(call)
    BY <2>1, EmptySeq DEF CallOK, CallType, CallStep
  <2>3. CallTypes'
    BY <1>0, <1>1, <2>2, OneCall DEF Poll
  <2>4. StudioTypes' /\ DeviceTypes'
    BY <1>0, <1>1, StudioSame DEF Poll, DeviceTypes
  <2> QED BY <1>0, <1>1, <2>3, <2>4 DEF Poll, CounterTypes, counters, Starts
<1>2. ASSUME NEW k \in Caller, Answer(k) PROVE TypeInv'
  <2> DEFINE p == SubSeq(commands, calls[k].since + 1, Len(commands))
             call == IF p = <<>> THEN Idle ELSE [calls[k] EXCEPT !.step = "handling", !.pending = p]
  <2>1. calls[k] \in CallType /\ calls[k].since \in Nat /\ commands \in Seq(Command)
    BY <1>0, BoundsAssumption DEF CallTypes, CallType, StudioTypes
  <2>2. p \in Seq(Command)
    BY <2>1, SuffixFacts
  <2>3. calls' = [calls EXCEPT ![k] = call]
    BY <1>0, <1>2 DEF Answer, CallTypes
  <2> HIDE DEF p
  <2>4. CallOK(call)
    BY <2>1, <2>2, IdleOK DEF CallOK, CallType, CallStep
  <2> HIDE DEF call
  <2>5. CallTypes'
    BY <1>0, <2>3, <2>4, OneCall
  <2>6. StudioTypes' /\ DeviceTypes'
    BY <1>0, <1>2, StudioSame, DeviceSame DEF Answer
  <2> QED BY <1>0, <1>2, <2>5, <2>6 DEF Answer, CounterTypes, counters, Starts
<1>3. ASSUME NEW k \in Caller, RequestFails(k) PROVE TypeInv'
  <2>1. CallTypes'
    BY <1>0, <1>3, IdleOK, OneCall DEF RequestFails
  <2>2. StudioTypes' /\ DeviceTypes' /\ posts' \in SUBSET Ack
    BY <1>0, <1>3, StudioSame, DeviceSame DEF RequestFails
  <2>3. Starts' /\ CounterTypes'
    BY <1>0, <1>3, OneFault DEF RequestFails
  <2> QED BY <2>1, <2>2, <2>3
<1>4. ASSUME NEW k \in Caller, Handle(k) PROVE TypeInv'
  <2> DEFINE c == Head(calls[k].pending)
  <2>1. CallOK(calls[k]) /\ calls[k].step = "handling"
    BY <1>0, <1>4 DEF CallTypes, Handle
  <2>2. c \in Command
    BY <2>1, PendingFacts DEF CallOK, CallType
  <2>3. Handled(c) \in [take : Take \cup {NoTake}, accepting : BOOLEAN]
    BY <1>0, <2>2, CommandFacts DEF DeviceTypes, Handled
  <2>4. CallTypes'
    <3>1. calls' = [calls EXCEPT ![k] = [calls[k] EXCEPT !.step = "applying"]]
      BY <1>0, <1>4 DEF Handle, CallTypes
    <3> QED BY <1>0, <2>1, <3>1, StepsOK, OneCall
  <2>5. StudioTypes' /\ DeviceTypes'
    BY <1>0, <1>4, <2>3, StudioSame DEF Handle, DeviceTypes
  <2> QED BY <1>0, <1>4, <2>4, <2>5 DEF Handle, CounterTypes, counters, Starts
<1>5. ASSUME NEW k \in Caller, HandlerThrows(k) PROVE TypeInv'
  <2>1. CallTypes'
    BY <1>0, <1>5, IdleOK, OneCall DEF HandlerThrows
  <2>2. StudioTypes' /\ DeviceTypes'
    BY <1>0, <1>5, StudioSame, DeviceSame DEF HandlerThrows
  <2>3. Starts' /\ CounterTypes'
    <3>1. CASE UNCHANGED faults
      BY <1>0, <1>5, <3>1 DEF HandlerThrows, CounterTypes, Starts
    <3>2. CASE faults < MaxFaults /\ faults' = faults + 1
      BY <1>0, <1>5, <3>2, OneFault DEF HandlerThrows
    <3> QED BY <1>5, <3>1, <3>2 DEF HandlerThrows
  <2> QED BY <1>0, <1>5, <2>1, <2>2, <2>3 DEF HandlerThrows
<1>6. ASSUME NEW k \in Caller, ApplyCommand(k) PROVE TypeInv'
  <2> DEFINE c == Head(calls[k].pending)
  <2>1. CallOK(calls[k]) /\ calls[k].step = "applying"
    BY <1>0, <1>6 DEF CallTypes, ApplyCommand
  <2>2. c \in Command
    BY <2>1, PendingFacts DEF CallOK, CallType
  <2> HIDE DEF c
  <2>3. [revision |-> c.revision, run |-> run] \in Ack
    BY <2>2, NewAck
  <2>4. lifecycle' = Applied(c) /\ posts' = posts \cup {[revision |-> c.revision, run |-> run]}
    BY <1>6 DEF ApplyCommand, c
  <2>5. CallTypes'
    <3>1. calls' = [calls EXCEPT ![k] = [calls[k] EXCEPT !.step = "waiting"]]
      BY <1>0, <1>6 DEF ApplyCommand, CallTypes
    <3> QED BY <1>0, <2>1, <3>1, StepsOK, OneCall
  <2>6. StudioTypes' /\ DeviceTypes'
    BY <1>0, <1>6, <2>2, <2>4, StudioSame, AppliedType DEF ApplyCommand, DeviceTypes
  <2>7. posts' \in SUBSET Ack
    BY <1>0, <2>3, <2>4
  <2> QED BY <1>0, <1>6, <2>5, <2>6, <2>7 DEF ApplyCommand, CounterTypes, counters, Starts
<1>7. ASSUME NEW k \in Caller, ApplyRefused(k) PROVE TypeInv'
  <2>1. CallTypes'
    BY <1>0, <1>7, IdleOK, OneCall DEF ApplyRefused
  <2>2. StudioTypes' /\ DeviceTypes'
    BY <1>0, <1>7, StudioSame, DeviceSame DEF ApplyRefused
  <2> QED BY <1>0, <1>7, <2>1, <2>2 DEF ApplyRefused, CounterTypes, counters, Starts
<1>8. ASSUME CameraInterrupted PROVE TypeInv'
  <2>1. StudioTypes' /\ DeviceTypes' /\ CallTypes'
    BY <1>0, <1>8, StudioSame, CallsSame DEF CameraInterrupted, DeviceTypes
  <2>2. Starts' /\ CounterTypes'
    BY <1>0, <1>8, OneFault DEF CameraInterrupted
  <2> QED BY <1>0, <1>8, <2>1, <2>2 DEF CameraInterrupted
<1>9. ASSUME AppCrash PROVE TypeInv'
  <2>1. NewLifecycle \in [state : {"ready", "recording", "paused", "stopped", "complete"},
                          revision : 0 .. MaxCommands, take : Take \cup {NoTake}]
    BY BoundsAssumption DEF NewLifecycle
  <2>2. NewCamera \in [take : Take \cup {NoTake}, accepting : BOOLEAN]
    BY DEF NewCamera
  <2>3. StudioTypes' /\ DeviceTypes'
    BY <1>0, <1>9, <2>1, <2>2, StudioSame DEF AppCrash, DeviceTypes
  <2>4. CallTypes'
    BY <1>9, IdleOK DEF AppCrash, CallTypes
  <2> QED BY <1>0, <1>9, <2>3, <2>4, BoundsAssumption
          DEF AppCrash, CounterTypes, Starts, DeviceTypes
<1>10. ASSUME AppRestart PROVE TypeInv'
  <2>1. run \in Nat /\ faults \in 0 .. MaxFaults /\ run <= faults
    BY <1>0, <1>10, BoundsAssumption DEF AppRestart, DeviceTypes, CounterTypes, Starts
  <2>2. run + 1 \in 1 .. MaxFaults + 1
    BY <2>1, BoundsAssumption
  <2>3. StudioTypes' /\ DeviceTypes' /\ CallTypes'
    BY <1>0, <1>10, <2>2, StudioSame, CallsSame DEF AppRestart, DeviceTypes
  <2> QED BY <1>0, <1>10, <2>1, <2>3 DEF AppRestart, CounterTypes, counters, Starts
<1> QED BY <1>1, <1>2, <1>3, <1>4, <1>5, <1>6, <1>7, <1>8, <1>9, <1>10 DEF Device

LEMMA TypeStutters ==
  ASSUME TypeInv, UNCHANGED vars PROVE TypeInv'
BY StudioSame, DeviceSame, CallsSame
   DEF TypeInv, vars, deviceVars, counters, CounterTypes, Starts

\* Every variable keeps its type, and the app is started once more than it has died at most.
THEOREM ControlTyped == Spec => []TypeOK
<1>1. Init => TypeInv
  BY TypeInit
<1>2. TypeInv /\ [Next]_vars => TypeInv'
  BY TypeStudio, TypeDevice, TypeStutters DEF Next
<1>3. TypeInv => TypeOK
  BY TypeParts
<1> QED BY <1>1, <1>2, <1>3, PTL DEF Spec

-----------------------------------------------------------------------------
(* Histories.  A studio object holds a lawful history: its commands carry  *)
(* their places as revisions, and each is allowed after those before it.   *)

Line == Command \cup {Corrupt}

\* t begins with s.
Begins(s, t) == Len(s) <= Len(t) /\ Same(s, t, Len(s))

Numbered(s) == \A n \in 1 .. Len(s) : s[n] \in Command /\ s[n].revision = n

Valid(s) == \A n \in 1 .. Len(s) : Allowed(StateAfter(s, n - 1), s[n])

Lawful(s) == Numbered(s) /\ Valid(s)

LEMMA Lines ==
  ASSUME NEW s \in Seq(Command) PROVE s \in Seq(Line)
BY SeqMonotonic DEF Line

LEMMA BeginsRefl ==
  ASSUME NEW s \in Seq(Line) PROVE Begins(s, s)
BY LenProperties DEF Begins, Same

LEMMA BeginsTrans ==
  ASSUME NEW s \in Seq(Line), NEW t \in Seq(Line), NEW u \in Seq(Line), Begins(s, t), Begins(t, u)
  PROVE  Begins(s, u)
<1>1. Len(s) \in Nat /\ Len(t) \in Nat /\ Len(u) \in Nat
  BY LenProperties
<1>2. \A i \in 1 .. Len(s) : i \in 1 .. Len(t)
  BY <1>1 DEF Begins
<1> QED BY <1>1, <1>2 DEF Begins, Same

\* A history and a longer one replay to the same state as far as the shorter one goes.
LEMMA BeginsReplay ==
  ASSUME NEW s \in Seq(Line), NEW t, Begins(s, t), NEW n \in Nat, n <= Len(s)
  PROVE  StateAfter(s, n) = StateAfter(t, n)
<1>1. Len(s) \in Nat
  BY LenProperties
<1>2. Same(s, t, n)
  BY <1>1 DEF Begins, Same
<1> QED BY <1>2, SameReplay

LEMMA NumberedPart ==
  ASSUME NEW s \in Seq(Line), NEW t \in Seq(Line), Begins(s, t), Numbered(t)
  PROVE  Numbered(s)
<1>1. Len(s) \in Nat /\ Len(t) \in Nat
  BY LenProperties
<1>2. \A i \in 1 .. Len(s) : i \in 1 .. Len(t) /\ s[i] = t[i]
  BY <1>1 DEF Begins, Same
<1> QED BY <1>2 DEF Numbered

LEMMA ValidPart ==
  ASSUME NEW s \in Seq(Line), NEW t \in Seq(Line), Begins(s, t), Valid(t)
  PROVE  Valid(s)
<1>1. Len(s) \in Nat /\ Len(t) \in Nat
  BY LenProperties
<1>2. ASSUME NEW i \in 1 .. Len(s) PROVE Allowed(StateAfter(s, i - 1), s[i])
  <2>1. i \in 1 .. Len(t) /\ s[i] = t[i] /\ i - 1 \in Nat /\ i - 1 <= Len(s)
    BY <1>1 DEF Begins, Same
  <2>2. StateAfter(s, i - 1) = StateAfter(t, i - 1)
    BY <2>1, BeginsReplay
  <2> QED BY <2>1, <2>2 DEF Valid
<1> QED BY <1>2 DEF Valid

\* What appending does to a sequence of lines.
LEMMA AppendFacts ==
  ASSUME NEW s \in Seq(Line), NEW c \in Line
  PROVE  /\ Append(s, c) \in Seq(Line) /\ Len(s) \in Nat /\ Len(Append(s, c)) = Len(s) + 1
         /\ Append(s, c)[Len(s) + 1] = c
         /\ Begins(s, Append(s, c))
<1>1. /\ Append(s, c) \in Seq(Line) /\ Len(s) \in Nat /\ Len(Append(s, c)) = Len(s) + 1
      /\ \A i \in 1 .. Len(s) : Append(s, c)[i] = s[i]
      /\ Append(s, c)[Len(s) + 1] = c
  BY AppendProperties, LenProperties
<1>2. Begins(s, Append(s, c))
  BY <1>1 DEF Begins, Same
<1> QED BY <1>1, <1>2

LEMMA FrontFacts ==
  ASSUME NEW s \in Seq(Line), s # <<>>
  PROVE  Front(s) \in Seq(Line) /\ Len(s) \in Nat \ {0} /\ Len(Front(s)) = Len(s) - 1 /\ Begins(Front(s), s)
<1>1. Len(s) \in Nat \ {0} /\ \A i \in 1 .. Len(s) : s[i] \in Line
  BY LenProperties, ElementOfSeq, EmptySeq
<1>2. \A i \in 1 .. Len(s) - 1 : s[i] \in Line
  BY <1>1
<1>3. 1 \in Int /\ Len(s) - 1 \in Int
  BY <1>1
<1>4. /\ Front(s) \in Seq(Line)
      /\ Len(Front(s)) = IF 1 <= Len(s) - 1 THEN Len(s) - 1 - 1 + 1 ELSE 0
      /\ \A i \in 1 .. Len(s) - 1 - 1 + 1 : Front(s)[i] = s[1 + i - 1]
  BY <1>2, <1>3, SubSeqProperties DEF Front
<1>5. Len(Front(s)) = Len(s) - 1
  <2> DEFINE n == Len(s)
             m == Len(Front(s))
  <2>1. n \in Nat \ {0} /\ m = IF 1 <= n - 1 THEN n - 1 - 1 + 1 ELSE 0
    BY <1>1, <1>4
  <2> HIDE DEF n, m
  <2>2. m = n - 1
    BY <2>1
  <2> QED BY <2>2 DEF n, m
<1>6. \A i \in 1 .. Len(s) - 1 : i \in 1 .. Len(s) - 1 - 1 + 1 /\ 1 + i - 1 = i
  BY <1>1
<1>7. Begins(Front(s), s)
  BY <1>1, <1>4, <1>5, <1>6 DEF Begins, Same
<1> QED BY <1>1, <1>4, <1>5, <1>7

LEMMA FrontOfAppend ==
  ASSUME NEW s \in Seq(Line), NEW c \in Line
  PROVE  Front(Append(s, c)) = s
<1> DEFINE t == Append(s, c)
<1>1. t \in Seq(Line) /\ t # <<>> /\ Len(s) \in Nat /\ Len(t) = Len(s) + 1 /\ Begins(s, t)
  BY AppendFacts, AppendProperties
<1> HIDE DEF t
<1>2. Front(t) \in Seq(Line) /\ Len(Front(t)) = Len(s) /\ Begins(Front(t), t)
  BY <1>1, FrontFacts
<1>3. \A i \in 1 .. Len(s) : Front(t)[i] = s[i]
  BY <1>1, <1>2 DEF Begins, Same
<1>4. Front(t) = s
  BY <1>1, <1>2, <1>3, SeqEqual
<1> QED BY <1>4 DEF t

\* A studio object that issues a command has a lawful history again.
LEMMA IssuedLawful ==
  ASSUME NEW s \in Seq(Command), Lawful(s), NEW c \in Issuable(s)
  PROVE  Lawful(Append(s, c)) /\ Begins(s, Append(s, c)) /\ Append(s, c) \in Seq(Command)
<1> DEFINE t == Append(s, c)
<1>1. c \in Command /\ c.revision = Len(s) + 1 /\ Allowed(StateAfter(s, Len(s)), c)
  BY IssuableFacts DEF StateOf
<1>2. s \in Seq(Line) /\ c \in Line
  BY <1>1, Lines DEF Line
<1>3. /\ t \in Seq(Line) /\ Len(s) \in Nat /\ Len(t) = Len(s) + 1 /\ t[Len(s) + 1] = c
      /\ Begins(s, t) /\ t \in Seq(Command)
  BY <1>2, AppendFacts, CommandsGrow
<1> HIDE DEF t
<1>4. ASSUME NEW i \in 1 .. Len(t)
      PROVE  t[i] \in Command /\ t[i].revision = i /\ Allowed(StateAfter(t, i - 1), t[i])
  <2>0. i - 1 \in Nat /\ i - 1 <= Len(s) /\ (i \in 1 .. Len(s) \/ i = Len(s) + 1)
    BY <1>3, <1>4
  <2>1. StateAfter(t, i - 1) = StateAfter(s, i - 1)
    BY <1>2, <1>3, <2>0, BeginsReplay
  <2>2. CASE i \in 1 .. Len(s)
    <3>1. t[i] = s[i]
      BY <1>3, <2>2 DEF Begins, Same
    <3> QED BY <2>1, <2>2, <3>1 DEF Lawful, Numbered, Valid
  <2>3. CASE i = Len(s) + 1
    <3>1. i - 1 = Len(s)
      BY <1>3, <2>3
    <3> QED BY <1>1, <1>3, <2>1, <2>3, <3>1
  <2> QED BY <2>0, <2>2, <2>3
<1>5. Lawful(t)
  BY <1>4 DEF Lawful, Numbered, Valid
<1> QED BY <1>3, <1>5 DEF t

-----------------------------------------------------------------------------
(* The journal of commands.                                                *)

\* What the journal keeps whatever an append in it comes to: the records with a newline.
Settled(j) == IF j.tail = "whole" THEN Front(j.lines) ELSE j.lines

\* As long as its lines are numbered, they are a lawful history.
Sound(j) ==
  /\ Numbered(j.lines) => Valid(j.lines)
  /\ Numbered(Settled(j)) => Valid(Settled(j))

\* s is a history that the journal, as long as it is numbered, begins with.
Holds(s, j) == Lawful(s) /\ (Numbered(Settled(j)) => Begins(s, Settled(j)))

\* A step keeps what is settled, unless the journal is refused from then on.
Grows(j, k) == Numbered(Settled(k)) => Numbered(Settled(j)) /\ Begins(Settled(j), Settled(k))

LEMMA SettledFacts ==
  ASSUME NEW j \in JournalOf(Command), LastIsRecord(j)
  PROVE  /\ j.lines \in Seq(Line) /\ j.tail \in TailState
         /\ Settled(j) \in Seq(Line) /\ Begins(Settled(j), j.lines)
         /\ Numbered(j.lines) => Numbered(Settled(j))
<1>1. j.lines \in Seq(Line) /\ j.tail \in TailState
  BY DEF JournalOf, Line
<1>2. Settled(j) \in Seq(Line) /\ Begins(Settled(j), j.lines)
  BY <1>1, FrontFacts, BeginsRefl DEF Settled, LastIsRecord
<1>3. Numbered(j.lines) => Numbered(Settled(j))
  BY <1>1, <1>2, NumberedPart
<1> QED BY <1>1, <1>2, <1>3

LEMMA HoldsGrows ==
  ASSUME NEW s \in Seq(Command), Holds(s, log), Grows(log, log'),
         log \in JournalOf(Command), LastIsRecord(log),
         log' \in JournalOf(Command), LastIsRecord(log)'
  PROVE  Holds(s, log')
<1>1. s \in Seq(Line) /\ Settled(log) \in Seq(Line) /\ Settled(log') \in Seq(Line)
  BY Lines, SettledFacts DEF LastIsRecord
<1> QED BY <1>1, BeginsTrans DEF Holds, Grows

LEMMA GrowsRefl ==
  ASSUME NEW j \in JournalOf(Command), LastIsRecord(j) PROVE Grows(j, j)
BY SettledFacts, BeginsRefl DEF Grows

(***************************************************************************)
(* A command that a holder of a lawful history issues comes next in the    *)
(* journal, if nothing else has been written to it; or the journal does    *)
(* not have its numbers any more.                                          *)
(***************************************************************************)
LEMMA NextLine ==
  ASSUME NEW j \in JournalOf(Command), LastIsRecord(j), j.tail = "none", Sound(j),
         NEW s \in Seq(Command), Holds(s, j), NEW c \in Issuable(s),
         Numbered(Append(j.lines, c))
  PROVE  /\ Numbered(j.lines) /\ Valid(Append(j.lines, c))
         /\ Begins(Append(s, c), Append(j.lines, c))
<1> DEFINE L == j.lines
           t == Append(L, c)
           u == Append(s, c)
<1>0. c \in Command /\ c.revision = Len(s) + 1 /\ Allowed(StateAfter(s, Len(s)), c)
  BY IssuableFacts DEF StateOf
<1>1. L \in Seq(Line) /\ s \in Seq(Line) /\ c \in Line /\ Settled(j) = L
  BY <1>0, Lines DEF JournalOf, Line, Settled
<1>2. /\ t \in Seq(Line) /\ Len(L) \in Nat /\ Len(t) = Len(L) + 1 /\ t[Len(L) + 1] = c /\ Begins(L, t)
      /\ u \in Seq(Line) /\ Len(s) \in Nat /\ Len(u) = Len(s) + 1 /\ u[Len(s) + 1] = c /\ Begins(s, u)
  BY <1>1, AppendFacts
<1>3. Numbered(t)
  OBVIOUS
<1> HIDE DEF L, t, u
<1>4. Numbered(L)
  BY <1>1, <1>2, <1>3, NumberedPart
<1>5. Begins(s, L) /\ Valid(L)
  BY <1>1, <1>4 DEF Holds, Sound, L
<1>6. c.revision = Len(L) + 1
  <2>1. Len(L) + 1 \in 1 .. Len(t)
    BY <1>2
  <2> QED BY <1>2, <1>3, <2>1 DEF Numbered
<1>7. Len(s) = Len(L)
  BY <1>0, <1>2, <1>6
<1>8. ASSUME NEW i \in 1 .. Len(t) PROVE Allowed(StateAfter(t, i - 1), t[i]) /\ u[i] = t[i]
  <2>0. i - 1 \in Nat /\ i - 1 <= Len(L) /\ (i \in 1 .. Len(L) \/ i = Len(L) + 1)
    BY <1>2, <1>8
  <2>1. StateAfter(t, i - 1) = StateAfter(L, i - 1)
    BY <1>1, <1>2, <2>0, BeginsReplay
  <2>2. CASE i \in 1 .. Len(L)
    <3>1. t[i] = L[i] /\ u[i] = s[i] /\ s[i] = L[i]
      BY <1>2, <1>5, <1>7, <2>2 DEF Begins, Same
    <3> QED BY <1>5, <2>1, <2>2, <3>1 DEF Valid
  <2>3. CASE i = Len(L) + 1
    <3>1. StateAfter(s, Len(s)) = StateAfter(L, Len(s))
      BY <1>1, <1>2, <1>5, BeginsReplay
    <3>2. i - 1 = Len(s) /\ i = Len(s) + 1
      BY <1>2, <1>7, <2>3
    <3> QED BY <1>0, <1>2, <1>7, <2>1, <2>3, <3>1, <3>2
  <2> QED BY <2>0, <2>2, <2>3
<1>9. Valid(t) /\ Begins(u, t)
  BY <1>2, <1>7, <1>8 DEF Valid, Begins, Same
<1> QED BY <1>4, <1>9 DEF L, t, u

\* A line that does not parse has no number.
LEMMA CorruptLast ==
  ASSUME NEW s \in Seq(Line) PROVE ~Numbered(Append(s, Corrupt))
<1>1. Corrupt \in Line /\ Corrupt \notin Command
  BY SentinelAssumption DEF Line
<1>2. /\ Len(s) \in Nat /\ Len(Append(s, Corrupt)) = Len(s) + 1
      /\ Append(s, Corrupt)[Len(s) + 1] = Corrupt
  BY <1>1, AppendFacts
<1>3. Len(s) + 1 \in 1 .. Len(Append(s, Corrupt))
  BY <1>2
<1> QED BY <1>1, <1>2, <1>3 DEF Numbered

LEMMA AppendSound ==
  ASSUME NEW j \in JournalOf(Command), LastIsRecord(j), Sound(j),
         NEW s \in Seq(Command), Holds(s, j), NEW c \in Issuable(s)
  PROVE  LET k == AppendRecord(j, c) IN
         Sound(k) /\ Grows(j, k) /\ LastIsRecord(k) /\ Holds(Append(s, c), k)
<1> DEFINE k == AppendRecord(j, c)
<1>1. j.lines \in Seq(Line) /\ j.tail \in TailState
  BY SettledFacts
<1>2. Lawful(Append(s, c))
  BY IssuedLawful DEF Holds
<1>3. CASE j.tail = "none"
  <2>1. k.lines = Append(j.lines, c) /\ k.tail = "none"
    BY <1>3 DEF AppendRecord
  <2> HIDE DEF k
  <2>2. Settled(k) = Append(j.lines, c) /\ Settled(j) = j.lines
    BY <1>3, <2>1 DEF Settled
  <2>3. Numbered(Append(j.lines, c)) =>
          /\ Numbered(j.lines) /\ Valid(Append(j.lines, c))
          /\ Begins(Append(s, c), Append(j.lines, c))
    BY <1>3, NextLine
  <2>4. Begins(j.lines, Append(j.lines, c))
    BY <1>1, AppendFacts, IssuableFacts DEF Line
  <2>5. Sound(k) /\ Grows(j, k) /\ LastIsRecord(k) /\ Holds(Append(s, c), k)
    BY <1>2, <2>1, <2>2, <2>3, <2>4 DEF Sound, Grows, LastIsRecord, Holds
  <2> QED BY <2>5 DEF k
<1>4. CASE j.tail # "none"
  <2>1. PICK f \in Seq(Line) : k.lines = Append(f, Corrupt) /\ k.tail = "none"
    <3>1. CASE j.tail = "torn"
      BY <1>1, <3>1 DEF AppendRecord
    <3>2. CASE j.tail = "whole"
      BY <1>1, <3>2, FrontFacts DEF AppendRecord, LastIsRecord
    <3> QED BY <1>1, <1>4, <3>1, <3>2 DEF TailState
  <2> HIDE DEF k
  <2>2. Settled(k) = k.lines /\ ~Numbered(k.lines)
    BY <2>1, CorruptLast DEF Settled
  <2>3. Sound(k) /\ Grows(j, k) /\ LastIsRecord(k) /\ Holds(Append(s, c), k)
    BY <1>2, <2>1, <2>2 DEF Sound, Grows, LastIsRecord, Holds
  <2> QED BY <2>3 DEF k
<1> QED BY <1>3, <1>4

LEMMA InterruptedSound ==
  ASSUME NEW j \in JournalOf(Command), LastIsRecord(j), Sound(j),
         NEW s \in Seq(Command), Holds(s, j), NEW c \in Issuable(s),
         NEW k \in InterruptedAppend(j, c)
  PROVE  Sound(k) /\ Grows(j, k) /\ LastIsRecord(k)
<1>0. c \in Command /\ Corrupt \notin Command /\ c \in Line
  BY IssuableFacts, SentinelAssumption DEF Line
<1>1. LastIsRecord(k)
  BY <1>0, InterruptedAppendEffect
<1>2. /\ j.lines \in Seq(Line) /\ j.tail \in TailState /\ Settled(j) \in Seq(Line)
  BY SettledFacts
<1>3. CASE k = j
  BY <1>3, GrowsRefl
<1>4. CASE k = AppendRecord(j, c)
  BY <1>4, AppendSound
<1>5. CASE j.tail = "none" /\ k = [lines |-> j.lines, tail |-> "torn"]
  <2>1. k.lines = j.lines /\ Settled(k) = j.lines /\ Settled(j) = j.lines
    BY <1>5 DEF Settled
  <2>2. Begins(Settled(j), Settled(k))
    BY <1>2, <2>1, BeginsRefl
  <2> QED BY <1>1, <2>1, <2>2 DEF Sound, Grows
<1>6. CASE j.tail = "none" /\ k = [lines |-> Append(j.lines, c), tail |-> "whole"]
  <2>1. k.lines = Append(j.lines, c) /\ Settled(k) = j.lines /\ Settled(j) = j.lines
    BY <1>0, <1>2, <1>6, FrontOfAppend DEF Settled
  <2>2. Numbered(k.lines) => Valid(k.lines)
    BY <1>6, <2>1, NextLine
  <2>3. Begins(Settled(j), Settled(k))
    BY <1>2, <2>1, BeginsRefl
  <2> QED BY <1>1, <2>1, <2>2, <2>3 DEF Sound, Grows
<1>7. CASE j.tail = "whole" /\ k = [lines |-> Front(j.lines), tail |-> "torn"]
  <2>1. k.lines = Front(j.lines) /\ Settled(k) = Front(j.lines) /\ Settled(j) = Front(j.lines)
    BY <1>7 DEF Settled
  <2>2. Begins(Settled(j), Settled(k))
    BY <1>2, <2>1, BeginsRefl
  <2> QED BY <1>1, <2>1, <2>2 DEF Sound, Grows
<1>8. \/ k = j \/ k = AppendRecord(j, c)
      \/ j.tail = "none" /\ k = [lines |-> j.lines, tail |-> "torn"]
      \/ j.tail = "none" /\ k = [lines |-> Append(j.lines, c), tail |-> "whole"]
      \/ j.tail = "whole" /\ k = [lines |-> Front(j.lines), tail |-> "torn"]
  BY <1>2 DEF InterruptedAppend, TailState
<1> QED BY <1>1, <1>3, <1>4, <1>5, <1>6, <1>7, <1>8

LEMMA OpenedLines ==
  ASSUME NEW j \in JournalOf(Command), LastIsRecord(j), Sound(j), NEW ak, Opens(j, ak)
  PROVE  LET k == Repaired(j) IN
         /\ j.lines \in Seq(Command) /\ Lawful(j.lines) /\ Numbered(Settled(j))
         /\ Sound(k) /\ Grows(j, k) /\ LastIsRecord(k) /\ Holds(j.lines, k)
<1> DEFINE k == Repaired(j)
<1>1. j.lines \in Seq(Command)
  BY ReadableEffect DEF Opens
<1>2. /\ j.lines \in Seq(Line) /\ Begins(Settled(j), j.lines) /\ Settled(j) \in Seq(Line)
      /\ (Numbered(j.lines) => Numbered(Settled(j)))
  BY SettledFacts
<1>3. Numbered(j.lines)
  BY <1>1, LenProperties, ElementOfSeq DEF Opens, Numbered
<1>4. k.lines = j.lines /\ k.tail = "none" /\ LastIsRecord(k)
  BY RepairedEffect DEF Repaired, JournalOf
<1> HIDE DEF k
<1>5. Settled(k) = j.lines
  BY <1>4 DEF Settled
<1>6. Lawful(j.lines)
  BY <1>3 DEF Sound, Lawful
<1>7. Sound(k) /\ Grows(j, k) /\ Holds(j.lines, k)
  BY <1>2, <1>3, <1>4, <1>5, <1>6, BeginsRefl DEF Sound, Grows, Holds, Lawful
<1> QED BY <1>1, <1>2, <1>3, <1>4, <1>6, <1>7 DEF k

-----------------------------------------------------------------------------
(* The studio's side: server and tool hold lawful histories of the journal *)
(* they share, as long as the journal has its numbers; after an append     *)
(* that failed, or one by the other of the two, it may lose them.          *)

StudioInv ==
  /\ LastIsRecord(log) /\ LastIsRecord(ackLog) /\ Sound(log)
  /\ studioUp => Holds(commands, log)
  /\ tool.open => Holds(tool.commands, log)

\* The server goes on from the commands it had, or from what the journal has settled.
ServerGoesOn ==
  studioUp' => \/ studioUp /\ Begins(commands, commands')
               \/ Numbered(Settled(log)) /\ Begins(Settled(log), commands')

LEMMA StudioInit == Init => StudioInv
<1> SUFFICES ASSUME Init PROVE StudioInv
  OBVIOUS
<1>1. /\ log.lines = <<>> /\ log.tail = "none" /\ ackLog.tail = "none"
      /\ studioUp = TRUE /\ commands = <<>> /\ tool.open = FALSE
  BY DEF Init, EmptyJournal, NoTool
<1>2. Numbered(<<>>) /\ Valid(<<>>) /\ Begins(<<>>, <<>>)
  BY EmptySeq DEF Numbered, Valid, Begins, Same
<1>3. Settled(log) = <<>>
  BY <1>1 DEF Settled
<1>4. LastIsRecord(log) /\ LastIsRecord(ackLog)
  BY <1>1 DEF LastIsRecord
<1>5. Sound(log) /\ Holds(commands, log)
  BY <1>1, <1>2, <1>3 DEF Sound, Holds, Lawful
<1> QED BY <1>1, <1>4, <1>5 DEF StudioInv

\* What a step leaves of the tool's history, and of the server's.
LEMMA HoldersKept ==
  ASSUME TypeInv, TypeInv', StudioInv, LastIsRecord(log'), Grows(log, log')
  PROVE  /\ studioUp => Holds(commands, log')
         /\ tool.open => Holds(tool.commands, log')
<1>1. /\ log \in JournalOf(Command) /\ log' \in JournalOf(Command)
      /\ commands \in Seq(Command) /\ tool.commands \in Seq(Command)
      /\ LastIsRecord(log)
  BY DEF TypeInv, StudioTypes, StudioInv
<1> QED BY <1>1, HoldsGrows DEF StudioInv

LEMMA StudioStep ==
  ASSUME TypeInv, TypeInv', StudioInv, Studio
  PROVE  StudioInv' /\ Grows(log, log') /\ ServerGoesOn
<1>0. /\ log \in JournalOf(Command) /\ ackLog \in JournalOf(Ack) /\ studioUp \in BOOLEAN
      /\ commands \in Seq(Command) /\ commands \in Seq(Line) /\ tool.commands \in Seq(Command)
      /\ posts \in SUBSET Ack /\ tool.open \in BOOLEAN /\ Corrupt \notin Ack
  BY Lines, SentinelAssumption DEF TypeInv, StudioTypes
<1>00. /\ LastIsRecord(log) /\ LastIsRecord(ackLog) /\ Sound(log)
       /\ studioUp => Holds(commands, log)
       /\ tool.open => Holds(tool.commands, log)
       /\ Grows(log, log) /\ Begins(commands, commands)
  BY <1>0, GrowsRefl, BeginsRefl DEF StudioInv
<1>1. ASSUME NEW c \in Issuable(commands), IssueControl(c)
      PROVE  StudioInv' /\ Grows(log, log') /\ ServerGoesOn
  <2>1. /\ studioUp /\ studioUp' /\ log' = AppendRecord(log, c) /\ commands' = Append(commands, c)
        /\ ackLog' = ackLog /\ tool' = tool
    BY <1>1 DEF IssueControl
  <2>2. Sound(log') /\ Grows(log, log') /\ LastIsRecord(log') /\ Holds(commands', log')
    BY <1>0, <1>00, <2>1, AppendSound
  <2>3. tool.open => Holds(tool.commands, log')
    BY <2>2, HoldersKept
  <2>4. Begins(commands, commands')
    BY <1>0, <1>00, <2>1, IssuedLawful DEF Holds
  <2> QED BY <1>00, <2>1, <2>2, <2>3, <2>4 DEF StudioInv, ServerGoesOn
<1>2. ASSUME NEW c \in Issuable(commands), IssueControlFails(c)
      PROVE  StudioInv' /\ Grows(log, log') /\ ServerGoesOn
  <2>1. /\ studioUp /\ studioUp' /\ log' \in InterruptedAppend(log, c) /\ commands' = commands
        /\ ackLog' = ackLog /\ tool' = tool
    BY <1>2 DEF IssueControlFails
  <2>2. Sound(log') /\ Grows(log, log') /\ LastIsRecord(log')
    BY <1>0, <1>00, <2>1, InterruptedSound
  <2>3. (tool.open => Holds(tool.commands, log')) /\ Holds(commands, log')
    BY <2>1, <2>2, HoldersKept
  <2> QED BY <1>00, <2>1, <2>2, <2>3 DEF StudioInv, ServerGoesOn
<1>3. ASSUME NEW p \in posts, RecordAck(p)
      PROVE  StudioInv' /\ Grows(log, log') /\ ServerGoesOn
  <2>1. /\ UNCHANGED <<log, studioUp, commands, tool>>
        /\ ackLog' \in {ackLog, AppendRecord(ackLog, p)}
    BY <1>3 DEF RecordAck
  <2>2. LastIsRecord(ackLog')
    <3>1. AppendRecord(ackLog, p).tail = "none"
      BY <1>0, <1>00, AppendRecordEffect
    <3> QED BY <1>00, <2>1, <3>1 DEF LastIsRecord
  <2> QED BY <1>00, <2>1, <2>2 DEF StudioInv, ServerGoesOn
<1>4. ASSUME NEW p \in posts, RecordAckFails(p)
      PROVE  StudioInv' /\ Grows(log, log') /\ ServerGoesOn
  <2>1. /\ UNCHANGED <<log, studioUp, commands, tool>>
        /\ ackLog' \in InterruptedAppend(ackLog, p)
    BY <1>4 DEF RecordAckFails
  <2>2. LastIsRecord(ackLog')
    BY <1>0, <1>00, <2>1, InterruptedAppendEffect
  <2> QED BY <1>00, <2>1, <2>2 DEF StudioInv, ServerGoesOn
<1>5. ASSUME StudioCrash
      PROVE  StudioInv' /\ Grows(log, log') /\ ServerGoesOn
  <2>1. studioUp /\ ~studioUp' /\ tool' = tool
    BY <1>5 DEF StudioCrash
  <2>2. Sound(log') /\ Grows(log, log') /\ LastIsRecord(log') /\ LastIsRecord(ackLog')
    <3>1. CASE UNCHANGED <<log, ackLog>>
      BY <1>00, <3>1
    <3>2. CASE \E c \in Issuable(commands) : log' \in InterruptedAppend(log, c) /\ UNCHANGED ackLog
      BY <1>0, <1>00, <2>1, <3>2, InterruptedSound
    <3>3. CASE \E p \in posts : ackLog' \in InterruptedAppend(ackLog, p) /\ UNCHANGED log
      BY <1>0, <1>00, <3>3, InterruptedAppendEffect
    <3> QED BY <1>5, <3>1, <3>2, <3>3 DEF StudioCrash
  <2>3. tool.open => Holds(tool.commands, log')
    BY <2>2, HoldersKept
  <2> QED BY <2>1, <2>2, <2>3 DEF StudioInv, ServerGoesOn
<1>6. ASSUME StudioReopen
      PROVE  StudioInv' /\ Grows(log, log') /\ ServerGoesOn
  <2>1. /\ Opens(log, ackLog) /\ log' = Repaired(log) /\ ackLog' = Repaired(ackLog)
        /\ commands' = log.lines /\ tool' = tool
    BY <1>6 DEF StudioReopen
  <2>2. /\ Sound(log') /\ Grows(log, log') /\ LastIsRecord(log') /\ Holds(commands', log')
        /\ Numbered(Settled(log)) /\ Begins(Settled(log), commands')
    BY <1>0, <1>00, <2>1, OpenedLines, SettledFacts
  <2>3. LastIsRecord(ackLog')
    BY <1>0, <2>1, RepairedEffect
  <2>4. tool.open => Holds(tool.commands, log')
    BY <2>2, HoldersKept
  <2> QED BY <2>1, <2>2, <2>3, <2>4 DEF StudioInv, ServerGoesOn
<1>7. ASSUME ToolOpens
      PROVE  StudioInv' /\ Grows(log, log') /\ ServerGoesOn
  <2>1. /\ Opens(log, ackLog) /\ log' = Repaired(log) /\ ackLog' = Repaired(ackLog)
        /\ tool'.commands = log.lines /\ UNCHANGED <<studioUp, commands>>
    BY <1>7 DEF ToolOpens
  <2>2. Sound(log') /\ Grows(log, log') /\ LastIsRecord(log') /\ Holds(tool'.commands, log')
    BY <1>0, <1>00, <2>1, OpenedLines
  <2>3. LastIsRecord(ackLog')
    BY <1>0, <2>1, RepairedEffect
  <2>4. studioUp => Holds(commands, log')
    BY <2>2, HoldersKept
  <2> QED BY <1>00, <2>1, <2>2, <2>3, <2>4 DEF StudioInv, ServerGoesOn
<1>8. ASSUME NEW c \in Issuable(tool.commands), ToolIssues(c)
      PROVE  StudioInv' /\ Grows(log, log') /\ ServerGoesOn
  <2>1. /\ tool.open /\ ~tool'.open /\ log' = AppendRecord(log, c)
        /\ UNCHANGED <<ackLog, studioUp, commands>>
    BY <1>8 DEF ToolIssues, NoTool
  <2>2. Sound(log') /\ Grows(log, log') /\ LastIsRecord(log')
    BY <1>0, <1>00, <2>1, AppendSound
  <2>3. studioUp => Holds(commands, log')
    BY <2>2, HoldersKept
  <2> QED BY <1>00, <2>1, <2>2, <2>3 DEF StudioInv, ServerGoesOn
<1> QED BY <1>1, <1>2, <1>3, <1>4, <1>5, <1>6, <1>7, <1>8 DEF Studio

LEMMA DeviceLeavesStudio ==
  ASSUME Device PROVE UNCHANGED studioVars
BY DEF Device, Poll, Answer, RequestFails, Handle, HandlerThrows, ApplyCommand, ApplyRefused,
       CameraInterrupted, AppCrash, AppRestart

LEMMA StudioRests ==
  ASSUME TypeInv, StudioInv, UNCHANGED studioVars
  PROVE  StudioInv' /\ Grows(log, log') /\ ServerGoesOn
<1>1. /\ log \in JournalOf(Command) /\ LastIsRecord(log) /\ commands \in Seq(Line)
      /\ UNCHANGED <<log, ackLog, studioUp, commands, tool>>
  BY Lines DEF TypeInv, StudioTypes, StudioInv, studioVars
<1>2. StudioInv'
  BY <1>1 DEF StudioInv
<1>3. Grows(log, log') /\ Begins(commands, commands')
  BY <1>1, GrowsRefl, BeginsRefl
<1> QED BY <1>1, <1>2, <1>3 DEF ServerGoesOn

-----------------------------------------------------------------------------
(* The states of the replay.                                               *)

Mark == {"none", "recording", "paused", "stopped", "replaced"}

StudioState ==
  [status  : {"ready", "recording", "paused", "stopped", "complete"},
   current : Take \cup {NoTake},
   takes   : [Take -> Mark]]

LEMMA EffectType ==
  ASSUME NEW st \in StudioState, NEW c \in Command
  PROVE  /\ Effect(st, c) \in StudioState
         /\ Effect(st, c).status = CASE c.action \in {"start", "retake"} -> "recording"
                                     [] c.action = "pause" -> "paused"
                                     [] c.action = "stop"  -> "stopped"
                                     [] c.action = "end"   -> "complete"
         /\ Effect(st, c).current = CASE c.action \in {"start", "retake"} -> c.take
                                      [] c.action \in {"pause", "stop"} -> st.current
                                      [] c.action = "end" -> NoTake
<1>1. c.action \in {"start", "pause", "stop", "retake", "end"} /\ c.take \in Take \cup {NoTake}
  BY CommandFacts DEF Action
<1>2. \A t, m : m \in Mark => [st.takes EXCEPT ![t] = m] \in [Take -> Mark]
  BY DEF StudioState
<1>3. CASE c.action = "start"
  BY <1>1, <1>2, <1>3 DEF Effect, StudioState, Marked, Mark
<1>4. CASE c.action = "retake"
  <2>1. [st.takes EXCEPT ![c.of] = "replaced", ![c.take] = "recording"] \in [Take -> Mark]
    BY DEF StudioState, Mark
  <2> QED BY <1>1, <1>4, <2>1 DEF Effect, StudioState
<1>5. CASE c.action = "pause"
  BY <1>1, <1>2, <1>5 DEF Effect, StudioState, Marked, Mark
<1>6. CASE c.action = "stop"
  BY <1>1, <1>2, <1>6 DEF Effect, StudioState, Marked, Mark
<1>7. CASE c.action = "end"
  BY <1>1, <1>7 DEF Effect, StudioState
<1> QED BY <1>1, <1>3, <1>4, <1>5, <1>6, <1>7

LEMMA StateType ==
  ASSUME NEW s \in Seq(Command)
  PROVE  \A n \in 0 .. Len(s) : StateAfter(s, n) \in StudioState
<1> DEFINE T == {n \in 0 .. Len(s) : StateAfter(s, n) \notin StudioState}
<1>0. Len(s) \in Nat /\ \A i \in 1 .. Len(s) : s[i] \in Command
  BY LenProperties, ElementOfSeq
<1> SUFFICES ASSUME T # {} PROVE FALSE
  OBVIOUS
<1>1. PICK n \in T : \A m \in T : n <= m
  <2>1. T \subseteq Nat
    BY <1>0
  <2> HIDE DEF T
  <2> QED BY <2>1, Smallest
<1>2. CASE n = 0
  <2>1. NewState \in StudioState
    BY DEF NewState, StudioState, Mark
  <2> QED BY <1>1, <1>2, <2>1, StateAfterNone
<1>3. CASE n # 0
  <2>1. n - 1 \in Nat /\ n - 1 \in 0 .. Len(s) /\ n - 1 + 1 = n /\ n \in 1 .. Len(s) /\ ~(n <= n - 1)
    BY <1>0, <1>1, <1>3
  <2>2. StateAfter(s, n - 1) \in StudioState
    BY <1>1, <2>1
  <2>3. StateAfter(s, n) = Effect(StateAfter(s, n - 1), s[n])
    BY <2>1, StateAfterNext
  <2> QED BY <1>0, <1>1, <2>1, <2>2, <2>3, EffectType
<1> QED BY <1>2, <1>3

-----------------------------------------------------------------------------
(* What the device was given.  There is a history that it follows and that *)
(* holds every command it has in hand: the commands of the server that     *)
(* answered it last.  A later server, or journal, only goes on from it.    *)

Delivered(s, c) == c.revision <= Len(s) /\ s[c.revision] = c

\* The device's lifecycle is where the replay of s is after its revision.
Follows(life, s) ==
  /\ life.revision <= Len(s)
  /\ life.state = StateAfter(s, life.revision).status
  /\ life.take = StateAfter(s, life.revision).current

InHand(s) == \A k \in Caller : \A n \in DOMAIN calls[k].pending : Delivered(s, calls[k].pending[n])

Given(s) ==
  /\ s \in Seq(Command) /\ Holds(s, log) /\ (studioUp => Begins(s, commands))
  /\ Follows(lifecycle, s) /\ InHand(s)

HistoryInv == \E s : Given(s)

LEMMA HistoryInit == Init => HistoryInv
<1> SUFFICES ASSUME Init PROVE Given(<<>>)
  BY DEF HistoryInv
<1>1. StudioInv /\ TypeInv /\ studioUp /\ commands = <<>>
  BY StudioInit, TypeInit DEF Init
<1>2. <<>> \in Seq(Command) /\ Len(<<>>) = 0 /\ <<>> \in Seq(Line)
  BY EmptySeq
<1>3. Holds(<<>>, log) /\ (studioUp => Begins(<<>>, commands))
  BY <1>1, <1>2, BeginsRefl DEF StudioInv
<1>4. Follows(lifecycle, <<>>)
  <2>1. StateAfter(<<>>, 0) = NewState
    BY StateAfterNone
  <2> QED BY <1>2, <2>1 DEF Init, NewLifecycle, NewState, Follows
<1>5. InHand(<<>>)
  BY DEF Init, Idle, InHand
<1> QED BY <1>2, <1>3, <1>4, <1>5 DEF Given

\* The commands in hand after a step were in hand before.
PendingKept ==
  \A k \in Caller : \A n \in DOMAIN calls'[k].pending :
    \E m \in DOMAIN calls[k].pending : calls'[k].pending[n] = calls[k].pending[m]

LEMMA InHandKept ==
  ASSUME NEW s, InHand(s), PendingKept PROVE InHand(s)'
BY DEF InHand, PendingKept, Delivered

\* The commands of a call that ends, or that goes on with the next, were its commands before.
LEMMA FromPending ==
  ASSUME NEW call, CallOK(call), call.step = "waiting"
  PROVE  \A n \in DOMAIN Continued(call).pending :
           \E m \in DOMAIN call.pending : Continued(call).pending[n] = call.pending[m]
<1>1. call.pending \in Seq(Command) /\ call.pending # <<>> /\ call \in CallType
  BY DEF CallOK, CallType
<1> DEFINE p == call.pending
<1>2. /\ Tail(p) \in Seq(Command) /\ DOMAIN p = 1 .. Len(p) /\ Len(p) \in Nat
      /\ DOMAIN Tail(p) = 1 .. Len(p) - 1
      /\ \A i \in 1 .. Len(p) - 1 : Tail(p)[i] = p[i + 1]
  BY <1>1, PendingFacts
<1>3. CASE Len(p) = 1
  BY <1>3 DEF Continued, Idle
<1>4. CASE Len(p) # 1
  <2>1. Continued(call).pending = Tail(p)
    BY <1>1, <1>4 DEF Continued, CallType
  <2>2. \A i \in 1 .. Len(p) - 1 : i + 1 \in 1 .. Len(p)
    BY <1>2
  <2> QED BY <1>2, <2>1, <2>2
<1> QED BY <1>3, <1>4

LEMMA StudioKeepsPending ==
  ASSUME TypeInv, Studio PROVE PendingKept
<1>0. \A k \in Caller : CallOK(calls[k])
  BY DEF TypeInv, CallTypes
<1>1. CASE UNCHANGED calls
  BY <1>1 DEF PendingKept
<1>2. ASSUME NEW p \in posts, RecordAck(p) PROVE PendingKept
  <2>1. ASSUME NEW k \in Caller
        PROVE  \A n \in DOMAIN calls'[k].pending :
                 \E m \in DOMAIN calls[k].pending : calls'[k].pending[n] = calls[k].pending[m]
    <3>1. CASE AwaitsAck(k, p) /\ Accepts(p)
      <4>1. calls'[k] = Continued(calls[k]) /\ calls[k].step = "waiting"
        BY <1>2, <3>1 DEF RecordAck, AwaitsAck
      <4> QED BY <1>0, <4>1, FromPending
    <3>2. CASE AwaitsAck(k, p) /\ ~Accepts(p)
      BY <1>2, <3>2 DEF RecordAck, Idle
    <3>3. CASE ~AwaitsAck(k, p)
      BY <1>2, <3>3 DEF RecordAck
    <3> QED BY <3>1, <3>2, <3>3
  <2> QED BY <2>1 DEF PendingKept
<1>3. ASSUME NEW p \in posts, RecordAckFails(p) PROVE PendingKept
  BY <1>3 DEF RecordAckFails, Idle, PendingKept
<1>4. CASE StudioCrash
  BY <1>4 DEF StudioCrash, Idle, PendingKept
<1> QED BY <1>1, <1>2, <1>3, <1>4
        DEF Studio, IssueControl, IssueControlFails, StudioReopen, ToolOpens, ToolIssues, deviceVars

LEMMA StudioLeavesLife ==
  ASSUME Studio PROVE UNCHANGED <<appUp, run, lifecycle, camera, overlapped>>
BY DEF Studio, IssueControl, IssueControlFails, RecordAck, RecordAckFails, StudioCrash, StudioReopen,
       ToolOpens, ToolIssues, deviceVars

\* A history the journal holds is still held after a step, and the server still goes on from it.
LEMMA GivenGoesOn ==
  ASSUME TypeInv, TypeInv', StudioInv, StudioInv', Grows(log, log'), ServerGoesOn,
         NEW s, Given(s)
  PROVE  Holds(s, log') /\ (studioUp' => Begins(s, commands'))
<1>0. /\ s \in Seq(Command) /\ s \in Seq(Line) /\ Holds(s, log)
      /\ log \in JournalOf(Command) /\ log' \in JournalOf(Command)
      /\ LastIsRecord(log) /\ LastIsRecord(log')
      /\ commands \in Seq(Line) /\ commands' \in Seq(Line)
  BY Lines DEF Given, TypeInv, StudioTypes, StudioInv
<1>1. Holds(s, log')
  BY <1>0, HoldsGrows
<1>2. Settled(log) \in Seq(Line)
  BY <1>0, SettledFacts
<1>3. CASE studioUp /\ Begins(commands, commands')
  BY <1>0, <1>1, <1>3, BeginsTrans DEF Given
<1>4. CASE Numbered(Settled(log)) /\ Begins(Settled(log), commands')
  BY <1>0, <1>1, <1>2, <1>4, BeginsTrans DEF Holds
<1> QED BY <1>1, <1>3, <1>4 DEF ServerGoesOn

LEMMA HistoryStudio ==
  ASSUME TypeInv, TypeInv', StudioInv, HistoryInv, Studio
  PROVE  HistoryInv'
<1>1. PICK s : Given(s)
  BY DEF HistoryInv
<1>2. StudioInv' /\ Grows(log, log') /\ ServerGoesOn
  BY StudioStep
<1>3. Holds(s, log') /\ (studioUp' => Begins(s, commands'))
  BY <1>1, <1>2, GivenGoesOn
<1>4. Follows(lifecycle', s)
  BY <1>1, StudioLeavesLife DEF Given
<1>5. InHand(s)'
  BY <1>1, StudioKeepsPending, InHandKept DEF Given
<1>6. Given(s)'
  BY <1>1, <1>3, <1>4, <1>5 DEF Given
<1> QED BY <1>6 DEF HistoryInv

\* The lifecycle's step, as StudioCaptureLifecycle takes it, is the step of the replay.
LEMMA AppliedFollows ==
  ASSUME DeviceTypes, NEW s \in Seq(Command), Follows(lifecycle, s),
         NEW c \in Command, Delivered(s, c), LifecycleAccepts(c)
  PROVE  Follows(Applied(c), s)
<1> DEFINE r == lifecycle.revision
<1>1. r \in Nat /\ Len(s) \in Nat /\ c.revision = r + 1 /\ r + 1 <= Len(s) /\ s[r + 1] = c
  BY BoundsAssumption, LenProperties DEF DeviceTypes, Delivered, LifecycleAccepts
<1> HIDE DEF r
<1>2. StateAfter(s, r + 1) = Effect(StateAfter(s, r), c)
  BY <1>1, StateAfterNext
<1>3. StateAfter(s, r) \in StudioState
  BY <1>1, StateType
<1>4. c.action \in {"start", "pause", "stop", "retake", "end"}
  BY CommandFacts DEF Action
<1>5. lifecycle.take = StateAfter(s, r).current
  BY DEF Follows, r
<1>6. Applied(c).revision = r + 1
  BY <1>1 DEF Applied
<1>7. /\ Applied(c).state = Effect(StateAfter(s, r), c).status
      /\ Applied(c).take = Effect(StateAfter(s, r), c).current
  BY <1>3, <1>4, <1>5, EffectType DEF Applied
<1> QED BY <1>1, <1>2, <1>6, <1>7 DEF Follows

\* What a call has in hand once it has been answered.
LEMMA AnswerFacts ==
  ASSUME TypeInv, NEW k \in Caller, Answer(k)
  PROVE  /\ studioUp
         /\ \A j \in Caller \ {k} : calls'[j] = calls[j]
         /\ \A n \in DOMAIN calls'[k].pending :
              /\ calls[k].since + n \in 1 .. Len(commands)
              /\ calls'[k].pending[n] = commands[calls[k].since + n]
<1> DEFINE p == SubSeq(commands, calls[k].since + 1, Len(commands))
           call == IF p = <<>> THEN Idle ELSE [calls[k] EXCEPT !.step = "handling", !.pending = p]
<1>1. calls \in [Caller -> CallType] /\ calls[k].since \in Nat /\ commands \in Seq(Command)
  BY BoundsAssumption DEF TypeInv, CallTypes, CallType, StudioTypes
<1>2. studioUp /\ calls' = [calls EXCEPT ![k] = call]
  BY <1>1 DEF Answer
<1>3. \A n \in DOMAIN p : calls[k].since + n \in 1 .. Len(commands) /\ p[n] = commands[calls[k].since + n]
  BY <1>1, SuffixFacts
<1> HIDE DEF p
<1>4. call.pending = p
  BY <1>1 DEF Idle, CallType
<1> HIDE DEF call
<1>5. calls'[k].pending = p /\ \A j \in Caller \ {k} : calls'[j] = calls[j]
  BY <1>1, <1>2, <1>4
<1> QED BY <1>2, <1>3, <1>5

\* Once it has answered a call, the server's history is what the device was given.
LEMMA HistoryAnswer ==
  ASSUME TypeInv, StudioInv, HistoryInv, NEW k \in Caller, Answer(k)
  PROVE  HistoryInv'
<1>1. PICK s : Given(s)
  BY DEF HistoryInv
<1>2. /\ studioUp /\ UNCHANGED <<log, studioUp, commands, lifecycle>>
  BY DEF Answer, studioVars
<1>3. /\ s \in Seq(Line) /\ commands \in Seq(Command) /\ commands \in Seq(Line)
      /\ Len(s) \in Nat /\ Len(commands) \in Nat /\ lifecycle.revision \in Nat
      /\ Begins(s, commands) /\ Holds(commands, log)
  BY <1>1, <1>2, Lines, LenProperties, BoundsAssumption
     DEF TypeInv, StudioTypes, StudioInv, DeviceTypes, Given
<1>4. Begins(commands, commands)
  BY <1>3, BeginsRefl
<1>5. Follows(lifecycle, commands)
  <2>1. StateAfter(s, lifecycle.revision) = StateAfter(commands, lifecycle.revision)
    BY <1>1, <1>3, BeginsReplay DEF Given, Follows
  <2> QED BY <1>1, <1>3, <2>1 DEF Given, Follows, Begins
<1>6. ASSUME NEW j \in Caller, NEW n \in DOMAIN calls'[j].pending
      PROVE  Delivered(commands, calls'[j].pending[n])
  <2>1. CASE j = k
    <3> DEFINE m == calls[k].since + n
    <3>1. m \in 1 .. Len(commands) /\ calls'[k].pending[n] = commands[m]
      BY <1>6, <2>1, AnswerFacts
    <3> HIDE DEF m
    <3>2. commands[m].revision = m
      BY <1>3, <3>1 DEF Holds, Lawful, Numbered
    <3> QED BY <1>3, <2>1, <3>1, <3>2 DEF Delivered
  <2>2. CASE j # k
    <3>1. calls'[j] = calls[j]
      BY <2>2, AnswerFacts
    <3> DEFINE c == calls[j].pending[n]
    <3>2. Delivered(s, c)
      BY <1>1, <1>6, <3>1 DEF Given, InHand
    <3>3. c \in Command
      <4>1. calls[j].pending \in Seq(Command)
        BY DEF TypeInv, CallTypes, CallType
      <4> QED BY <1>6, <3>1, <4>1, LenProperties, ElementOfSeq
    <3> HIDE DEF c
    <3>4. c.revision \in 1 .. Len(s) /\ s[c.revision] = c
      BY <1>3, <3>2, <3>3, CommandFacts DEF Delivered
    <3>5. c.revision <= Len(commands) /\ commands[c.revision] = c
      BY <1>3, <3>4 DEF Begins, Same
    <3> QED BY <3>1, <3>5 DEF Delivered, c
  <2> QED BY <2>1, <2>2
<1>7. InHand(commands)'
  BY <1>2, <1>6 DEF InHand
<1>8. Given(commands)'
  BY <1>2, <1>3, <1>4, <1>5, <1>7 DEF Given
<1> QED BY <1>8 DEF HistoryInv

LEMMA HistoryDevice ==
  ASSUME TypeInv, StudioInv, HistoryInv, Device
  PROVE  HistoryInv'
<1>1. PICK s : Given(s)
  BY DEF HistoryInv
<1>2. UNCHANGED <<log, studioUp, commands>>
  BY DeviceLeavesStudio DEF studioVars
<1>3. /\ s \in Seq(Command) /\ Holds(s, log) /\ (studioUp => Begins(s, commands))
      /\ Follows(lifecycle, s) /\ InHand(s) /\ calls \in [Caller -> CallType]
  BY <1>1 DEF Given, TypeInv, CallTypes
<1>4. ASSUME Follows(lifecycle', s), PendingKept PROVE HistoryInv'
  <2>1. Given(s)'
    BY <1>2, <1>3, <1>4, InHandKept DEF Given
  <2> QED BY <2>1 DEF HistoryInv
<1>5. ASSUME NEW k \in Caller, Answer(k) PROVE HistoryInv'
  BY <1>5, HistoryAnswer
<1>6. ASSUME NEW k \in Caller, Poll(k) \/ RequestFails(k) \/ HandlerThrows(k) \/ ApplyRefused(k)
      PROVE  HistoryInv'
  <2>1. PendingKept
    BY <1>3, <1>6 DEF Poll, RequestFails, HandlerThrows, ApplyRefused, Idle, PendingKept
  <2> QED BY <1>3, <1>4, <1>6, <2>1 DEF Poll, RequestFails, HandlerThrows, ApplyRefused
<1>7. ASSUME NEW k \in Caller, Handle(k) PROVE HistoryInv'
  <2>1. PendingKept
    BY <1>3, <1>7 DEF Handle, PendingKept, CallType
  <2> QED BY <1>3, <1>4, <1>7, <2>1 DEF Handle
<1>8. ASSUME NEW k \in Caller, ApplyCommand(k) PROVE HistoryInv'
  <2>1. PendingKept
    BY <1>3, <1>8 DEF ApplyCommand, PendingKept, CallType
  <2> DEFINE c == Head(calls[k].pending)
  <2>2. CallOK(calls[k]) /\ calls[k].step = "applying" /\ LifecycleAccepts(c) /\ lifecycle' = Applied(c)
    BY <1>8 DEF TypeInv, CallTypes, ApplyCommand
  <2>3. c \in Command /\ 1 \in DOMAIN calls[k].pending /\ c = calls[k].pending[1]
    BY <2>2, PendingFacts DEF CallOK, CallType
  <2>4. Delivered(s, c)
    BY <1>3, <2>3 DEF InHand
  <2> HIDE DEF c
  <2>5. Follows(lifecycle', s)
    BY <1>3, <2>2, <2>3, <2>4, AppliedFollows DEF TypeInv
  <2> QED BY <1>4, <2>1, <2>5
<1>9. CASE CameraInterrupted \/ AppRestart
  BY <1>3, <1>4, <1>9 DEF CameraInterrupted, AppRestart, PendingKept
<1>10. CASE AppCrash
  <2>1. Follows(lifecycle', s)
    <3>1. StateAfter(s, 0) = NewState /\ Len(s) \in Nat
      BY <1>3, StateAfterNone, LenProperties
    <3> QED BY <1>10, <3>1 DEF AppCrash, NewLifecycle, NewState, Follows
  <2>2. PendingKept
    BY <1>10 DEF AppCrash, Idle, PendingKept
  <2> QED BY <1>4, <2>1, <2>2
<1> QED BY <1>5, <1>6, <1>7, <1>8, <1>9, <1>10 DEF Device

-----------------------------------------------------------------------------
(* A session in which no append fails under a living process, and whose    *)
(* tool is not used: the server has read what its journals hold, and they  *)
(* can be read again at any time.                                          *)

CalmInv ==
  Undisturbed =>
    /\ ~tool.open /\ Opens(log, ackLog)
    /\ studioUp => /\ log.tail = "none" /\ ackLog.tail = "none"
                   /\ commands = log.lines /\ acks = Records(ackLog)

LEMMA OpensLines ==
  ASSUME NEW cs, NEW ak, NEW cs2, NEW ak2, Opens(cs, ak), cs2.lines = cs.lines, ak2.lines = ak.lines
  PROVE  Opens(cs2, ak2)
BY DEF Opens, Readable, Records

\* One more command, under the next revision.
LEMMA OpensCommand ==
  ASSUME NEW cs \in JournalOf(Command), NEW ak, Opens(cs, ak),
         NEW c \in Command, c.revision = Len(cs.lines) + 1, NEW cs2, cs2.lines = Append(cs.lines, c)
  PROVE  Opens(cs2, ak)
<1> DEFINE L == cs.lines
           M == Append(L, c)
<1>1. L \in Seq(Command) /\ c \in Line /\ L \in Seq(Line)
  BY ReadableEffect, Lines DEF Opens, Line
<1>2. /\ M \in Seq(Line) /\ Len(L) \in Nat /\ Len(M) = Len(L) + 1 /\ M[Len(L) + 1] = c
      /\ \A i \in 1 .. Len(L) : M[i] = L[i]
      /\ DOMAIN M = 1 .. Len(M) /\ DOMAIN L = 1 .. Len(L)
  BY <1>1, AppendFacts, LenProperties DEF Begins, Same
<1>3. ToSet(M) = ToSet(L) \cup {c} /\ c # Corrupt
  BY <1>1, AppendElements, CommandFacts
<1>4. cs2.lines = M
  OBVIOUS
<1> HIDE DEF M
<1>5. Readable(cs2)
  BY <1>3, <1>4 DEF Opens, Readable, Records
<1>6. \A n \in DOMAIN M : M[n].revision = n
  <2>1. \A n \in 1 .. Len(L) : L[n].revision = n
    BY <1>2 DEF Opens
  <2>2. \A n \in 1 .. Len(M) : n \in 1 .. Len(L) \/ n = Len(L) + 1
    BY <1>2
  <2> QED BY <1>2, <2>1, <2>2
<1>7. \A n \in DOMAIN ak.lines : ak.lines[n].revision \in DOMAIN M
  <2>1. DOMAIN L \subseteq DOMAIN M
    BY <1>2
  <2> QED BY <2>1 DEF Opens
<1> QED BY <1>4, <1>5, <1>6, <1>7 DEF Opens

\* One more acknowledgement, of a command that has none.
LEMMA OpensAck ==
  ASSUME NEW cs, NEW ak \in JournalOf(Ack), Opens(cs, ak),
         NEW p \in Ack, p.revision \in DOMAIN cs.lines,
         \A a \in Records(ak) : a.revision # p.revision,
         NEW ak2, ak2.lines = Append(ak.lines, p)
  PROVE  Opens(cs, ak2)
<1> DEFINE L == ak.lines
           M == Append(L, p)
<1>1. L \in Seq(Ack) /\ Corrupt \notin Ack
  BY ReadableEffect, SentinelAssumption DEF Opens
<1>4. ak2.lines = M
  OBVIOUS
<1>3. ToSet(M) = ToSet(L) \cup {p}
  <2>1. p \in Ack
    OBVIOUS
  <2> HIDE DEF L
  <2> QED BY <1>1, <2>1, AppendElements, ZenonT(30)
<1>0. /\ M \in Seq(Ack) /\ Len(M) = Len(L) + 1 /\ M[Len(L) + 1] = p
      /\ \A i \in 1 .. Len(L) : M[i] = L[i]
  BY <1>1, AppendProperties
<1> HIDE DEF M
<1>2. /\ Len(L) \in Nat /\ Len(M) \in Nat /\ DOMAIN M = 1 .. Len(M) /\ DOMAIN L = 1 .. Len(L)
  BY <1>0, <1>1, LenProperties
<1>5. Readable(ak2)
  BY <1>1, <1>3, <1>4 DEF Opens, Readable, Records
<1>6. \A n \in 1 .. Len(M) : (n \in 1 .. Len(L) /\ M[n] = L[n]) \/ (n = Len(L) + 1 /\ M[n] = p)
  <2>1. \A n \in 1 .. Len(M) : n \in 1 .. Len(L) \/ n = Len(L) + 1
    BY <1>0, <1>2
  <2> HIDE DEF L
  <2> QED BY <1>0, <2>1, Zenon
<1>7. \A n \in 1 .. Len(L) : L[n].revision # p.revision
  BY <1>2 DEF Records, ToSet
<1>8. \A m, n \in DOMAIN M : M[m].revision = M[n].revision => m = n
  BY <1>2, <1>6, <1>7 DEF Opens
<1>9. \A n \in DOMAIN M : M[n].revision \in DOMAIN cs.lines
  BY <1>2, <1>6 DEF Opens
<1> QED BY <1>4, <1>5, <1>8, <1>9 DEF Opens

\* The lines an append may leave, complete or not, on a journal without a tail.
LEMMA CleanAppend ==
  ASSUME NEW j, j.tail = "none", NEW r
  PROVE  /\ AppendRecord(j, r).lines = Append(j.lines, r) /\ AppendRecord(j, r).tail = "none"
         /\ \A k \in InterruptedAppend(j, r) : k.lines \in {j.lines, Append(j.lines, r)}
BY DEF AppendRecord, InterruptedAppend

LEMMA CalmInit == Init => CalmInv
BY EmptySeq DEF Init, NoTool, EmptyJournal, CalmInv, Opens, Readable, Records, ToSet

LEMMA CalmStudio ==
  ASSUME TypeInv, CalmInv, Studio
  PROVE  CalmInv'
<1>0. /\ log \in JournalOf(Command) /\ ackLog \in JournalOf(Ack)
      /\ posts \in SUBSET Ack /\ errors \in Nat /\ tools \in Nat
      /\ tool \in [open : BOOLEAN, commands : Seq(Command)]
  BY BoundsAssumption DEF TypeInv, StudioTypes, CounterTypes
<1> SUFFICES ASSUME Undisturbed' PROVE CalmInv'
  BY DEF CalmInv
<1>1. errors' = 0 /\ tools' = 0
  BY DEF Undisturbed
<1>2. ASSUME UNCHANGED <<errors, tools>>
      PROVE  /\ ~tool.open /\ Opens(log, ackLog)
             /\ studioUp => /\ log.tail = "none" /\ ackLog.tail = "none"
                            /\ commands = log.lines /\ acks = Records(ackLog)
  BY <1>1, <1>2 DEF CalmInv, Undisturbed
<1>3. ASSUME NEW c \in Issuable(commands), IssueControl(c) PROVE CalmInv'
  <2>1. /\ studioUp /\ log' = AppendRecord(log, c) /\ commands' = Append(commands, c)
        /\ UNCHANGED <<ackLog, studioUp, acks, tool, errors, tools>>
    BY <1>3 DEF IssueControl, counters
  <2>2. /\ ~tool.open /\ Opens(log, ackLog) /\ log.tail = "none" /\ ackLog.tail = "none"
        /\ commands = log.lines /\ acks = Records(ackLog)
    BY <1>2, <2>1
  <2>3. log'.lines = Append(log.lines, c) /\ log'.tail = "none"
    BY <2>1, <2>2, CleanAppend
  <2>4. c \in Command /\ c.revision = Len(log.lines) + 1
    BY <2>2, IssuableFacts
  <2>5. Opens(log', ackLog)
    BY <1>0, <2>2, <2>3, <2>4, OpensCommand
  <2> QED BY <2>1, <2>2, <2>3, <2>5 DEF CalmInv
<1>4. ASSUME NEW c \in Issuable(commands), IssueControlFails(c) PROVE CalmInv'
  BY <1>0, <1>1, <1>4 DEF IssueControlFails
<1>5. ASSUME NEW p \in posts, RecordAck(p) PROVE CalmInv'
  <2>1. studioUp /\ UNCHANGED <<log, studioUp, commands, tool, errors, tools>>
    BY <1>5 DEF RecordAck, counters
  <2>2. /\ ~tool.open /\ Opens(log, ackLog) /\ log.tail = "none" /\ ackLog.tail = "none"
        /\ commands = log.lines /\ acks = Records(ackLog)
    BY <1>2, <2>1
  <2>3. CASE UNCHANGED <<ackLog, acks>>
    BY <2>1, <2>2, <2>3 DEF CalmInv
  <2>4. CASE Accepts(p) /\ p \notin acks /\ ackLog' = AppendRecord(ackLog, p) /\ acks' = acks \cup {p}
    <3>1. p.revision \in DOMAIN log.lines /\ \A a \in Records(ackLog) : a.revision # p.revision
      BY <2>2, <2>4 DEF Accepts, Previous
    <3>2. ackLog'.lines = Append(ackLog.lines, p) /\ ackLog'.tail = "none"
      BY <2>2, <2>4, CleanAppend
    <3>3. p \in Ack
      BY <1>0, <1>5
    <3>4. Opens(log, ackLog')
      BY <1>0, <2>2, <3>1, <3>2, <3>3, OpensAck
    <3>5. Records(ackLog') = Records(ackLog) \cup {p}
      <4>1. ackLog.lines \in Seq(Ack \cup {Corrupt}) /\ p \in Ack \cup {Corrupt}
        BY <1>0, <3>3 DEF JournalOf
      <4>2. ToSet(Append(ackLog.lines, p)) = ToSet(ackLog.lines) \cup {p}
        BY <4>1, AppendElements
      <4> QED BY <3>2, <4>2 DEF Records
    <3> QED BY <2>1, <2>2, <2>4, <3>2, <3>4, <3>5 DEF CalmInv
  <2> QED BY <1>5, <2>3, <2>4 DEF RecordAck
<1>6. ASSUME NEW p \in posts, RecordAckFails(p) PROVE CalmInv'
  BY <1>0, <1>1, <1>6 DEF RecordAckFails
<1>7. CASE StudioCrash
  <2>1. studioUp /\ ~studioUp' /\ UNCHANGED <<tool, errors, tools>>
    BY <1>7 DEF StudioCrash
  <2>2. /\ ~tool.open /\ Opens(log, ackLog) /\ log.tail = "none" /\ ackLog.tail = "none"
        /\ commands = log.lines /\ acks = Records(ackLog)
    BY <1>2, <2>1
  <2>3. CASE UNCHANGED <<log, ackLog>>
    BY <2>1, <2>2, <2>3 DEF CalmInv
  <2>4. ASSUME NEW c \in Issuable(commands), log' \in InterruptedAppend(log, c), UNCHANGED ackLog
        PROVE  Opens(log', ackLog')
    <3>1. log'.lines \in {log.lines, Append(log.lines, c)}
      BY <2>2, <2>4, CleanAppend
    <3>2. c \in Command /\ c.revision = Len(log.lines) + 1
      BY <2>2, IssuableFacts
    <3> QED BY <1>0, <2>2, <2>4, <3>1, <3>2, OpensLines, OpensCommand
  <2>5. ASSUME NEW p \in posts, Accepts(p), p \notin acks,
               ackLog' \in InterruptedAppend(ackLog, p), UNCHANGED log
        PROVE  Opens(log', ackLog')
    <3>1. ackLog'.lines \in {ackLog.lines, Append(ackLog.lines, p)}
      BY <2>2, <2>5, CleanAppend
    <3>2. p.revision \in DOMAIN log.lines /\ \A a \in Records(ackLog) : a.revision # p.revision
      BY <2>2, <2>5 DEF Accepts, Previous
    <3>3. p \in Ack
      BY <1>0
    <3> QED BY <1>0, <2>2, <2>5, <3>1, <3>2, <3>3, OpensLines, OpensAck
  <2>6. Opens(log', ackLog')
    BY <1>7, <2>2, <2>3, <2>4, <2>5 DEF StudioCrash
  <2> QED BY <2>1, <2>2, <2>6 DEF CalmInv
<1>8. CASE StudioReopen
  <2>1. /\ Opens(log, ackLog) /\ log' = Repaired(log) /\ ackLog' = Repaired(ackLog)
        /\ commands' = log.lines /\ acks' = Records(ackLog) /\ UNCHANGED <<tool, errors, tools>>
    BY <1>8 DEF StudioReopen, counters
  <2>2. /\ log'.lines = log.lines /\ ackLog'.lines = ackLog.lines
        /\ log'.tail = "none" /\ ackLog'.tail = "none"
    BY <1>0, <2>1 DEF Repaired, JournalOf
  <2>3. Opens(log', ackLog') /\ Records(ackLog') = Records(ackLog)
    BY <2>1, <2>2, OpensLines DEF Records
  <2>4. ~tool.open
    BY <1>2, <2>1
  <2> QED BY <2>1, <2>2, <2>3, <2>4 DEF CalmInv
<1>9. CASE ToolOpens
  BY <1>0, <1>1, <1>9 DEF ToolOpens
<1>10. ASSUME NEW c \in Issuable(tool.commands), ToolIssues(c) PROVE CalmInv'
  BY <1>2, <1>10 DEF ToolIssues, counters
<1> QED BY <1>3, <1>4, <1>5, <1>6, <1>7, <1>8, <1>9, <1>10 DEF Studio

LEMMA CalmDevice ==
  ASSUME CalmInv, UNCHANGED studioVars, UNCHANGED <<errors, tools>>
  PROVE  CalmInv'
BY DEF CalmInv, studioVars, Undisturbed

LEMMA DeviceLeavesErrors ==
  ASSUME Device PROVE UNCHANGED <<errors, tools>>
BY DEF Device, Poll, Answer, RequestFails, Handle, HandlerThrows, ApplyCommand, ApplyRefused,
       CameraInterrupted, AppCrash, AppRestart, counters

-----------------------------------------------------------------------------
(* The theorems of undisturbed sessions.                                   *)

ControlInv == TypeInv /\ StudioInv /\ HistoryInv /\ CalmInv

LEMMA ControlInit == Init => ControlInv
BY TypeInit, StudioInit, HistoryInit, CalmInit DEF ControlInv

LEMMA ControlStep == ControlInv /\ [Next]_vars => ControlInv'
<1> SUFFICES ASSUME ControlInv, [Next]_vars PROVE ControlInv'
  OBVIOUS
<1>1. TypeInv /\ StudioInv /\ HistoryInv /\ CalmInv
  BY DEF ControlInv
<1>2. TypeInv'
  BY <1>1, TypeStudio, TypeDevice, TypeStutters DEF Next
<1>3. CASE Studio
  BY <1>1, <1>2, <1>3, StudioStep, HistoryStudio, CalmStudio DEF ControlInv
<1>4. CASE Device
  BY <1>1, <1>2, <1>4, DeviceLeavesStudio, StudioRests, HistoryDevice, CalmDevice, DeviceLeavesErrors
     DEF ControlInv
<1>5. CASE UNCHANGED vars
  <2>1. UNCHANGED studioVars /\ UNCHANGED <<errors, tools>>
    BY <1>5 DEF vars, counters
  <2>2. PICK s : Given(s)
    BY <1>1 DEF HistoryInv
  <2>3. Given(s)'
    BY <1>5, <2>2 DEF vars, studioVars, deviceVars, Given, InHand
  <2>4. HistoryInv'
    BY <2>3 DEF HistoryInv
  <2> QED BY <1>1, <1>2, <2>1, <2>4, StudioRests, CalmDevice DEF ControlInv
<1> QED BY <1>3, <1>4, <1>5 DEF Next

\* Undisturbed, the history the device was given is what its journal begins with.
LEMMA GivenIsInTheJournal ==
  ASSUME ControlInv, Undisturbed, NEW s, Given(s)
  PROVE  s \in Seq(Line) /\ log.lines \in Seq(Line) /\ Begins(s, log.lines)
<1>1. log \in JournalOf(Command) /\ LastIsRecord(log) /\ Opens(log, ackLog)
  BY DEF ControlInv, TypeInv, StudioTypes, StudioInv, CalmInv
<1>2. /\ log.lines \in Seq(Line) /\ Settled(log) \in Seq(Line) /\ Begins(Settled(log), log.lines)
      /\ s \in Seq(Line) /\ Numbered(log.lines) => Numbered(Settled(log))
  BY <1>1, SettledFacts, Lines DEF Given
<1>3. Numbered(log.lines)
  <2>1. log.lines \in Seq(Command)
    BY <1>1, ReadableEffect DEF Opens
  <2> QED BY <1>1, <2>1, LenProperties, ElementOfSeq DEF Opens, Numbered
<1>4. Begins(s, Settled(log))
  BY <1>1, <1>2, <1>3, SettledFacts DEF Given, Holds
<1>5. s \in Seq(Line)
  BY Lines DEF Given
<1> QED BY <1>2, <1>4, <1>5, BeginsTrans

(***************************************************************************)
(* Undisturbed, the studio opens its journals again whenever it is killed: *)
(* __init__ accepts what issue_control and acknowledge_command wrote, in   *)
(* whatever way the last append was cut short.                             *)
(***************************************************************************)
THEOREM StudioReopens == Spec => []HistoryReopens
<1>1. ControlInv => HistoryReopens
  BY DEF ControlInv, CalmInv, HistoryReopens
<1> QED BY <1>1, ControlInit, ControlStep, PTL DEF Spec

(***************************************************************************)
(* Undisturbed, a command that commands_after has handed out stays in the  *)
(* journal under its revision, whatever crashes follow.                    *)
(***************************************************************************)
THEOREM DeliveredIsKept == Spec => []DeliveredStays
<1>1. ASSUME ControlInv PROVE DeliveredStays
  <2> SUFFICES ASSUME Undisturbed, NEW k \in Caller, NEW n \in DOMAIN calls[k].pending
               PROVE  LET c == calls[k].pending[n]
                      IN  c.revision \in DOMAIN log.lines /\ log.lines[c.revision] = c
    BY DEF DeliveredStays
  <2> DEFINE c == calls[k].pending[n]
  <2>1. PICK s : Given(s)
    BY <1>1 DEF ControlInv, HistoryInv
  <2>2. s \in Seq(Line) /\ log.lines \in Seq(Line) /\ Begins(s, log.lines)
    BY <1>1, <2>1, GivenIsInTheJournal
  <2>3. Delivered(s, c)
    BY <2>1 DEF Given, InHand
  <2>4. c \in Command
    <3>1. calls[k].pending \in Seq(Command)
      BY <1>1 DEF ControlInv, TypeInv, CallTypes, CallType
    <3> QED BY <3>1, LenProperties, ElementOfSeq
  <2> HIDE DEF c
  <2>5. Len(s) \in Nat /\ Len(log.lines) \in Nat /\ DOMAIN log.lines = 1 .. Len(log.lines)
    BY <2>2, LenProperties
  <2>6. c.revision \in 1 .. Len(s)
    BY <2>3, <2>4, <2>5, CommandFacts DEF Delivered
  <2>7. c.revision \in DOMAIN log.lines /\ log.lines[c.revision] = c
    BY <2>2, <2>3, <2>5, <2>6 DEF Begins, Same, Delivered
  <2> QED BY <2>7 DEF c
<1> QED BY <1>1, ControlInit, ControlStep, PTL DEF Spec

(***************************************************************************)
(* Undisturbed, StudioCaptureLifecycle is where the studio's replay of its *)
(* journal is after as many commands, even if calls overlap.               *)
(***************************************************************************)
THEOREM DeviceFollowsStudio == Spec => []LifecycleFollowsStudio
<1>1. ASSUME ControlInv PROVE LifecycleFollowsStudio
  <2> SUFFICES ASSUME Undisturbed
               PROVE  /\ lifecycle.revision <= Len(log.lines)
                      /\ lifecycle.state = StateAfter(log.lines, lifecycle.revision).status
                      /\ lifecycle.take = StateAfter(log.lines, lifecycle.revision).current
    BY DEF LifecycleFollowsStudio
  <2>1. PICK s : Given(s)
    BY <1>1 DEF ControlInv, HistoryInv
  <2>2. s \in Seq(Line) /\ log.lines \in Seq(Line) /\ Begins(s, log.lines)
    BY <1>1, <2>1, GivenIsInTheJournal
  <2>3. Len(s) \in Nat /\ Len(log.lines) \in Nat /\ lifecycle.revision \in Nat
    BY <1>1, <2>2, LenProperties, BoundsAssumption DEF ControlInv, TypeInv, DeviceTypes
  <2>4. lifecycle.revision <= Len(s)
    BY <2>1 DEF Given, Follows
  <2>5. StateAfter(s, lifecycle.revision) = StateAfter(log.lines, lifecycle.revision)
    BY <2>2, <2>3, <2>4, BeginsReplay
  <2> QED BY <2>1, <2>2, <2>3, <2>4, <2>5 DEF Given, Follows, Begins
<1> QED BY <1>1, ControlInit, ControlStep, PTL DEF Spec

-----------------------------------------------------------------------------
(* The camera.  While calls do not overlap, the only call under way has    *)
(* the lifecycle's next commands in hand, and the camera is at most the    *)
(* handler's own step ahead of the lifecycle.                              *)

Paced(call, life, cam) ==
  /\ call.step = "polling" => call.since = life.revision
  /\ call.step \in {"handling", "applying"} =>
       \A n \in DOMAIN call.pending : call.pending[n].revision = life.revision + n
  /\ call.step = "waiting" =>
       \A n \in DOMAIN call.pending : call.pending[n].revision = life.revision + n - 1
  /\ call.step = "applying" /\ cam.accepting =>
       call.pending[1].action \in {"start", "retake"} /\ call.pending[1].take = cam.take

Alone == \A j, k \in Caller : calls[j].step # "idle" /\ calls[k].step # "idle" => j = k

NoneApplying == \A k \in Caller : calls[k].step # "applying"

Recording(life, cam) == life.state = "recording" /\ life.take = cam.take

FrameInv ==
  ~overlapped =>
    /\ Alone
    /\ \A k \in Caller : Paced(calls[k], lifecycle, camera)
    /\ camera.accepting /\ NoneApplying => Recording(lifecycle, camera)

LEMMA FrameInit == Init => FrameInv
<1> SUFFICES ASSUME Init PROVE FrameInv
  OBVIOUS
<1>1. /\ \A k \in Caller : calls[k] = Idle
      /\ camera.accepting = FALSE
  BY DEF Init, NewCamera
<1>2. Idle.step = "idle"
  BY DEF Idle
<1> QED BY <1>1, <1>2 DEF FrameInv, Alone, Paced

\* A call that ends keeps pace; so does one that goes on with its next command.
LEMMA IdlePaced ==
  ASSUME NEW life, NEW cam PROVE Paced(Idle, life, cam)
BY DEF Idle, Paced

LEMMA ContinuedPaced ==
  ASSUME NEW call, CallOK(call), call.step = "waiting", NEW life, life.revision \in Nat, NEW cam,
         Paced(call, life, cam)
  PROVE  Paced(Continued(call), life, cam) /\ Continued(call).step \in {"idle", "handling"}
<1> DEFINE p == call.pending
           t == Tail(p)
<1>1. p \in Seq(Command) /\ p # <<>> /\ call \in CallType
  BY DEF CallOK, CallType
<1>2. /\ Len(p) \in Nat /\ DOMAIN p = 1 .. Len(p) /\ DOMAIN t = 1 .. Len(p) - 1
      /\ \A i \in 1 .. Len(p) - 1 : t[i] = p[i + 1]
  BY <1>1, PendingFacts
<1>3. CASE Len(p) = 1
  BY <1>3, IdlePaced DEF Continued, Idle
<1>4. CASE Len(p) # 1
  <2>1. Continued(call).pending = t /\ Continued(call).step = "handling"
    BY <1>1, <1>4 DEF Continued, CallType
  <2>2. \A n \in 1 .. Len(p) : p[n].revision = life.revision + n - 1
    BY <1>2 DEF Paced
  <2>3. ASSUME NEW n \in DOMAIN t PROVE t[n].revision = life.revision + n
    <3>1. n \in Nat /\ n \in 1 .. Len(p) - 1 /\ n + 1 \in 1 .. Len(p) /\ life.revision + (n + 1) - 1 = life.revision + n
      BY <1>2, <2>3
    <3>2. t[n] = p[n + 1]
      BY <1>2, <3>1
    <3> QED BY <2>2, <3>1, <3>2
  <2> HIDE DEF t
  <2> QED BY <2>1, <2>3 DEF Paced
<1> QED BY <1>3, <1>4

\* A step that ends calls, or lets one go on, while lifecycle and camera stay as they are.
CallsEnd ==
  \A k \in Caller :
    \/ calls'[k] = calls[k]
    \/ calls'[k] = Idle /\ calls[k].step # "applying"
    \/ calls'[k] = Continued(calls[k]) /\ calls[k].step = "waiting"

LEMMA FrameEnds ==
  ASSUME TypeInv, FrameInv, CallsEnd, UNCHANGED <<lifecycle, camera, overlapped>>
  PROVE  FrameInv'
<1> SUFFICES ASSUME ~overlapped PROVE FrameInv'
  BY DEF FrameInv
<1>0. /\ \A k \in Caller : CallOK(calls[k])
      /\ lifecycle.revision \in Nat
  BY BoundsAssumption DEF TypeInv, CallTypes, DeviceTypes
<1>1. /\ Alone /\ \A k \in Caller : Paced(calls[k], lifecycle, camera)
      /\ camera.accepting /\ NoneApplying => Recording(lifecycle, camera)
  BY DEF FrameInv
<1>2. ASSUME NEW k \in Caller
      PROVE  /\ Paced(calls'[k], lifecycle, camera)
             /\ calls'[k].step # "idle" => calls[k].step # "idle"
             /\ calls'[k].step # "applying" => calls[k].step # "applying"
  <2>1. CASE calls'[k] = calls[k]
    BY <1>1, <2>1
  <2>2. CASE calls'[k] = Idle /\ calls[k].step # "applying"
    BY <2>2, IdlePaced DEF Idle
  <2>3. CASE calls'[k] = Continued(calls[k]) /\ calls[k].step = "waiting"
    BY <1>0, <1>1, <2>3, ContinuedPaced
  <2> QED BY <2>1, <2>2, <2>3 DEF CallsEnd
<1>3. Alone'
  BY <1>1, <1>2 DEF Alone
<1>4. NoneApplying' => NoneApplying
  BY <1>2 DEF NoneApplying
<1> QED BY <1>1, <1>2, <1>3, <1>4 DEF FrameInv

LEMMA FrameStudio ==
  ASSUME TypeInv, FrameInv, Studio PROVE FrameInv'
<1>1. CallsEnd
  <2>1. CASE UNCHANGED calls
    BY <2>1 DEF CallsEnd
  <2>2. ASSUME NEW p \in posts, RecordAck(p) PROVE CallsEnd
    BY <2>2 DEF CallsEnd, RecordAck, AwaitsAck
  <2>3. ASSUME NEW p \in posts, RecordAckFails(p) PROVE CallsEnd
    BY <2>3 DEF CallsEnd, RecordAckFails, AwaitsAck
  <2>4. CASE StudioCrash
    BY <2>4 DEF CallsEnd, StudioCrash
  <2> QED BY <2>1, <2>2, <2>3, <2>4
          DEF Studio, IssueControl, IssueControlFails, StudioReopen, ToolOpens, ToolIssues, deviceVars
<1> QED BY <1>1, StudioLeavesLife, FrameEnds

\* The lifecycle accepts the start or retake that a server has checked, when it is its turn.
LEMMA CheckedIsAccepted ==
  ASSUME DeviceTypes, NEW s \in Seq(Command), Lawful(s), Follows(lifecycle, s),
         NEW c \in Command, Delivered(s, c), c.revision = lifecycle.revision + 1,
         c.action \in {"start", "retake"}
  PROVE  LifecycleAccepts(c)
<1>1. /\ lifecycle.revision \in Nat /\ Len(s) \in Nat
      /\ lifecycle.revision + 1 \in 1 .. Len(s) /\ lifecycle.revision + 1 - 1 = lifecycle.revision
      /\ s[lifecycle.revision + 1] = c
  BY BoundsAssumption, LenProperties DEF DeviceTypes, Delivered
<1>2. Allowed(StateAfter(s, lifecycle.revision), c)
  BY <1>1 DEF Lawful, Valid
<1>3. c.of # NoTake <=> c.action = "retake"
  BY CommandFacts
<1>4. CASE c.action = "start"
  BY <1>2, <1>4 DEF Allowed, Idling, Follows, LifecycleAccepts
<1>5. CASE c.action = "retake"
  BY <1>2, <1>3, <1>5 DEF Allowed, Idling, Follows, LifecycleAccepts
<1> QED BY <1>4, <1>5

\* One call steps, the others stay.
LEMMA FrameOne ==
  ASSUME TypeInv, FrameInv, NEW k \in Caller, NEW call, calls' = [calls EXCEPT ![k] = call],
         ~overlapped, calls[k].step # "idle",
         Paced(call, lifecycle', camera'),
         camera'.accepting /\ call.step # "applying" => Recording(lifecycle', camera')
  PROVE  FrameInv'
<1>1. /\ calls \in [Caller -> CallType] /\ Alone
      /\ calls'[k] = call /\ \A j \in Caller \ {k} : calls'[j] = calls[j]
  BY DEF TypeInv, CallTypes, FrameInv
<1>2. \A j \in Caller \ {k} : calls'[j].step = "idle"
  BY <1>1 DEF Alone
<1>3. \A j \in Caller : Paced(calls'[j], lifecycle', camera')
  <2>1. \A j \in Caller \ {k} : Paced(calls'[j], lifecycle', camera')
    BY <1>2 DEF Paced
  <2> QED BY <1>1, <2>1
<1>4. Alone'
  BY <1>2 DEF Alone
<1>5. camera'.accepting /\ NoneApplying' => Recording(lifecycle', camera')
  BY <1>1 DEF NoneApplying
<1> QED BY <1>3, <1>4, <1>5 DEF FrameInv

LEMMA FrameDevice ==
  ASSUME TypeInv, StudioInv, HistoryInv, FrameInv, Device
  PROVE  FrameInv'
<1>0. /\ calls \in [Caller -> CallType] /\ (\A k \in Caller : CallOK(calls[k]))
      /\ lifecycle.revision \in Nat /\ DeviceTypes /\ overlapped \in BOOLEAN
  BY BoundsAssumption DEF TypeInv, CallTypes, DeviceTypes
<1>1. ASSUME ~overlapped
      PROVE  /\ Alone /\ \A k \in Caller : Paced(calls[k], lifecycle, camera)
             /\ camera.accepting /\ NoneApplying => Recording(lifecycle, camera)
  BY <1>1 DEF FrameInv
<1>2. ASSUME NEW k \in Caller, Poll(k) PROVE FrameInv'
  <2> SUFFICES ASSUME ~overlapped' PROVE FrameInv'
    BY DEF FrameInv
  <2> DEFINE call == [step |-> "polling", since |-> lifecycle.revision, pending |-> <<>>]
  <2>1. /\ ~overlapped /\ UNCHANGED <<lifecycle, camera>> /\ calls' = [calls EXCEPT ![k] = call]
        /\ \A j \in Caller : calls[j].step = "idle"
    BY <1>2 DEF Poll
  <2>2. calls'[k] = call /\ \A j \in Caller \ {k} : calls'[j].step = "idle"
    BY <1>0, <2>1
  <2>3. \A j \in Caller : Paced(calls'[j], lifecycle', camera')
    BY <2>1, <2>2 DEF Paced
  <2>4. NoneApplying
    BY <2>1 DEF NoneApplying
  <2>5. Alone'
    BY <2>2 DEF Alone
  <2> QED BY <1>1, <2>1, <2>3, <2>4, <2>5 DEF FrameInv
<1>3. ASSUME NEW k \in Caller, Answer(k) PROVE FrameInv'
  <2> SUFFICES ASSUME ~overlapped' PROVE FrameInv'
    BY DEF FrameInv
  <2>1. /\ ~overlapped /\ UNCHANGED <<lifecycle, camera>> /\ calls[k].step = "polling" /\ studioUp
    BY <1>3 DEF Answer
  <2>2. calls' = [calls EXCEPT ![k] = calls'[k]] /\ calls'[k].step \in {"idle", "handling"}
    BY <1>0, <1>3 DEF Answer, Idle, CallType
  <2>3. calls[k].since = lifecycle.revision
    BY <1>1, <2>1 DEF Paced
  <2>4. ASSUME NEW n \in DOMAIN calls'[k].pending
        PROVE  calls'[k].pending[n].revision = lifecycle.revision + n
    <3> DEFINE m == calls[k].since + n
    <3>1. m \in 1 .. Len(commands) /\ calls'[k].pending[n] = commands[m]
      BY <1>3, <2>4, AnswerFacts
    <3> HIDE DEF m
    <3>2. commands[m].revision = m
      BY <2>1, <3>1 DEF StudioInv, Holds, Lawful, Numbered
    <3> QED BY <2>3, <3>1, <3>2 DEF m
  <2>5. Paced(calls'[k], lifecycle', camera')
    BY <2>1, <2>2, <2>4 DEF Paced
  <2>6. camera.accepting => Recording(lifecycle, camera)
    BY <1>1, <2>1 DEF Alone, NoneApplying
  <2> QED BY <2>1, <2>2, <2>5, <2>6, FrameOne
<1>4. ASSUME NEW k \in Caller, RequestFails(k) \/ HandlerThrows(k) PROVE FrameInv'
  <2>1. CallsEnd
    BY <1>0, <1>4 DEF CallsEnd, RequestFails, HandlerThrows
  <2> QED BY <1>4, <2>1, FrameEnds DEF RequestFails, HandlerThrows
<1>5. ASSUME NEW k \in Caller, Handle(k) PROVE FrameInv'
  <2> SUFFICES ASSUME ~overlapped' PROVE FrameInv'
    BY DEF FrameInv
  <2> DEFINE c == Head(calls[k].pending)
             call == [calls[k] EXCEPT !.step = "applying"]
  <2>1. /\ ~overlapped /\ UNCHANGED lifecycle /\ calls[k].step = "handling" /\ camera' = Handled(c)
        /\ calls' = [calls EXCEPT ![k] = call]
    BY <1>0, <1>5 DEF Handle
  <2>2. c = calls[k].pending[1]
    BY <1>0, <2>1, PendingFacts DEF CallOK, CallType
  <2>3. camera'.accepting => c.action \in {"start", "retake"} /\ c.take = camera'.take
    BY <1>0, <2>1 DEF Handled, DeviceTypes
  <2>4. call.step = "applying" /\ call.pending = calls[k].pending
    BY <1>0 DEF CallType
  <2> HIDE DEF c, call
  <2>5. Paced(call, lifecycle', camera')
    BY <1>1, <2>1, <2>2, <2>3, <2>4 DEF Paced
  <2> QED BY <2>1, <2>4, <2>5, FrameOne
<1>6. ASSUME NEW k \in Caller, ApplyCommand(k) PROVE FrameInv'
  <2> SUFFICES ASSUME ~overlapped' PROVE FrameInv'
    BY DEF FrameInv
  <2> DEFINE c == Head(calls[k].pending)
             call == [calls[k] EXCEPT !.step = "waiting"]
  <2>1. /\ ~overlapped /\ UNCHANGED camera /\ calls[k].step = "applying" /\ lifecycle' = Applied(c)
        /\ calls' = [calls EXCEPT ![k] = call] /\ LifecycleAccepts(c)
    BY <1>0, <1>6 DEF ApplyCommand
  <2>2. /\ c = calls[k].pending[1] /\ Len(calls[k].pending) \in Nat
        /\ DOMAIN calls[k].pending = 1 .. Len(calls[k].pending)
    BY <1>0, <2>1, PendingFacts DEF CallOK, CallType
  <2>3. call.step = "waiting" /\ call.pending = calls[k].pending
    BY <1>0 DEF CallType
  <2>4. lifecycle'.revision = lifecycle.revision + 1
    BY <2>1 DEF Applied, LifecycleAccepts
  <2>5. camera.accepting => c.action \in {"start", "retake"} /\ c.take = camera.take
    BY <1>1, <2>1, <2>2 DEF Paced
  <2>6. camera'.accepting => Recording(lifecycle', camera')
    BY <2>1, <2>5 DEF Applied, Recording
  <2> HIDE DEF c, call
  <2>7. \A n \in DOMAIN call.pending : call.pending[n].revision = lifecycle'.revision + n - 1
    <3>1. \A n \in DOMAIN call.pending : call.pending[n].revision = lifecycle.revision + n
      BY <1>1, <2>1, <2>3 DEF Paced
    <3>2. \A n \in DOMAIN call.pending : n \in Nat
      BY <2>2, <2>3
    <3> QED BY <1>0, <2>4, <3>1, <3>2
  <2>8. Paced(call, lifecycle', camera')
    BY <2>3, <2>7 DEF Paced
  <2> QED BY <2>1, <2>6, <2>8, FrameOne
<1>7. ASSUME NEW k \in Caller, ApplyRefused(k) PROVE FrameInv'
  <2> SUFFICES ASSUME ~overlapped' PROVE FrameInv'
    BY DEF FrameInv
  <2> DEFINE c == Head(calls[k].pending)
  <2>1. /\ ~overlapped /\ UNCHANGED <<lifecycle, camera>> /\ calls[k].step = "applying"
        /\ calls' = [calls EXCEPT ![k] = Idle] /\ ~LifecycleAccepts(c)
    BY <1>7 DEF ApplyRefused
  <2>2. c = calls[k].pending[1] /\ 1 \in DOMAIN calls[k].pending /\ c \in Command
    BY <1>0, <2>1, PendingFacts DEF CallOK, CallType
  <2>3. c.revision = lifecycle.revision + 1
    BY <1>1, <2>1, <2>2 DEF Paced
  <2>4. PICK s : Given(s)
    BY DEF HistoryInv
  <2>5. s \in Seq(Command) /\ Lawful(s) /\ Follows(lifecycle, s) /\ Delivered(s, c)
    BY <2>2, <2>4 DEF Given, Holds, InHand
  <2> HIDE DEF c
  <2>6. c.action \notin {"start", "retake"}
    BY <1>0, <2>1, <2>2, <2>3, <2>5, CheckedIsAccepted
  <2>7. ~camera.accepting
    BY <1>1, <2>1, <2>2, <2>6 DEF Paced
  <2> QED BY <2>1, <2>7, IdlePaced, FrameOne
<1>8. CASE CameraInterrupted
  <2> SUFFICES ASSUME ~overlapped' PROVE FrameInv'
    BY DEF FrameInv
  <2>1. ~overlapped /\ UNCHANGED <<lifecycle, calls>> /\ ~camera'.accepting
    BY <1>0, <1>8 DEF CameraInterrupted, DeviceTypes
  <2>2. \A k \in Caller : Paced(calls'[k], lifecycle', camera')
    BY <1>1, <2>1 DEF Paced
  <2>3. Alone'
    BY <1>1, <2>1 DEF Alone
  <2> QED BY <2>1, <2>2, <2>3 DEF FrameInv
<1>9. CASE AppCrash
  <2>1. ~camera'.accepting /\ \A k \in Caller : calls'[k] = Idle
    BY <1>9 DEF AppCrash, NewCamera
  <2>2. Alone' /\ \A k \in Caller : Paced(calls'[k], lifecycle', camera')
    BY <2>1, IdlePaced DEF Alone, Idle
  <2> QED BY <2>1, <2>2 DEF FrameInv
<1>10. CASE AppRestart
  <2>1. CallsEnd
    BY <1>10 DEF CallsEnd, AppRestart
  <2> QED BY <1>10, <2>1, FrameEnds DEF AppRestart
<1> QED BY <1>2, <1>3, <1>4, <1>5, <1>6, <1>7, <1>8, <1>9, <1>10 DEF Device

(***************************************************************************)
(* Frames are taken in only while the lifecycle records, and into its      *)
(* take: whatever is interrupted, denied, lost, repeated or restarted, as  *)
(* long as calls of applyPendingCommands do not overlap.                   *)
(***************************************************************************)
THEOREM FramesBelong == Spec => []FramesBelongToTake
<1>1. Init => ControlInv /\ FrameInv
  BY ControlInit, FrameInit
<1>2. ControlInv /\ FrameInv /\ [Next]_vars => ControlInv' /\ FrameInv'
  <2> SUFFICES ASSUME ControlInv, FrameInv, [Next]_vars PROVE ControlInv' /\ FrameInv'
    OBVIOUS
  <2>1. ControlInv'
    BY ControlStep
  <2>2. TypeInv /\ StudioInv /\ HistoryInv
    BY DEF ControlInv
  <2>3. CASE Studio
    BY <2>1, <2>2, <2>3, FrameStudio
  <2>4. CASE Device
    BY <2>1, <2>2, <2>4, FrameDevice
  <2>5. CASE UNCHANGED vars
    <3>1. CallsEnd /\ UNCHANGED <<lifecycle, camera, overlapped>>
      BY <2>5 DEF CallsEnd, vars, deviceVars
    <3> QED BY <2>1, <2>2, <3>1, FrameEnds
  <2> QED BY <2>3, <2>4, <2>5 DEF Next
<1>3. FrameInv => FramesBelongToTake
  BY DEF FrameInv, FramesBelongToTake, NoneApplying, Recording
<1> QED BY <1>1, <1>2, <1>3, PTL DEF Spec

-----------------------------------------------------------------------------
(* Acknowledgements: on their way, in the server's memory or in its        *)
(* journal, they say that this run of the app, or one before it, has       *)
(* applied their command.                                                  *)

Known == posts \cup acks \cup Records(ackLog)

WasApplied(a) == a.run < run \/ (a.run = run /\ (appUp => a.revision <= lifecycle.revision))

AckInv == \A a \in Known \ {Corrupt} : WasApplied(a)

LEMMA AckInit == Init => AckInv
BY EmptySeq DEF Init, AckInv, Known, EmptyJournal, Records, ToSet

LEMMA AcksKept ==
  ASSUME AckInv, Known' \subseteq Known \cup {Corrupt}, UNCHANGED <<appUp, run, lifecycle>>
  PROVE  AckInv'
BY DEF AckInv, WasApplied

LEMMA AckStudio ==
  ASSUME TypeInv, StudioInv, AckInv, Studio
  PROVE  AckInv'
<1>0. /\ ackLog \in JournalOf(Ack) /\ posts \in SUBSET Ack /\ LastIsRecord(ackLog) /\ Corrupt \notin Ack
  BY SentinelAssumption DEF TypeInv, StudioTypes, StudioInv
<1>1. ASSUME NEW p \in posts, ackLog' = AppendRecord(ackLog, p) \/ ackLog' \in InterruptedAppend(ackLog, p)
      PROVE  Records(ackLog') \subseteq Known \cup {Corrupt}
  <2>1. p \in Ack
    BY <1>0
  <2>2. Records(ackLog') \subseteq Records(ackLog) \cup {p, Corrupt}
    BY <1>0, <1>1, <2>1, AppendRecordEffect, InterruptedAppendEffect
  <2> QED BY <2>2 DEF Known
<1>2. Known' \subseteq Known \cup {Corrupt}
  <2>1. CASE UNCHANGED <<posts, acks, ackLog>>
    BY <2>1 DEF Known
  <2>2. ASSUME NEW p \in posts, RecordAck(p) PROVE Known' \subseteq Known \cup {Corrupt}
    <3>1. posts' \subseteq posts /\ acks' \subseteq acks \cup posts
      BY <2>2 DEF RecordAck
    <3>2. Records(ackLog') \subseteq Known \cup {Corrupt}
      <4>1. ackLog' = ackLog \/ ackLog' = AppendRecord(ackLog, p)
        BY <2>2 DEF RecordAck
      <4> QED BY <1>1, <4>1 DEF Known
    <3> QED BY <3>1, <3>2 DEF Known
  <2>3. ASSUME NEW p \in posts, RecordAckFails(p) PROVE Known' \subseteq Known \cup {Corrupt}
    <3>1. posts' \subseteq posts /\ acks' = acks
      BY <2>3 DEF RecordAckFails
    <3>2. Records(ackLog') \subseteq Known \cup {Corrupt}
      BY <1>1, <2>3 DEF RecordAckFails
    <3> QED BY <3>1, <3>2 DEF Known
  <2>4. CASE StudioCrash
    <3>1. posts' = {} /\ acks' = {}
      BY <2>4 DEF StudioCrash
    <3>2. Records(ackLog') \subseteq Known \cup {Corrupt}
      <4>1. ackLog' = ackLog \/ \E p \in posts : ackLog' \in InterruptedAppend(ackLog, p)
        BY <2>4 DEF StudioCrash
      <4> QED BY <1>1, <4>1 DEF Known
    <3> QED BY <3>1, <3>2 DEF Known
  <2>5. CASE StudioReopen \/ ToolOpens
    <3>1. ackLog' = Repaired(ackLog) /\ posts' = posts /\ acks' \subseteq acks \cup Records(ackLog)
      BY <2>5 DEF StudioReopen, ToolOpens
    <3>2. Records(ackLog') = Records(ackLog)
      BY <1>0, <3>1, RepairedEffect
    <3> QED BY <3>1, <3>2 DEF Known
  <2> QED BY <2>1, <2>2, <2>3, <2>4, <2>5 DEF Studio, IssueControl, IssueControlFails, ToolIssues
<1> QED BY <1>2, StudioLeavesLife, AcksKept

LEMMA AckDevice ==
  ASSUME TypeInv, AckInv, Device
  PROVE  AckInv'
<1>0. /\ Known \subseteq Ack \cup {Corrupt} /\ run \in Nat /\ lifecycle.revision \in Nat
      /\ \A a \in Ack : a.run \in Nat /\ a.revision \in Nat
  <2>1. Records(ackLog) \subseteq Ack \cup {Corrupt}
    BY ElementsInRange DEF TypeInv, StudioTypes, JournalOf, Records
  <2>2. \A a \in Ack : a.run \in Nat /\ a.revision \in Nat
    BY BoundsAssumption DEF Ack, Revision
  <2> QED BY <2>1, <2>2, BoundsAssumption DEF TypeInv, StudioTypes, DeviceTypes, Known
<1>1. UNCHANGED <<acks, ackLog>>
  BY DeviceLeavesStudio DEF studioVars
<1>2. CASE posts' \subseteq posts /\ UNCHANGED <<appUp, run, lifecycle>>
  <2>1. Known' \subseteq Known \cup {Corrupt}
    BY <1>1, <1>2 DEF Known
  <2> QED BY <1>2, <2>1, AcksKept
<1>3. ASSUME NEW k \in Caller, ApplyCommand(k) PROVE AckInv'
  <2> DEFINE c == Head(calls[k].pending)
             a1 == [revision |-> c.revision, run |-> run]
  <2>1. /\ appUp /\ LifecycleAccepts(c) /\ lifecycle' = Applied(c) /\ posts' = posts \cup {a1}
        /\ UNCHANGED <<appUp, run>>
    BY <1>3 DEF ApplyCommand
  <2>2. c.revision = lifecycle.revision + 1 /\ lifecycle'.revision = c.revision
    BY <2>1 DEF LifecycleAccepts, Applied
  <2>3. Known' = Known \cup {a1}
    BY <1>1, <2>1 DEF Known
  <2>4. ASSUME NEW a, a = a1 PROVE WasApplied(a)'
    <3>1. a.run = run /\ a.revision = lifecycle'.revision
      BY <2>2, <2>4
    <3> QED BY <1>0, <2>1, <2>2, <3>1 DEF WasApplied
  <2>5. ASSUME NEW a \in Known \ {Corrupt} PROVE WasApplied(a)'
    <3>1. WasApplied(a) /\ a.run \in Nat /\ a.revision \in Nat
      BY <1>0 DEF AckInv
    <3>2. a.run < run \/ (a.run = run /\ a.revision <= lifecycle.revision)
      BY <2>1, <3>1 DEF WasApplied
    <3>3. a.run < run' \/ (a.run = run' /\ a.revision <= lifecycle'.revision)
      BY <1>0, <2>1, <2>2, <3>1, <3>2
    <3> QED BY <3>3 DEF WasApplied
  <2> QED BY <2>3, <2>4, <2>5 DEF AckInv
<1>4. CASE AppCrash
  <2>1. Known' = Known /\ ~appUp' /\ run' = run
    BY <1>1, <1>4 DEF AppCrash, Known
  <2> QED BY <2>1 DEF AckInv, WasApplied
<1>5. CASE AppRestart
  <2>1. Known' = Known /\ run' = run + 1
    BY <1>1, <1>5 DEF AppRestart, Known
  <2>2. ASSUME NEW a \in Known \ {Corrupt} PROVE a.run < run'
    BY <1>0, <2>1, <2>2 DEF AckInv, WasApplied
  <2> QED BY <2>1, <2>2 DEF AckInv, WasApplied
<1> QED BY <1>2, <1>3, <1>4, <1>5
        DEF Device, Poll, Answer, RequestFails, Handle, HandlerThrows, ApplyRefused, CameraInterrupted

(***************************************************************************)
(* What the studio counts as acknowledged, in memory or in its journal,    *)
(* the device has applied: acknowledgements may be lost, repeated, late or *)
(* torn, and both ends may die, but none is recorded before its command    *)
(* was applied.                                                            *)
(***************************************************************************)
THEOREM AcknowledgedIsApplied == Spec => []AckedWereApplied
<1>1. Init => ControlInv /\ AckInv
  BY ControlInit, AckInit
<1>2. ControlInv /\ AckInv /\ [Next]_vars => ControlInv' /\ AckInv'
  <2> SUFFICES ASSUME ControlInv, AckInv, [Next]_vars PROVE ControlInv' /\ AckInv'
    OBVIOUS
  <2>1. ControlInv' /\ TypeInv /\ StudioInv
    BY ControlStep DEF ControlInv
  <2>2. CASE Studio
    BY <2>1, <2>2, AckStudio
  <2>3. CASE Device
    BY <2>1, <2>3, AckDevice
  <2>4. CASE UNCHANGED vars
    <3>1. Known' = Known /\ UNCHANGED <<appUp, run, lifecycle>>
      BY <2>4 DEF vars, studioVars, deviceVars, Known
    <3> QED BY <2>1, <3>1, AcksKept
  <2> QED BY <2>2, <2>3, <2>4 DEF Next
<1>3. AckInv => AckedWereApplied
  BY DEF AckInv, AckedWereApplied, WasApplied, Known
<1> QED BY <1>1, <1>2, <1>3, PTL DEF Spec
=============================================================================
