----------------------- MODULE WorkflowPrograms_proofs -----------------------
(* What every request of DocWorkflow has still to run, proved of the         *)
(* programs of all the pages: which statement may come before which, and     *)
(* what is still to come once a statement has run.  Nothing here is about a  *)
(* state; DocWorkflow_proofs uses it for every state.                        *)
EXTENDS DocWorkflow, SequenceTheorems, TLAPS

Inserts == {"insertDetails", "insertRework", "insertExecuter"}
Waiting == {"UNAUDIT", "ROLLBACK", "PREPUBLISH"}

\* The statements without a parameter
Plain ==
  {"findExecuter", "readStatus", "insertRework", "insertExecuter", "invalidate",
   "pickDelivery", "deleteDetails", "deleteTask", "endPublish", "garbage", "recover"}

Statements ==
  [do : {"check"}, dest : Status \union {"RECYCLED"}, skip : Nat]
    \union [do : {"findTask"}, pre : Status]
    \union [do : {"setStatus"}, dest : Status]
    \union [do : {"insertTask"}, pre : Status, linked : BOOLEAN]
    \union [do : {"insertDetails"}, performers : (SUBSET Users) \ {{}}]
    \union [do : {"complete"}, after : Status]
    \union [do : Plain]

\* A statement that may follow any other, or be the one a check skips to
Free(y) ==
  \/ y.do \in {"check", "readStatus"}
  \/ (y.do = "setStatus" /\ y.dest # "PUBLISHING")

\* What the statement before y must be
Precedes(x, y) ==
  /\ y.do \notin {"findTask", "findExecuter"}
  /\ y.do = "insertDetails" => x.do = "insertTask" /\ x.pre \in {"UNAUDIT", "PREPUBLISH"}
  /\ y.do \in {"insertRework", "insertExecuter"} =>
       x.do = "insertTask" /\ x.pre = "ROLLBACK" /\ x.linked
  /\ y.do = "insertTask" => \/ x.do = "invalidate" /\ y.pre = "ROLLBACK"
                            \/ x.do = "setStatus" /\ x.dest = y.pre
  /\ y.do = "invalidate" => x.do = "complete"
  /\ y.do = "complete" => x.do \in {"setStatus", "insertDetails", "findExecuter"}
  /\ y.do = "pickDelivery" => x.do = "setStatus" /\ x.dest = "NEW"
  /\ y.do = "deleteDetails" => x.do = "pickDelivery"
  /\ y.do = "deleteTask" => x.do = "deleteDetails"
  /\ y.do = "endPublish" => x.do = "setStatus" /\ x.dest = "PUBLISHING"
  /\ y.do = "setStatus" /\ y.dest = "PUBLISHING" => x.do = "readStatus"

\* From i on, s comes to one of the statements T, after none but of the kinds B.
Ahead(s, i, B, T) ==
  \E n \in i .. Len(s) : s[n] \in T /\ \A m \in i .. (n - 1) : s[m].do \in B

\* The rework task of a rejection is still to be inserted.
Reworks == {InsertTask("ROLLBACK", TRUE)}
OwesAt(s, i) == Ahead(s, i, {"invalidate", "setStatus"}, Reworks)

\* A task for the status st, or another status, is still to come.
Settling(st) ==
  {x \in Statements : x.do = "setStatus" \/ (x.do = "insertTask" /\ x.pre = st)}
WillAt(s, i, st) == Ahead(s, i, {"complete", "invalidate"}, Settling(st))

\* What must come after the statement i of s
Follows(s, i) ==
  /\ s[i].do = "check" =>
       /\ i + s[i].skip <= Len(s)
       /\ i + s[i].skip < Len(s) => Free(s[i + s[i].skip + 1])
  /\ s[i].do = "complete" => i < Len(s) /\ s[i + 1].do = "invalidate"
  /\ s[i].do = "complete" /\ s[i].after = "ROLLBACK" => OwesAt(s, i + 1)
  /\ s[i].do = "insertTask" => i < Len(s) /\ s[i + 1].do \in Inserts
  /\ s[i].do = "setStatus" /\ s[i].dest \in Waiting => WillAt(s, i + 1, s[i].dest)
  /\ s[i].do = "findExecuter" => \A st \in Status : WillAt(s, i + 1, st)

Rules(s) ==
  /\ s \in Seq(Statements)
  /\ \A i \in 1 .. (Len(s) - 1) : Precedes(s[i], s[i + 1])
  /\ \A i \in 1 .. Len(s) : Follows(s, i)

Kinds(s) == {s[i].do : i \in 1 .. Len(s)}
------------------------------------------------------------------------------
(* Sequences *)

\* t is s without its first n elements.
Suffix(s, n, t) ==
  /\ n \in 0 .. Len(s)
  /\ t \in Seq(Statements)
  /\ Len(t) = Len(s) - n
  /\ \A i \in 1 .. Len(t) : t[i] = s[n + i]

\* Only the empty program has no statement.
LEMMA EmptyProgram ==
  ASSUME NEW s \in Seq(Statements)
  PROVE  Len(s) \in Nat /\ (s = <<>> <=> Len(s) = 0)
<1>1. /\ Len(<<>>) = 0
      /\ s # <<>> => Len(s) \in Nat \ {0}
  BY EmptySeq
<1>2. Len(s) \in Nat
  BY LenProperties
<1>. QED BY <1>1, <1>2

\* What running a statement leaves of a program.
LEMMA TailIsSuffix ==
  ASSUME NEW s \in Seq(Statements), s # <<>>
  PROVE  /\ Len(s) \in Nat \ {0}
         /\ Suffix(s, 1, Tail(s))
         /\ s[1] = Head(s)
         /\ Head(s) \in Statements
         /\ Tail(s) = <<>> <=> Len(s) = 1
<1>1. Len(s) \in Nat \ {0}
  BY EmptySeq
<1>2. /\ Tail(s) \in Seq(Statements)
      /\ Len(Tail(s)) = Len(s) - 1
      /\ \A i \in 1 .. Len(Tail(s)) : Tail(s)[i] = s[1 + i]
      /\ Head(s) = s[1]
      /\ Head(s) \in Statements
  BY <1>1, HeadTailProperties, ElementOfSeq
<1>3. Tail(s) = <<>> <=> Len(s) = 1
  <2>. DEFINE t == Tail(s)
  <2>1. t \in Seq(Statements) /\ Len(t) = Len(s) - 1
    BY <1>2
  <2>. HIDE DEF t
  <2>2. t = <<>> <=> Len(t) = 0
    BY <2>1, EmptyProgram
  <2>3. t = <<>> <=> Len(s) = 1
    BY <1>1, <2>1, <2>2
  <2>. QED BY <2>3 DEF t
<1>. QED BY <1>1, <1>2, <1>3 DEF Suffix

\* What a check leaves of a program when it skips k statements.
LEMMA SkipIsSuffix ==
  ASSUME NEW s \in Seq(Statements), s # <<>>, NEW k \in Nat, k + 1 <= Len(s)
  PROVE  LET t == SubSeq(Tail(s), k + 1, Len(Tail(s)))
         IN  Suffix(s, k + 1, t) /\ (t = <<>> <=> k + 1 = Len(s))
<1>. DEFINE rest == Tail(s)
            t == SubSeq(rest, k + 1, Len(rest))
<1>1. /\ Len(s) \in Nat \ {0}
      /\ rest \in Seq(Statements)
      /\ Len(rest) = Len(s) - 1
      /\ \A i \in 1 .. Len(rest) : rest[i] = s[1 + i]
  BY TailIsSuffix DEF Suffix
<1>. HIDE DEF rest
<1>2. /\ \A i \in (k + 1) .. Len(rest) : rest[i] \in Statements
      /\ k + 1 \in Int /\ Len(rest) \in Int
  BY <1>1, ElementOfSeq
<1>3. /\ t \in Seq(Statements)
      /\ Len(t) = IF k + 1 <= Len(rest) THEN Len(rest) - (k + 1) + 1 ELSE 0
      /\ \A i \in 1 .. (Len(rest) - (k + 1) + 1) : t[i] = rest[(k + 1) + i - 1]
  BY <1>2, SubSeqProperties
<1>. HIDE DEF t
<1>4. /\ Len(t) = Len(s) - (k + 1)
      /\ \A i \in 1 .. Len(t) : t[i] = rest[k + i] /\ k + i \in 1 .. Len(rest)
  <2>1. Len(t) = Len(s) - (k + 1) /\ Len(t) = Len(rest) - (k + 1) + 1
    BY <1>1, <1>3
  <2>2. \A i \in 1 .. Len(t) : (k + 1) + i - 1 = k + i /\ k + i \in 1 .. Len(rest)
    BY <1>1, <2>1
  <2>3. \A i \in 1 .. Len(t) : t[i] = rest[(k + 1) + i - 1]
    BY <1>3, <2>1
  <2>. QED BY <2>1, <2>2, <2>3
<1>5. \A i \in 1 .. Len(t) : t[i] = s[(k + 1) + i]
  <2>1. SUFFICES ASSUME NEW i \in 1 .. Len(t)
                 PROVE  t[i] = s[(k + 1) + i]
    OBVIOUS
  <2>2. t[i] = s[1 + (k + i)]
    BY <1>1, <1>4
  <2>3. 1 + (k + i) = (k + 1) + i
    BY <1>1, <1>4
  <2>. QED BY <2>2, <2>3
<1>6. Suffix(s, k + 1, t)
  BY <1>1, <1>3, <1>4, <1>5 DEF Suffix
<1>7. t = <<>> <=> k + 1 = Len(s)
  BY <1>1, <1>3, <1>4, EmptyProgram
<1>. QED BY <1>6, <1>7 DEF rest, t

\* One program after another.
LEMMA Joined ==
  ASSUME NEW s \in Seq(Statements), NEW t \in Seq(Statements)
  PROVE  /\ s \o t \in Seq(Statements)
         /\ Len(s) \in Nat /\ Len(t) \in Nat
         /\ Len(s \o t) = Len(s) + Len(t)
         /\ \A i \in 1 .. Len(s) : (s \o t)[i] = s[i]
         /\ \A i \in 1 .. Len(t) : (s \o t)[Len(s) + i] = t[i]
<1>1. Len(s) \in Nat /\ Len(t) \in Nat
  BY LenProperties
<1>2. s \o t \in Seq(Statements) /\ Len(s \o t) = Len(s) + Len(t)
  BY ConcatProperties
<1>3. \A i \in 1 .. (Len(s) + Len(t)) :
        (s \o t)[i] = IF i <= Len(s) THEN s[i] ELSE t[i - Len(s)]
  BY ConcatProperties
<1>. QED BY <1>1, <1>2, <1>3

\* What lies ahead lies ahead in a suffix that keeps the place.
LEMMA AheadInSuffix ==
  ASSUME NEW s \in Seq(Statements), NEW t, NEW k \in Nat, Suffix(s, k, t),
         NEW i \in Nat \ {0}, NEW B, NEW T, Ahead(s, k + i, B, T)
  PROVE  Ahead(t, i, B, T)
<1>1. /\ Len(s) \in Nat /\ k \in 0 .. Len(s)
      /\ Len(t) = Len(s) - k
      /\ \A j \in 1 .. Len(t) : t[j] = s[k + j]
  BY EmptyProgram DEF Suffix
<1>2. PICK n \in (k + i) .. Len(s) :
        s[n] \in T /\ \A m \in (k + i) .. (n - 1) : s[m].do \in B
  BY DEF Ahead
<1>3. n - k \in i .. Len(t) /\ n - k \in 1 .. Len(t) /\ k + (n - k) = n
  BY <1>1, <1>2
<1>4. t[n - k] \in T
  BY <1>1, <1>2, <1>3
<1>5. ASSUME NEW m \in i .. ((n - k) - 1)
      PROVE  t[m].do \in B
  <2>1. m \in 1 .. Len(t) /\ k + m \in (k + i) .. (n - 1)
    BY <1>1, <1>2, <1>3, <1>5
  <2>. QED BY <1>1, <1>2, <2>1
<1>. QED BY <1>3, <1>4, <1>5 DEF Ahead

\* What lies ahead in the first of two programs lies ahead in both together.
LEMMA AheadOnTheLeft ==
  ASSUME NEW s \in Seq(Statements), NEW t \in Seq(Statements),
         NEW i \in Nat \ {0}, NEW B, NEW T, Ahead(s, i, B, T)
  PROVE  Ahead(s \o t, i, B, T)
<1>1. PICK n \in i .. Len(s) : s[n] \in T /\ \A m \in i .. (n - 1) : s[m].do \in B
  BY DEF Ahead
<1>. DEFINE u == s \o t
<1>2. /\ Len(s) \in Nat /\ Len(t) \in Nat
      /\ Len(u) = Len(s) + Len(t)
      /\ \A j \in 1 .. Len(s) : u[j] = s[j]
  BY Joined
<1>. HIDE DEF u
<1>3. n \in i .. Len(u) /\ n \in 1 .. Len(s)
  BY <1>1, <1>2
<1>4. u[n] \in T
  BY <1>1, <1>2, <1>3
<1>5. \A m \in i .. (n - 1) : m \in 1 .. Len(s)
  BY <1>2, <1>3
<1>6. \A m \in i .. (n - 1) : u[m].do \in B
  BY <1>1, <1>2, <1>5
<1>7. Ahead(u, i, B, T)
  BY <1>3, <1>4, <1>6 DEF Ahead
<1>. QED BY <1>7 DEF u

\* What lies ahead in the second of two programs lies ahead in both together.
LEMMA AheadOnTheRight ==
  ASSUME NEW s \in Seq(Statements), NEW t \in Seq(Statements),
         NEW i \in Nat \ {0}, NEW B, NEW T, Ahead(t, i, B, T)
  PROVE  Ahead(s \o t, Len(s) + i, B, T)
<1>1. PICK n \in i .. Len(t) : t[n] \in T /\ \A m \in i .. (n - 1) : t[m].do \in B
  BY DEF Ahead
<1>. DEFINE u == s \o t
<1>2. /\ Len(s) \in Nat /\ Len(t) \in Nat
      /\ Len(u) = Len(s) + Len(t)
      /\ \A j \in 1 .. Len(t) : u[Len(s) + j] = t[j]
  BY Joined
<1>. HIDE DEF u
<1>3. Len(s) + n \in (Len(s) + i) .. Len(u) /\ n \in 1 .. Len(t)
  BY <1>1, <1>2
<1>4. u[Len(s) + n] \in T
  BY <1>1, <1>2, <1>3
<1>5. ASSUME NEW m \in (Len(s) + i) .. ((Len(s) + n) - 1)
      PROVE  u[m].do \in B
  <2>1. /\ m - Len(s) \in i .. (n - 1) /\ m - Len(s) \in 1 .. Len(t)
        /\ Len(s) + (m - Len(s)) = m
    BY <1>2, <1>3, <1>5
  <2>2. u[m] = t[m - Len(s)]
    BY <1>2, <2>1
  <2>. QED BY <1>1, <2>1, <2>2
<1>6. Ahead(u, Len(s) + i, B, T)
  BY <1>3, <1>4, <1>5 DEF Ahead
<1>. QED BY <1>6 DEF u

\* A statement that is not the one ahead leaves it ahead.
LEMMA AheadNext ==
  ASSUME NEW s \in Seq(Statements), NEW i \in Nat \ {0}, NEW B, NEW T,
         Ahead(s, i, B, T), s[i] \notin T
  PROVE  i < Len(s) /\ s[i].do \in B /\ Ahead(s, i + 1, B, T)
<1>1. PICK n \in i .. Len(s) : s[n] \in T /\ \A m \in i .. (n - 1) : s[m].do \in B
  BY DEF Ahead
<1>2. Len(s) \in Nat
  BY EmptyProgram
<1>3. n \in (i + 1) .. Len(s)
  BY <1>1, <1>2
<1>4. i < Len(s) /\ i \in i .. (n - 1) /\ \A m \in (i + 1) .. (n - 1) : m \in i .. (n - 1)
  BY <1>2, <1>3
<1>5. s[i].do \in B /\ \A m \in (i + 1) .. (n - 1) : s[m].do \in B
  BY <1>1, <1>4
<1>. QED BY <1>1, <1>3, <1>4, <1>5 DEF Ahead
------------------------------------------------------------------------------
(* The rules hold of what is left, and of two programs that fit. *)

\* What is left of a program follows the rules, and has no other statements.
LEMMA SuffixRules ==
  ASSUME NEW s, Rules(s), NEW k \in Nat, NEW t, Suffix(s, k, t)
  PROVE  Rules(t) /\ Kinds(t) \subseteq Kinds(s)
<1>1. /\ s \in Seq(Statements) /\ t \in Seq(Statements)
      /\ Len(s) \in Nat /\ k \in 0 .. Len(s)
      /\ Len(t) = Len(s) - k
      /\ \A j \in 1 .. Len(t) : t[j] = s[k + j]
  BY EmptyProgram DEF Suffix, Rules
<1>2. \A j \in 1 .. Len(t) : k + j \in 1 .. Len(s)
  BY <1>1
<1>3. ASSUME NEW i \in 1 .. (Len(t) - 1)
      PROVE  Precedes(t[i], t[i + 1])
  <2>1. /\ i \in 1 .. Len(t) /\ i + 1 \in 1 .. Len(t)
        /\ k + i \in 1 .. (Len(s) - 1) /\ k + (i + 1) = (k + i) + 1
    BY <1>1, <1>3
  <2>2. t[i] = s[k + i] /\ t[i + 1] = s[(k + i) + 1]
    BY <1>1, <2>1
  <2>. QED BY <2>1, <2>2 DEF Rules
<1>4. ASSUME NEW i \in 1 .. Len(t)
      PROVE  Follows(t, i)
  <2>1. /\ t[i] = s[k + i] /\ k + i \in 1 .. Len(s) /\ Follows(s, k + i)
        /\ (k + i) + 1 = k + (i + 1) /\ i + 1 \in Nat \ {0}
    BY <1>1, <1>2, <1>4 DEF Rules
  <2>2. i < Len(t) <=> k + i < Len(s)
    BY <1>1, <1>4
  <2>3. i < Len(t) => t[i + 1] = s[(k + i) + 1]
    BY <1>1, <1>4
  <2>4. ASSUME t[i].do = "check"
        PROVE  /\ i + t[i].skip <= Len(t)
               /\ i + t[i].skip < Len(t) => Free(t[i + t[i].skip + 1])
    <3>1. t[i].skip \in Nat
      <4>1. t[i] \in Statements
        BY <1>1, ElementOfSeq
      <4>. QED BY <2>4, <4>1 DEF Statements, Plain
    <3>2. /\ (k + i) + t[i].skip <= Len(s)
          /\ (k + i) + t[i].skip < Len(s) => Free(s[(k + i) + t[i].skip + 1])
      BY <2>1, <2>4 DEF Follows
    <3>3. i + t[i].skip <= Len(t)
      BY <1>1, <3>1, <3>2
    <3>4. ASSUME i + t[i].skip < Len(t)
          PROVE  Free(t[i + t[i].skip + 1])
      <4>. DEFINE j == i + t[i].skip + 1
      <4>1. /\ (k + i) + t[i].skip < Len(s)
            /\ j \in 1 .. Len(t)
            /\ (k + i) + t[i].skip + 1 = k + j
        <5>. DEFINE skip == t[i].skip
        <5>1. /\ skip \in Nat /\ k \in Nat /\ i \in Nat /\ Len(s) \in Nat
              /\ i > 0 /\ Len(t) = Len(s) - k /\ i + skip < Len(t)
          BY <1>1, <1>4, <3>1, <3>4
        <5>. HIDE DEF skip
        <5>. QED BY <5>1 DEF skip
      <4>2. Free(s[k + j])
        BY <3>2, <4>1
      <4>. HIDE DEF j
      <4>3. t[j] = s[k + j]
        BY <1>1, <4>1
      <4>4. Free(t[j])
        BY <4>2, <4>3
      <4>. QED BY <4>4 DEF j
    <3>. QED BY <3>3, <3>4
  <2>5. t[i].do = "complete" => i < Len(t) /\ t[i + 1].do = "invalidate"
    BY <2>1, <2>2, <2>3 DEF Follows
  <2>6. t[i].do = "insertTask" => i < Len(t) /\ t[i + 1].do \in Inserts
    BY <2>1, <2>2, <2>3 DEF Follows
  <2>7. t[i].do = "complete" /\ t[i].after = "ROLLBACK" => OwesAt(t, i + 1)
    BY <1>1, <2>1, AheadInSuffix DEF Follows, OwesAt
  <2>8. t[i].do = "setStatus" /\ t[i].dest \in Waiting => WillAt(t, i + 1, t[i].dest)
    BY <1>1, <2>1, AheadInSuffix DEF Follows, WillAt
  <2>9. t[i].do = "findExecuter" => \A st \in Status : WillAt(t, i + 1, st)
    BY <1>1, <2>1, AheadInSuffix DEF Follows, WillAt
  <2>. QED BY <2>4, <2>5, <2>6, <2>7, <2>8, <2>9 DEF Follows
<1>5. Kinds(t) \subseteq Kinds(s)
  BY <1>1, <1>2 DEF Kinds
<1>. QED BY <1>1, <1>3, <1>4, <1>5 DEF Rules

\* The rules of a program hold of it after another.
LEMMA RightRules ==
  ASSUME NEW s \in Seq(Statements), NEW t, Rules(t)
  PROVE  /\ \A i \in 1 .. (Len(t) - 1) :
              Precedes((s \o t)[Len(s) + i], (s \o t)[Len(s) + i + 1])
         /\ \A i \in 1 .. Len(t) : Follows(s \o t, Len(s) + i)
<1>. DEFINE u == s \o t
            k == Len(s)
<1>1. /\ t \in Seq(Statements)
      /\ k \in Nat /\ Len(t) \in Nat
      /\ Len(u) = k + Len(t)
      /\ \A j \in 1 .. Len(t) : u[k + j] = t[j]
  BY Joined DEF Rules
<1>2. \A i \in Nat \ {0} : \A B, T : Ahead(t, i, B, T) => Ahead(u, k + i, B, T)
  BY <1>1, AheadOnTheRight
<1>. HIDE DEF u, k
<1>3. ASSUME NEW i \in 1 .. (Len(t) - 1)
      PROVE  Precedes(u[k + i], u[k + i + 1])
  <2>1. i \in 1 .. Len(t) /\ i + 1 \in 1 .. Len(t)
    BY <1>1, <1>3
  <2>2. k + i + 1 = k + (i + 1)
    BY <1>1
  <2>3. u[k + i] = t[i] /\ u[k + (i + 1)] = t[i + 1]
    BY <1>1, <2>1
  <2>. QED BY <1>3, <2>2, <2>3 DEF Rules
<1>4. ASSUME NEW i \in 1 .. Len(t)
      PROVE  Follows(u, k + i)
  <2>1. /\ u[k + i] = t[i] /\ Follows(t, i)
        /\ (k + i) + 1 = k + (i + 1) /\ i + 1 \in Nat \ {0}
    BY <1>1, <1>4 DEF Rules
  <2>2. i < Len(t) <=> k + i < Len(u)
    BY <1>1, <1>4
  <2>3. i < Len(t) => u[(k + i) + 1] = t[i + 1]
    BY <1>1, <1>4, <2>1
  <2>4. ASSUME t[i].do = "check"
        PROVE  /\ (k + i) + t[i].skip <= Len(u)
               /\ (k + i) + t[i].skip < Len(u) => Free(u[(k + i) + t[i].skip + 1])
    <3>1. t[i].skip \in Nat
      <4>1. t[i] \in Statements
        BY <1>1, ElementOfSeq
      <4>. QED BY <2>4, <4>1 DEF Statements, Plain
    <3>2. /\ i + t[i].skip <= Len(t)
          /\ i + t[i].skip < Len(t) => Free(t[i + t[i].skip + 1])
      BY <2>1, <2>4 DEF Follows
    <3>3. (k + i) + t[i].skip <= Len(u)
      BY <1>1, <3>1, <3>2
    <3>4. ASSUME (k + i) + t[i].skip < Len(u)
          PROVE  Free(u[(k + i) + t[i].skip + 1])
      <4>1. /\ i + t[i].skip < Len(t)
            /\ i + t[i].skip + 1 \in 1 .. Len(t)
            /\ k + (i + t[i].skip + 1) = (k + i) + t[i].skip + 1
        <5>. DEFINE skip == t[i].skip
        <5>1. /\ skip \in Nat /\ k \in Nat /\ i \in Nat /\ Len(t) \in Nat
              /\ i > 0 /\ Len(u) = k + Len(t) /\ (k + i) + skip < Len(u)
          BY <1>1, <1>4, <3>1, <3>4
        <5>. HIDE DEF skip
        <5>2. /\ i + skip < Len(t)
              /\ i + skip + 1 \in 1 .. Len(t)
              /\ k + (i + skip + 1) = (k + i) + skip + 1
          BY ONLY <5>1
        <5>. QED BY <5>2 DEF skip
      <4>2. u[(k + i) + t[i].skip + 1] = t[i + t[i].skip + 1]
        BY <1>1, <4>1
      <4>. QED BY <3>2, <4>1, <4>2
    <3>. QED BY <3>3, <3>4
  <2>5. t[i].do = "complete" => k + i < Len(u) /\ u[(k + i) + 1].do = "invalidate"
    BY <2>1, <2>2, <2>3 DEF Follows
  <2>6. t[i].do = "insertTask" => k + i < Len(u) /\ u[(k + i) + 1].do \in Inserts
    BY <2>1, <2>2, <2>3 DEF Follows
  <2>7. t[i].do = "complete" /\ t[i].after = "ROLLBACK" => OwesAt(u, (k + i) + 1)
    BY <1>2, <2>1 DEF Follows, OwesAt
  <2>8. t[i].do = "setStatus" /\ t[i].dest \in Waiting => WillAt(u, (k + i) + 1, t[i].dest)
    BY <1>2, <2>1 DEF Follows, WillAt
  <2>9. t[i].do = "findExecuter" => \A st \in Status : WillAt(u, (k + i) + 1, st)
    BY <1>2, <2>1 DEF Follows, WillAt
  <2>. QED BY <2>1, <2>4, <2>5, <2>6, <2>7, <2>8, <2>9 DEF Follows
<1>. QED BY <1>3, <1>4 DEF u, k

\* The kinds of two programs together
LEMMA JoinedKinds ==
  ASSUME NEW s \in Seq(Statements), NEW t \in Seq(Statements)
  PROVE  Kinds(s \o t) = Kinds(s) \union Kinds(t)
<1>. DEFINE u == s \o t
<1>1. /\ Len(s) \in Nat /\ Len(t) \in Nat
      /\ Len(u) = Len(s) + Len(t)
      /\ \A j \in 1 .. Len(s) : u[j] = s[j]
      /\ \A j \in 1 .. Len(t) : u[Len(s) + j] = t[j]
  BY Joined
<1>. HIDE DEF u
<1>2. \A j \in 1 .. Len(u) : j \in 1 .. Len(s) \/ (j - Len(s) \in 1 .. Len(t)
                                                     /\ Len(s) + (j - Len(s)) = j)
  BY <1>1
<1>3. Kinds(u) \subseteq Kinds(s) \union Kinds(t)
  <2>1. SUFFICES ASSUME NEW j \in 1 .. Len(u)
                 PROVE  u[j].do \in Kinds(s) \union Kinds(t)
    BY DEF Kinds
  <2>2. CASE j \in 1 .. Len(s)
    BY <1>1, <2>2 DEF Kinds
  <2>3. CASE j - Len(s) \in 1 .. Len(t) /\ Len(s) + (j - Len(s)) = j
    <3>1. u[j] = t[j - Len(s)]
      BY <1>1, <2>3
    <3>. QED BY <2>3, <3>1 DEF Kinds
  <2>. QED BY <1>2, <2>2, <2>3
<1>4. Kinds(s) \subseteq Kinds(u)
  <2>1. \A j \in 1 .. Len(s) : j \in 1 .. Len(u) /\ u[j] = s[j]
    BY <1>1
  <2>. QED BY <2>1 DEF Kinds
<1>5. Kinds(t) \subseteq Kinds(u)
  <2>1. \A j \in 1 .. Len(t) : Len(s) + j \in 1 .. Len(u) /\ u[Len(s) + j] = t[j]
    BY <1>1
  <2>. QED BY <2>1 DEF Kinds
<1>. QED BY <1>3, <1>4, <1>5 DEF u

\* Two programs that follow the rules do so together when the second begins
\* with a free statement.
LEMMA JoinRules ==
  ASSUME NEW s, NEW t, Rules(s), Rules(t), t # <<>> => Free(t[1])
  PROVE  Rules(s \o t) /\ Kinds(s \o t) = Kinds(s) \union Kinds(t)
<1>. DEFINE u == s \o t
<1>1. /\ s \in Seq(Statements) /\ t \in Seq(Statements)
      /\ u \in Seq(Statements)
      /\ Len(s) \in Nat /\ Len(t) \in Nat
      /\ Len(u) = Len(s) + Len(t)
      /\ \A j \in 1 .. Len(s) : u[j] = s[j]
      /\ \A j \in 1 .. Len(t) : u[Len(s) + j] = t[j]
      /\ Len(t) > 0 => Free(t[1])
  BY Joined, EmptyProgram DEF Rules
<1>2. /\ \A i \in 1 .. (Len(t) - 1) : Precedes(u[Len(s) + i], u[Len(s) + i + 1])
      /\ \A i \in 1 .. Len(t) : Follows(u, Len(s) + i)
  BY <1>1, RightRules
<1>3. \A i \in Nat \ {0} : \A B, T : Ahead(s, i, B, T) => Ahead(u, i, B, T)
  BY <1>1, AheadOnTheLeft
<1>. HIDE DEF u
<1>4. ASSUME NEW i \in 1 .. (Len(u) - 1)
      PROVE  Precedes(u[i], u[i + 1])
  <2>1. CASE i < Len(s)
    <3>1. i \in 1 .. (Len(s) - 1) /\ u[i] = s[i] /\ u[i + 1] = s[i + 1]
      BY <1>1, <2>1
    <3>. QED BY <3>1 DEF Rules
  <2>2. CASE i = Len(s)
    <3>1. 1 \in 1 .. Len(t) /\ Len(t) > 0 /\ i + 1 = Len(s) + 1
      BY <1>1, <2>2
    <3>2. u[i + 1] = t[1] /\ Free(t[1])
      BY <1>1, <3>1
    <3>. QED BY <3>2 DEF Free, Precedes
  <2>3. CASE i > Len(s)
    <3>. DEFINE j == i - Len(s)
    <3>1. j \in 1 .. (Len(t) - 1) /\ i = Len(s) + j
      BY <1>1, <2>3
    <3>. HIDE DEF j
    <3>. QED BY <1>2, <3>1
  <2>. QED BY <1>1, <2>1, <2>2, <2>3
<1>5. ASSUME NEW i \in 1 .. Len(s)
      PROVE  Follows(u, i)
  <2>1. u[i] = s[i] /\ Follows(s, i) /\ i + 1 \in Nat \ {0}
    BY <1>1 DEF Rules
  <2>2. i < Len(s) => i < Len(u) /\ u[i + 1] = s[i + 1]
    BY <1>1
  <2>3. ASSUME s[i].do = "check"
        PROVE  /\ i + s[i].skip <= Len(u)
               /\ i + s[i].skip < Len(u) => Free(u[i + s[i].skip + 1])
    <3>1. s[i].skip \in Nat
      <4>1. s[i] \in Statements
        BY <1>1, ElementOfSeq
      <4>. QED BY <2>3, <4>1 DEF Statements, Plain
    <3>. DEFINE j == i + s[i].skip
    <3>2. j <= Len(s) /\ (j < Len(s) => Free(s[j + 1])) /\ j \in Nat
      BY <2>1, <2>3, <3>1 DEF Follows
    <3>. HIDE DEF j
    <3>3. CASE j < Len(s)
      <4>1. j + 1 \in 1 .. Len(s)
        BY <1>1, <3>2, <3>3
      <4>2. u[j + 1] = s[j + 1]
        BY <1>1, <4>1
      <4>3. j <= Len(u)
        BY <1>1, <3>2, <3>3
      <4>. QED BY <3>2, <3>3, <4>2, <4>3 DEF j
    <3>4. CASE j = Len(s)
      <4>1. j <= Len(u)
        BY <1>1, <3>4
      <4>2. ASSUME j < Len(u)
            PROVE  Free(u[j + 1])
        <5>1. 1 \in 1 .. Len(t) /\ Len(t) > 0
          BY <1>1, <3>4, <4>2
        <5>. QED BY <1>1, <3>4, <5>1
      <4>. QED BY <4>1, <4>2 DEF j
    <3>. QED BY <1>1, <3>2, <3>3, <3>4
  <2>4. u[i].do = "complete" => i < Len(u) /\ u[i + 1].do = "invalidate"
    BY <2>1, <2>2 DEF Follows
  <2>5. u[i].do = "insertTask" => i < Len(u) /\ u[i + 1].do \in Inserts
    BY <2>1, <2>2 DEF Follows
  <2>6. u[i].do = "complete" /\ u[i].after = "ROLLBACK" => OwesAt(u, i + 1)
    BY <1>3, <2>1 DEF Follows, OwesAt
  <2>7. u[i].do = "setStatus" /\ u[i].dest \in Waiting => WillAt(u, i + 1, u[i].dest)
    BY <1>3, <2>1 DEF Follows, WillAt
  <2>8. u[i].do = "findExecuter" => \A st \in Status : WillAt(u, i + 1, st)
    BY <1>3, <2>1 DEF Follows, WillAt
  <2>. QED BY <2>1, <2>3, <2>4, <2>5, <2>6, <2>7, <2>8 DEF Follows
<1>6. ASSUME NEW i \in 1 .. Len(u)
      PROVE  Follows(u, i)
  <2>1. CASE i \in 1 .. Len(s)
    BY <1>5, <2>1
  <2>2. CASE i > Len(s)
    <3>. DEFINE j == i - Len(s)
    <3>1. j \in 1 .. Len(t) /\ i = Len(s) + j
      BY <1>1, <2>2
    <3>. HIDE DEF j
    <3>. QED BY <1>2, <3>1
  <2>. QED BY <1>1, <2>1, <2>2
<1>7. Kinds(u) = Kinds(s) \union Kinds(t)
  BY <1>1, JoinedKinds DEF u
<1>. QED BY <1>1, <1>4, <1>6, <1>7 DEF Rules, u

\* One statement put before a program that follows the rules.
LEMMA HeadRules ==
  ASSUME NEW x \in Statements, NEW t, Rules(t),
         t # <<>> => Precedes(x, t[1]), Follows(<<x>> \o t, 1)
  PROVE  /\ Rules(<<x>> \o t)
         /\ Kinds(<<x>> \o t) = {x.do} \union Kinds(t)
         /\ (<<x>> \o t)[1] = x
         /\ <<x>> \o t # <<>>
<1>. DEFINE s == <<x>>
            u == s \o t
<1>1. /\ s \in Seq(Statements) /\ Len(s) = 1 /\ s[1] = x
      /\ t \in Seq(Statements)
  BY DEF Rules
<1>2. /\ u \in Seq(Statements)
      /\ Len(t) \in Nat
      /\ Len(u) = 1 + Len(t)
      /\ u[1] = x
      /\ \A j \in 1 .. Len(t) : u[1 + j] = t[j]
      /\ Len(t) > 0 => Precedes(x, t[1])
  <2>. HIDE DEF s
  <2>1. /\ u \in Seq(Statements)
        /\ Len(t) \in Nat
        /\ Len(u) = Len(s) + Len(t)
        /\ \A j \in 1 .. Len(s) : u[j] = s[j]
        /\ \A j \in 1 .. Len(t) : u[Len(s) + j] = t[j]
    BY <1>1, Joined
  <2>2. Len(t) > 0 => Precedes(x, t[1])
    BY <1>1, EmptyProgram
  <2>. QED BY <1>1, <2>1, <2>2
<1>3. /\ \A i \in 1 .. (Len(t) - 1) : Precedes(u[1 + i], u[1 + i + 1])
      /\ \A i \in 1 .. Len(t) : Follows(u, 1 + i)
  <2>. HIDE DEF s
  <2>1. /\ \A i \in 1 .. (Len(t) - 1) : Precedes(u[Len(s) + i], u[Len(s) + i + 1])
        /\ \A i \in 1 .. Len(t) : Follows(u, Len(s) + i)
    BY <1>1, RightRules
  <2>. QED BY <1>1, <2>1
<1>4. Kinds(u) = {x.do} \union Kinds(t)
  <2>1. Kinds(s) = {x.do}
    <3>1. \A i : i \in 1 .. Len(s) <=> i = 1
      BY <1>1
    <3>. QED BY <1>1, <3>1 DEF Kinds
  <2>. HIDE DEF s
  <2>. QED BY <1>1, <2>1, JoinedKinds
<1>5. Follows(u, 1)
  OBVIOUS
<1>. HIDE DEF s, u
<1>6. ASSUME NEW i \in 1 .. (Len(u) - 1)
      PROVE  Precedes(u[i], u[i + 1])
  <2>1. CASE i = 1
    BY <1>2, <2>1
  <2>2. CASE i > 1
    <3>. DEFINE j == i - 1
    <3>1. j \in 1 .. (Len(t) - 1) /\ i = 1 + j
      BY <1>2, <2>2
    <3>. HIDE DEF j
    <3>. QED BY <1>3, <3>1
  <2>. QED BY <2>1, <2>2
<1>7. ASSUME NEW i \in 1 .. Len(u)
      PROVE  Follows(u, i)
  <2>1. CASE i = 1
    BY <1>5, <2>1
  <2>2. CASE i > 1
    <3>. DEFINE j == i - 1
    <3>1. j \in 1 .. Len(t) /\ i = 1 + j
      BY <1>2, <2>2
    <3>. HIDE DEF j
    <3>. QED BY <1>3, <3>1
  <2>. QED BY <2>1, <2>2
<1>8. u # <<>>
  BY <1>2, EmptyProgram
<1>. QED BY <1>2, <1>4, <1>6, <1>7, <1>8 DEF Rules, s, u
\* The details still to be inserted, in the place of those a statement began with
LEMMA ReplaceRules ==
  ASSUME NEW s, Rules(s), s # <<>>, s[1].do = "insertDetails",
         NEW y \in Statements, y.do = "insertDetails"
  PROVE  LET t == <<y>> \o Tail(s)
         IN  Rules(t) /\ Kinds(t) = Kinds(s) /\ t[1] = y /\ t # <<>>
<1>. DEFINE rest == Tail(s)
            t == <<y>> \o rest
<1>1. /\ Len(s) \in Nat \ {0} /\ Suffix(s, 1, rest)
      /\ rest = <<>> <=> Len(s) = 1
      /\ s \in Seq(Statements)
  BY TailIsSuffix DEF Rules
<1>. HIDE DEF rest
<1>2. Rules(rest) /\ Kinds(rest) \subseteq Kinds(s)
  BY <1>1, SuffixRules
<1>3. ASSUME rest # <<>>
      PROVE  Precedes(y, rest[1])
  <2>1. 1 \in 1 .. Len(rest) /\ rest[1] = s[1 + 1] /\ 1 \in 1 .. (Len(s) - 1)
    BY <1>1, <1>3 DEF Suffix
  <2>2. Precedes(s[1], rest[1])
    BY <2>1 DEF Rules
  <2>. QED BY <2>2 DEF Precedes
<1>4. Follows(t, 1)
  <2>. DEFINE h == <<y>>
  <2>1. h \in Seq(Statements) /\ Len(h) = 1 /\ h[1] = y
    OBVIOUS
  <2>. HIDE DEF h
  <2>2. \A i \in 1 .. Len(h) : (h \o rest)[i] = h[i]
    BY <1>2, <2>1, Joined DEF Rules
  <2>3. t[1] = y
    <3>1. 1 \in 1 .. Len(h)
      BY <2>1
    <3>. QED BY <2>1, <2>2, <3>1 DEF h
  <2>. HIDE DEF t
  <2>. QED BY <2>3 DEF Follows
<1>5. Rules(t) /\ Kinds(t) = {y.do} \union Kinds(rest) /\ t[1] = y /\ t # <<>>
  BY <1>2, <1>3, <1>4, HeadRules
<1>. HIDE DEF t
<1>6. Kinds(s) \subseteq {y.do} \union Kinds(rest)
  <2>1. SUFFICES ASSUME NEW i \in 1 .. Len(s)
                 PROVE  s[i].do \in {y.do} \union Kinds(rest)
    BY DEF Kinds
  <2>2. CASE i = 1
    BY <2>2
  <2>3. CASE i > 1
    <3>. DEFINE j == i - 1
    <3>1. j \in 1 .. Len(rest) /\ i = 1 + j
      BY <1>1, <2>3 DEF Suffix
    <3>. HIDE DEF j
    <3>2. s[i] = rest[j]
      BY <1>1, <3>1 DEF Suffix
    <3>. QED BY <3>1, <3>2 DEF Kinds
  <2>. QED BY <1>1, <2>2, <2>3
<1>7. "insertDetails" \in Kinds(s)
  BY <1>1 DEF Kinds
<1>. QED BY <1>2, <1>5, <1>6, <1>7 DEF t, rest
------------------------------------------------------------------------------
(* The statements and the methods *)

\* The statements are of their kinds, and have the parameters they were given.
LEMMA Constructors ==
  /\ \A d \in Status \union {"RECYCLED"}, k \in Nat :
       /\ Check(d, k) \in Statements /\ Check(d, k).do = "check"
       /\ Check(d, k).skip = k
  /\ \A p \in Status :
       /\ FindTask(p) \in Statements
       /\ FindTask(p).do = "findTask" /\ FindTask(p).pre = p
       /\ SetStatus(p) \in Statements
       /\ SetStatus(p).do = "setStatus" /\ SetStatus(p).dest = p
       /\ Complete(p) \in Statements
       /\ Complete(p).do = "complete" /\ Complete(p).after = p
  /\ \A p \in Status, l \in BOOLEAN :
       /\ InsertTask(p, l) \in Statements /\ InsertTask(p, l).do = "insertTask"
       /\ InsertTask(p, l).pre = p /\ InsertTask(p, l).linked = l
  /\ \A S \in (SUBSET Users) \ {{}} :
       /\ InsertDetails(S) \in Statements /\ InsertDetails(S).do = "insertDetails"
       /\ InsertDetails(S).performers = S
  /\ {FindExecuter, ReadStatus, InsertRework, InsertExecuter, Invalidate, PickDelivery,
      DeleteDetails, DeleteTask, EndPublish, Garbage, Recover} \subseteq Statements
  /\ FindExecuter.do = "findExecuter" /\ ReadStatus.do = "readStatus"
  /\ InsertRework.do = "insertRework" /\ InsertExecuter.do = "insertExecuter"
  /\ Invalidate.do = "invalidate" /\ PickDelivery.do = "pickDelivery"
  /\ DeleteDetails.do = "deleteDetails" /\ DeleteTask.do = "deleteTask"
  /\ EndPublish.do = "endPublish" /\ Garbage.do = "garbage" /\ Recover.do = "recover"
<1>1. \A d \in Status \union {"RECYCLED"}, k \in Nat :
       /\ Check(d, k) \in Statements /\ Check(d, k).do = "check"
       /\ Check(d, k).skip = k
  BY DEF Check, Statements
<1>2. \A p \in Status :
       /\ FindTask(p) \in Statements
       /\ FindTask(p).do = "findTask" /\ FindTask(p).pre = p
  BY DEF FindTask, Statements
<1>3. \A p \in Status :
       /\ SetStatus(p) \in Statements
       /\ SetStatus(p).do = "setStatus" /\ SetStatus(p).dest = p
  BY DEF SetStatus, Statements
<1>4. \A p \in Status :
       /\ Complete(p) \in Statements
       /\ Complete(p).do = "complete" /\ Complete(p).after = p
  BY DEF Complete, Statements
<1>5. \A p \in Status, l \in BOOLEAN :
       /\ InsertTask(p, l) \in Statements /\ InsertTask(p, l).do = "insertTask"
       /\ InsertTask(p, l).pre = p /\ InsertTask(p, l).linked = l
  BY DEF InsertTask, Statements
<1>6. \A S \in (SUBSET Users) \ {{}} :
       /\ InsertDetails(S) \in Statements /\ InsertDetails(S).do = "insertDetails"
       /\ InsertDetails(S).performers = S
  BY DEF InsertDetails, Statements
<1>7. \A d \in Plain : [do |-> d] \in Statements /\ [do |-> d].do = d
  BY DEF Statements
<1>8. /\ {FindExecuter, ReadStatus, InsertRework, InsertExecuter, Invalidate,
          PickDelivery, DeleteDetails, DeleteTask, EndPublish, Garbage, Recover}
            \subseteq Statements
      /\ FindExecuter.do = "findExecuter" /\ ReadStatus.do = "readStatus"
      /\ InsertRework.do = "insertRework" /\ InsertExecuter.do = "insertExecuter"
      /\ Invalidate.do = "invalidate" /\ PickDelivery.do = "pickDelivery"
      /\ DeleteDetails.do = "deleteDetails" /\ DeleteTask.do = "deleteTask"
      /\ EndPublish.do = "endPublish" /\ Garbage.do = "garbage" /\ Recover.do = "recover"
  BY <1>7 DEF Plain, FindExecuter, ReadStatus, InsertRework, InsertExecuter, Invalidate,
     PickDelivery, DeleteDetails, DeleteTask, EndPublish, Garbage, Recover
<1>. QED BY <1>1, <1>2, <1>3, <1>4, <1>5, <1>6, <1>8

\* A statement has the parameters of its kind.
LEMMA Parameters ==
  ASSUME NEW x \in Statements
  PROVE  /\ x.do = "check" => x.dest \in Status \union {"RECYCLED"} /\ x.skip \in Nat
         /\ x.do = "findTask" => x.pre \in Status
         /\ x.do = "setStatus" => x.dest \in Status
         /\ x.do = "insertTask" => x.pre \in Status /\ x.linked \in BOOLEAN
         /\ x.do = "insertDetails" => /\ x.performers \in (SUBSET Users) \ {{}}
                                      /\ x = InsertDetails(x.performers)
         /\ x.do = "complete" => x.after \in Status
  BY DEF Statements, Plain, InsertDetails

\* The only statement of a program of one
LEMMA OneStatement ==
  ASSUME NEW x \in Statements,
         x.do \notin {"check", "complete", "insertTask", "findExecuter"},
         x.do = "setStatus" => x.dest \notin Waiting
  PROVE  Rules(<<x>>) /\ Kinds(<<x>>) = {x.do} /\ <<x>>[1] = x /\ <<x>> # <<>>
<1>. DEFINE s == <<x>>
<1>1. s \in Seq(Statements) /\ Len(s) = 1 /\ s[1] = x
  OBVIOUS
<1>. HIDE DEF s
<1>2. Follows(s, 1)
  BY <1>1 DEF Follows
<1>3. \A i : i \in 1 .. Len(s) <=> i = 1
  BY <1>1
<1>4. Rules(s)
  BY <1>1, <1>2, <1>3 DEF Rules
<1>5. Kinds(s) = {x.do}
  BY <1>1, <1>3 DEF Kinds
<1>6. s # <<>>
  <2>1. s \in Seq(Statements) /\ Len(s) # 0
    BY <1>1
  <2>. QED BY <2>1, EmptyProgram
<1>. QED BY <1>1, <1>4, <1>5, <1>6 DEF s

\* The empty program keeps the rules.
LEMMA NoStatement == Rules(<<>>) /\ Kinds(<<>>) = {}
  BY EmptySeq DEF Rules, Kinds

\* A program behind a check
LEMMA GuardRules ==
  ASSUME NEW dest \in Status \union {"RECYCLED"}, NEW body, Rules(body),
         body # <<>>, Free(body[1])
  PROVE  /\ Rules(Guarded(dest, body))
         /\ Kinds(Guarded(dest, body)) = {"check"} \union Kinds(body)
         /\ Guarded(dest, body) # <<>>
         /\ Free(Guarded(dest, body)[1])
         /\ Guarded(dest, body)[1].do = "check"
<1>. DEFINE x == Check(dest, Len(body))
            u == <<x>> \o body
<1>1. body \in Seq(Statements) /\ Len(body) \in Nat
  BY EmptyProgram DEF Rules
<1>2. x \in Statements /\ x.do = "check" /\ x.skip = Len(body)
  BY <1>1, Constructors
<1>3. Precedes(x, body[1])
  BY DEF Free, Precedes
<1>. HIDE DEF x
<1>4. Follows(u, 1)
  <2>1. <<x>> \in Seq(Statements) /\ Len(<<x>>) = 1 /\ <<x>>[1] = x
    BY <1>2
  <2>. DEFINE h == <<x>>
  <2>. HIDE DEF h
  <2>2. Len(h \o body) = Len(h) + Len(body) /\ (h \o body)[1] = h[1]
    BY <1>1, <2>1, Joined DEF h
  <2>3. Len(u) = 1 + Len(body) /\ u[1] = x
    BY <2>1, <2>2 DEF h
  <2>. HIDE DEF u
  <2>. QED BY <1>1, <1>2, <2>3 DEF Follows
<1>5. /\ Rules(u) /\ Kinds(u) = {x.do} \union Kinds(body) /\ u[1] = x /\ u # <<>>
  BY <1>2, <1>3, <1>4, HeadRules
<1>. QED BY <1>2, <1>5 DEF Guarded, x, Free

\* The elements of one and two, of three and two, of two and three statements
LEMMA OneAndTwo ==
  ASSUME NEW a \in Statements, NEW b \in Statements, NEW c \in Statements
  PROVE  LET s == <<a>> \o <<b, c>>
         IN  s \in Seq(Statements) /\ Len(s) = 3 /\ s[1] = a /\ s[2] = b /\ s[3] = c
<1>. DEFINE f == <<a>>
            g == <<b, c>>
            s == f \o g
<1>1. /\ f \in Seq(Statements) /\ Len(f) = 1 /\ f[1] = a
      /\ g \in Seq(Statements) /\ Len(g) = 2 /\ g[1] = b /\ g[2] = c
  OBVIOUS
<1>. HIDE DEF f, g
<1>2. /\ s \in Seq(Statements)
      /\ Len(s) = Len(f) + Len(g)
      /\ \A i \in 1 .. Len(f) : s[i] = f[i]
      /\ \A i \in 1 .. Len(g) : s[Len(f) + i] = g[i]
  BY <1>1, Joined
<1>. HIDE DEF s
<1>3. 1 \in 1 .. Len(f) /\ 1 \in 1 .. Len(g) /\ 2 \in 1 .. Len(g)
  BY <1>1
<1>4. s[1] = f[1] /\ s[Len(f) + 1] = g[1] /\ s[Len(f) + 2] = g[2]
  BY <1>2, <1>3
<1>. QED BY <1>1, <1>2, <1>4 DEF f, g, s

\* The statements of a program of three followed by two.
LEMMA ThreeAndTwo ==
  ASSUME NEW f \in Seq(Statements), Len(f) = 3, NEW d \in Statements, NEW e \in Statements
  PROVE  LET s == f \o <<d, e>>
         IN  /\ s \in Seq(Statements) /\ Len(s) = 5
             /\ s[1] = f[1] /\ s[2] = f[2] /\ s[3] = f[3] /\ s[4] = d /\ s[5] = e
<1>. DEFINE g == <<d, e>>
            s == f \o g
<1>1. g \in Seq(Statements) /\ Len(g) = 2 /\ g[1] = d /\ g[2] = e
  OBVIOUS
<1>. HIDE DEF g
<1>2. /\ s \in Seq(Statements)
      /\ Len(s) = Len(f) + Len(g)
      /\ \A i \in 1 .. Len(f) : s[i] = f[i]
      /\ \A i \in 1 .. Len(g) : s[Len(f) + i] = g[i]
  BY <1>1, Joined
<1>. HIDE DEF s
<1>3. /\ 1 \in 1 .. Len(f) /\ 2 \in 1 .. Len(f) /\ 3 \in 1 .. Len(f)
      /\ 1 \in 1 .. Len(g) /\ 2 \in 1 .. Len(g)
      /\ Len(f) + 1 = 4 /\ Len(f) + 2 = 5
  BY <1>1
<1>4. s[1] = f[1] /\ s[2] = f[2] /\ s[3] = f[3]
  BY <1>2, <1>3
<1>5. s[Len(f) + 1] = g[1] /\ s[Len(f) + 2] = g[2]
  BY <1>2, <1>3
<1>. QED BY <1>1, <1>2, <1>3, <1>4, <1>5 DEF g, s

\* The statements of a program of two followed by three.
LEMMA TwoAndThree ==
  ASSUME NEW a \in Statements, NEW b \in Statements, NEW c \in Statements,
         NEW d \in Statements, NEW e \in Statements
  PROVE  LET s == <<a, b>> \o <<c, d, e>>
         IN  /\ s \in Seq(Statements) /\ Len(s) = 5
             /\ s[1] = a /\ s[2] = b /\ s[3] = c /\ s[4] = d /\ s[5] = e
<1>. DEFINE f == <<a, b>>
            g == <<c, d, e>>
            s == f \o g
<1>1. /\ f \in Seq(Statements) /\ Len(f) = 2 /\ f[1] = a /\ f[2] = b
      /\ g \in Seq(Statements) /\ Len(g) = 3 /\ g[1] = c /\ g[2] = d /\ g[3] = e
  OBVIOUS
<1>. HIDE DEF f, g
<1>2. /\ s \in Seq(Statements)
      /\ Len(s) = Len(f) + Len(g)
      /\ \A i \in 1 .. Len(f) : s[i] = f[i]
      /\ \A i \in 1 .. Len(g) : s[Len(f) + i] = g[i]
  BY <1>1, Joined
<1>. HIDE DEF s
<1>3. /\ 1 \in 1 .. Len(f) /\ 2 \in 1 .. Len(f)
      /\ 1 \in 1 .. Len(g) /\ 2 \in 1 .. Len(g) /\ 3 \in 1 .. Len(g)
      /\ Len(f) + 1 = 3 /\ Len(f) + 2 = 4 /\ Len(f) + 3 = 5
  BY <1>1
<1>4. s[1] = f[1] /\ s[2] = f[2]
  BY <1>2, <1>3
<1>5. s[Len(f) + 1] = g[1] /\ s[Len(f) + 2] = g[2] /\ s[Len(f) + 3] = g[3]
  BY <1>2, <1>3
<1>. QED BY <1>1, <1>2, <1>3, <1>4, <1>5 DEF f, g, s

\* deliverDoc
LEMMA DeliverRules ==
  ASSUME NEW S \in (SUBSET Users) \ {{}}
  PROVE  /\ Rules(deliverDoc(S)) /\ deliverDoc(S) # <<>> /\ Free(deliverDoc(S)[1])
         /\ Kinds(deliverDoc(S)) =
              {"setStatus", "insertTask", "insertDetails", "complete", "invalidate"}
<1>. DEFINE a == SetStatus("UNAUDIT")
            b == InsertTask("UNAUDIT", TRUE)
            c == InsertDetails(S)
            d == Complete("UNAUDIT")
            e == Invalidate
            s == deliverDoc(S)
<1>1. "UNAUDIT" \in Status
  BY DEF Status
<1>2. /\ a \in Statements /\ a.do = "setStatus" /\ a.dest = "UNAUDIT"
      /\ d \in Statements /\ d.do = "complete" /\ d.after = "UNAUDIT"
  BY <1>1, Constructors
<1>3. b \in Statements /\ b.do = "insertTask" /\ b.pre = "UNAUDIT"
  BY <1>1, Constructors
<1>4. c \in Statements /\ c.do = "insertDetails" /\ e \in Statements /\ e.do = "invalidate"
  BY Constructors
<1>5. s = <<a, b, c>> \o <<d, e>>
  BY DEF deliverDoc, completeOneTask
<1>. HIDE DEF a, b, c, d, e, s
<1>6. /\ s \in Seq(Statements) /\ Len(s) = 5
      /\ s[1] = a /\ s[2] = b /\ s[3] = c /\ s[4] = d /\ s[5] = e
  <2>. DEFINE f == <<a, b, c>>
  <2>1. f \in Seq(Statements) /\ Len(f) = 3 /\ f[1] = a /\ f[2] = b /\ f[3] = c
    BY <1>2, <1>3, <1>4
  <2>. HIDE DEF f
  <2>. QED BY <1>2, <1>4, <1>5, <2>1, ThreeAndTwo DEF f
<1>7. /\ \A i : i \in 1 .. (Len(s) - 1) => i \in {1, 2, 3, 4}
      /\ \A i : i \in 1 .. Len(s) <=> i \in {1, 2, 3, 4, 5}
  BY <1>6
<1>8. \A i \in 1 .. (Len(s) - 1) : Precedes(s[i], s[i + 1])
  BY <1>2, <1>3, <1>4, <1>6, <1>7 DEF Precedes
<1>9. WillAt(s, 2, "UNAUDIT")
  BY <1>3, <1>6 DEF WillAt, Ahead, Settling
<1>10. \A i \in 1 .. Len(s) : Follows(s, i)
  BY <1>2, <1>3, <1>4, <1>6, <1>7, <1>9 DEF Follows, Inserts
<1>11. Kinds(s) = {a.do, b.do, c.do, d.do, e.do}
  BY <1>6, <1>7 DEF Kinds
<1>12. s # <<>>
  <2>1. s \in Seq(Statements) /\ Len(s) # 0
    BY <1>6
  <2>. QED BY <2>1, EmptyProgram
<1>13. Free(s[1])
  BY <1>1, <1>2, <1>6 DEF Free
<1>. QED
  BY <1>2, <1>3, <1>4, <1>6, <1>8, <1>10, <1>11, <1>12, <1>13 DEF Rules, s

\* subPublishDoc
LEMMA SubPublishRules ==
  ASSUME NEW S \in (SUBSET Users) \ {{}}, NEW l \in BOOLEAN
  PROVE  /\ Rules(subPublishDoc(S, l)) /\ subPublishDoc(S, l) # <<>>
         /\ Free(subPublishDoc(S, l)[1])
         /\ Kinds(subPublishDoc(S, l)) = {"setStatus", "insertTask", "insertDetails"}
<1>. DEFINE a == SetStatus("PREPUBLISH")
            b == InsertTask("PREPUBLISH", l)
            c == InsertDetails(S)
            s == subPublishDoc(S, l)
<1>1. "PREPUBLISH" \in Status
  BY DEF Status
<1>2. a \in Statements /\ a.do = "setStatus" /\ a.dest = "PREPUBLISH"
  BY <1>1, Constructors
<1>3. b \in Statements /\ b.do = "insertTask" /\ b.pre = "PREPUBLISH"
  BY <1>1, Constructors
<1>4. c \in Statements /\ c.do = "insertDetails"
  BY Constructors
<1>5. s = <<a, b, c>>
  BY DEF subPublishDoc
<1>. HIDE DEF a, b, c, s
<1>6. s \in Seq(Statements) /\ Len(s) = 3 /\ s[1] = a /\ s[2] = b /\ s[3] = c
  BY <1>2, <1>3, <1>4, <1>5
<1>7. /\ \A i : i \in 1 .. (Len(s) - 1) => i \in {1, 2}
      /\ \A i : i \in 1 .. Len(s) <=> i \in {1, 2, 3}
  BY <1>6
<1>8. \A i \in 1 .. (Len(s) - 1) : Precedes(s[i], s[i + 1])
  BY <1>2, <1>3, <1>4, <1>6, <1>7 DEF Precedes
<1>9. WillAt(s, 2, "PREPUBLISH")
  BY <1>3, <1>6 DEF WillAt, Ahead, Settling
<1>10. \A i \in 1 .. Len(s) : Follows(s, i)
  BY <1>2, <1>3, <1>4, <1>6, <1>7, <1>9 DEF Follows, Inserts
<1>11. Kinds(s) = {a.do, b.do, c.do}
  BY <1>6, <1>7 DEF Kinds
<1>12. s # <<>>
  <2>1. s \in Seq(Statements) /\ Len(s) # 0
    BY <1>6
  <2>. QED BY <2>1, EmptyProgram
<1>13. Free(s[1])
  BY <1>1, <1>2, <1>6 DEF Free
<1>. QED
  BY <1>2, <1>3, <1>4, <1>6, <1>8, <1>10, <1>11, <1>12, <1>13 DEF Rules, s

\* A task inserted for everybody, as recoverArchiveDoc does
LEMMA InsertRules ==
  ASSUME NEW S \in (SUBSET Users) \ {{}}, NEW dest \in {"UNAUDIT", "PREPUBLISH"},
         NEW l \in BOOLEAN
  PROVE  LET s == <<SetStatus(dest)>> \o <<InsertTask(dest, l), InsertDetails(S)>>
         IN  Rules(s) /\ Kinds(s) = {"setStatus", "insertTask", "insertDetails"}
<1>. DEFINE a == SetStatus(dest)
            b == InsertTask(dest, l)
            c == InsertDetails(S)
            s == <<a>> \o <<b, c>>
<1>1. dest \in Status
  BY DEF Status
<1>2. a \in Statements /\ a.do = "setStatus" /\ a.dest = dest
  BY <1>1, Constructors
<1>3. b \in Statements /\ b.do = "insertTask" /\ b.pre = dest
  BY <1>1, Constructors
<1>4. c \in Statements /\ c.do = "insertDetails"
  BY Constructors
<1>. HIDE DEF a, b, c
<1>5. s \in Seq(Statements) /\ Len(s) = 3 /\ s[1] = a /\ s[2] = b /\ s[3] = c
  BY <1>2, <1>3, <1>4, OneAndTwo
<1>. HIDE DEF s
<1>7. /\ \A i : i \in 1 .. (Len(s) - 1) => i \in {1, 2}
      /\ \A i : i \in 1 .. Len(s) <=> i \in {1, 2, 3}
  BY <1>5
<1>8. \A i \in 1 .. (Len(s) - 1) : Precedes(s[i], s[i + 1])
  BY <1>2, <1>3, <1>4, <1>5, <1>7 DEF Precedes
<1>9. WillAt(s, 2, dest)
  BY <1>3, <1>5 DEF WillAt, Ahead, Settling
<1>10. \A i \in 1 .. Len(s) : Follows(s, i)
  BY <1>2, <1>3, <1>4, <1>5, <1>7, <1>9 DEF Follows, Inserts
<1>11. Kinds(s) = {a.do, b.do, c.do}
  BY <1>5, <1>7 DEF Kinds
<1>. QED
  BY <1>2, <1>3, <1>4, <1>5, <1>8, <1>10, <1>11 DEF Rules, s, a, b, c

\* publishDocument
LEMMA PublishRules ==
  /\ Rules(publishDocument) /\ publishDocument # <<>> /\ Free(publishDocument[1])
  /\ Kinds(publishDocument) = {"readStatus", "setStatus", "endPublish"}
<1>. DEFINE a == ReadStatus
            b == SetStatus("PUBLISHING")
            c == EndPublish
            s == publishDocument
<1>1. "PUBLISHING" \in Status
  BY DEF Status
<1>2. b \in Statements /\ b.do = "setStatus" /\ b.dest = "PUBLISHING"
  BY <1>1, Constructors
<1>3. a \in Statements /\ a.do = "readStatus" /\ c \in Statements /\ c.do = "endPublish"
  BY Constructors
<1>4. s = <<a, b, c>>
  BY DEF publishDocument
<1>. HIDE DEF a, b, c, s
<1>5. s \in Seq(Statements) /\ Len(s) = 3 /\ s[1] = a /\ s[2] = b /\ s[3] = c
  BY <1>2, <1>3, <1>4
<1>6. /\ \A i : i \in 1 .. (Len(s) - 1) => i \in {1, 2}
      /\ \A i : i \in 1 .. Len(s) <=> i \in {1, 2, 3}
  BY <1>5
<1>7. \A i \in 1 .. (Len(s) - 1) : Precedes(s[i], s[i + 1])
  BY <1>2, <1>3, <1>5, <1>6 DEF Precedes
<1>8. \A i \in 1 .. Len(s) : Follows(s, i)
  BY <1>2, <1>3, <1>5, <1>6 DEF Follows, Waiting
<1>9. Kinds(s) = {a.do, b.do, c.do}
  BY <1>5, <1>6 DEF Kinds
<1>10. s # <<>>
  <2>1. s \in Seq(Statements) /\ Len(s) # 0
    BY <1>5
  <2>. QED BY <2>1, EmptyProgram
<1>11. Free(s[1])
  BY <1>3, <1>5 DEF Free
<1>. QED
  BY <1>2, <1>3, <1>5, <1>7, <1>8, <1>9, <1>10, <1>11 DEF Rules, s

\* withdrawDeliver
LEMMA WithdrawRules ==
  /\ Rules(withdrawDeliver) /\ withdrawDeliver # <<>> /\ Free(withdrawDeliver[1])
  /\ Kinds(withdrawDeliver) = {"setStatus", "pickDelivery", "deleteDetails", "deleteTask"}
<1>. DEFINE a == SetStatus("NEW")
            b == PickDelivery
            c == DeleteDetails
            d == DeleteTask
            s == withdrawDeliver
<1>1. "NEW" \in Status
  BY DEF Status
<1>2. a \in Statements /\ a.do = "setStatus" /\ a.dest = "NEW"
  BY <1>1, Constructors
<1>3. /\ b \in Statements /\ b.do = "pickDelivery"
      /\ c \in Statements /\ c.do = "deleteDetails"
      /\ d \in Statements /\ d.do = "deleteTask"
  BY Constructors
<1>4. s = <<a, b, c, d>>
  BY DEF withdrawDeliver
<1>. HIDE DEF a, b, c, d, s
<1>5. /\ s \in Seq(Statements) /\ Len(s) = 4
      /\ s[1] = a /\ s[2] = b /\ s[3] = c /\ s[4] = d
  BY <1>2, <1>3, <1>4
<1>6. /\ \A i : i \in 1 .. (Len(s) - 1) => i \in {1, 2, 3}
      /\ \A i : i \in 1 .. Len(s) <=> i \in {1, 2, 3, 4}
  BY <1>5
<1>7. \A i \in 1 .. (Len(s) - 1) : Precedes(s[i], s[i + 1])
  BY <1>2, <1>3, <1>5, <1>6 DEF Precedes
<1>8. \A i \in 1 .. Len(s) : Follows(s, i)
  BY <1>2, <1>3, <1>5, <1>6 DEF Follows, Waiting
<1>9. Kinds(s) = {a.do, b.do, c.do, d.do}
  BY <1>5, <1>6 DEF Kinds
<1>10. s # <<>>
  <2>1. s \in Seq(Statements) /\ Len(s) # 0
    BY <1>5
  <2>. QED BY <2>1, EmptyProgram
<1>11. Free(s[1])
  BY <1>2, <1>5 DEF Free
<1>. QED
  BY <1>2, <1>3, <1>5, <1>7, <1>8, <1>9, <1>10, <1>11 DEF Rules, s

\* audit, of a document that is not rejected
LEMMA AuditRules ==
  /\ Rules(audit("AUDITED")) /\ audit("AUDITED") # <<>> /\ Free(audit("AUDITED")[1])
  /\ Kinds(audit("AUDITED")) = {"setStatus", "complete", "invalidate"}
<1>. DEFINE a == SetStatus("AUDITED")
            b == Complete("AUDITED")
            c == Invalidate
            h == <<a>> \o <<b, c>>
            s == audit("AUDITED")
<1>1. "AUDITED" \in Status
  BY DEF Status
<1>2. /\ a \in Statements /\ a.do = "setStatus" /\ a.dest = "AUDITED"
      /\ b \in Statements /\ b.do = "complete" /\ b.after = "AUDITED"
  BY <1>1, Constructors
<1>3. c \in Statements /\ c.do = "invalidate"
  BY Constructors
<1>4. s = h \o <<>>
  BY DEF audit, completeOneTask
<1>. HIDE DEF a, b, c, s
<1>5. h \in Seq(Statements) /\ Len(h) = 3 /\ h[1] = a /\ h[2] = b /\ h[3] = c
  BY <1>2, <1>3, OneAndTwo
<1>. HIDE DEF h
<1>6. s = h
  BY <1>4, <1>5, ConcatEmptySeq
<1>7. s \in Seq(Statements) /\ Len(s) = 3 /\ s[1] = a /\ s[2] = b /\ s[3] = c
  BY <1>5, <1>6
<1>8. /\ \A i : i \in 1 .. (Len(s) - 1) => i \in {1, 2}
      /\ \A i : i \in 1 .. Len(s) <=> i \in {1, 2, 3}
  BY <1>7
<1>9. \A i \in 1 .. (Len(s) - 1) : Precedes(s[i], s[i + 1])
  BY <1>2, <1>3, <1>7, <1>8 DEF Precedes
<1>10. \A i \in 1 .. Len(s) : Follows(s, i)
  BY <1>2, <1>3, <1>7, <1>8 DEF Follows, Waiting
<1>11. Kinds(s) = {a.do, b.do, c.do}
  BY <1>7, <1>8 DEF Kinds
<1>12. s # <<>>
  <2>1. s \in Seq(Statements) /\ Len(s) # 0
    BY <1>7
  <2>. QED BY <2>1, EmptyProgram
<1>13. Free(s[1])
  BY <1>2, <1>7 DEF Free
<1>. QED
  BY <1>2, <1>3, <1>7, <1>9, <1>10, <1>11, <1>12, <1>13 DEF Rules, s

\* audit, of a document that is rejected
LEMMA RejectRules ==
  /\ Rules(audit("ROLLBACK")) /\ audit("ROLLBACK") # <<>> /\ Free(audit("ROLLBACK")[1])
  /\ Kinds(audit("ROLLBACK")) =
       {"setStatus", "complete", "invalidate", "insertTask", "insertRework"}
<1>. DEFINE a == SetStatus("ROLLBACK")
            b == Complete("ROLLBACK")
            c == Invalidate
            d == InsertTask("ROLLBACK", TRUE)
            e == InsertRework
            h == <<a>> \o <<b, c>>
            s == audit("ROLLBACK")
<1>1. "ROLLBACK" \in Status
  BY DEF Status
<1>2. /\ a \in Statements /\ a.do = "setStatus" /\ a.dest = "ROLLBACK"
      /\ b \in Statements /\ b.do = "complete" /\ b.after = "ROLLBACK"
  BY <1>1, Constructors
<1>3. /\ d \in Statements /\ d.do = "insertTask" /\ d.pre = "ROLLBACK" /\ d.linked
      /\ d \in Reworks
  BY <1>1, Constructors DEF Reworks
<1>4. c \in Statements /\ c.do = "invalidate" /\ e \in Statements /\ e.do = "insertRework"
  BY Constructors
<1>5. s = h \o <<d, e>>
  BY DEF audit, completeOneTask
<1>. HIDE DEF a, b, c, d, e, s
<1>6. h \in Seq(Statements) /\ Len(h) = 3 /\ h[1] = a /\ h[2] = b /\ h[3] = c
  BY <1>2, <1>4, OneAndTwo
<1>. HIDE DEF h
<1>7. /\ s \in Seq(Statements) /\ Len(s) = 5
      /\ s[1] = a /\ s[2] = b /\ s[3] = c /\ s[4] = d /\ s[5] = e
  BY <1>3, <1>4, <1>5, <1>6, ThreeAndTwo
<1>8. /\ \A i : i \in 1 .. (Len(s) - 1) => i \in {1, 2, 3, 4}
      /\ \A i : i \in 1 .. Len(s) <=> i \in {1, 2, 3, 4, 5}
  BY <1>7
<1>9. \A i \in 1 .. (Len(s) - 1) : Precedes(s[i], s[i + 1])
  BY <1>2, <1>3, <1>4, <1>7, <1>8 DEF Precedes
<1>10. WillAt(s, 2, "ROLLBACK")
  <2>1. d \in Settling("ROLLBACK")
    BY <1>3 DEF Settling
  <2>2. 4 \in 2 .. Len(s) /\ \A m \in 2 .. (4 - 1) : m = 2 \/ m = 3
    BY <1>7
  <2>. QED BY <1>2, <1>4, <1>7, <2>1, <2>2 DEF WillAt, Ahead
<1>11. OwesAt(s, 3)
  <2>1. 4 \in 3 .. Len(s) /\ \A m \in 3 .. (4 - 1) : m = 3
    BY <1>7
  <2>. QED BY <1>3, <1>4, <1>7, <2>1 DEF OwesAt, Ahead
<1>12. \A i \in 1 .. Len(s) : Follows(s, i)
  BY <1>2, <1>3, <1>4, <1>7, <1>8, <1>10, <1>11 DEF Follows, Inserts
<1>13. Kinds(s) = {a.do, b.do, c.do, d.do, e.do}
  BY <1>7, <1>8 DEF Kinds
<1>14. s # <<>>
  <2>1. s \in Seq(Statements) /\ Len(s) # 0
    BY <1>7
  <2>. QED BY <2>1, EmptyProgram
<1>15. Free(s[1])
  BY <1>2, <1>7 DEF Free
<1>. QED
  BY <1>2, <1>3, <1>4, <1>7, <1>9, <1>12, <1>13, <1>14, <1>15 DEF Rules, s

\* toPubWithdraw
LEMMA WithdrawPublishRules ==
  /\ Rules(<<FindExecuter>> \o toPubWithdraw)
  /\ (<<FindExecuter>> \o toPubWithdraw)[1] = FindExecuter
  /\ <<FindExecuter>> \o toPubWithdraw # <<>>
  /\ Kinds(<<FindExecuter>> \o toPubWithdraw) =
       {"findExecuter", "complete", "invalidate", "setStatus", "insertTask", "insertExecuter"}
<1>. DEFINE a == Complete("ROLLBACK")
            b == Invalidate
            c == SetStatus("ROLLBACK")
            d == InsertTask("ROLLBACK", TRUE)
            e == InsertExecuter
            x == FindExecuter
            s == toPubWithdraw
            u == <<x>> \o s
<1>1. "ROLLBACK" \in Status
  BY DEF Status
<1>2. /\ c \in Statements /\ c.do = "setStatus" /\ c.dest = "ROLLBACK"
      /\ a \in Statements /\ a.do = "complete" /\ a.after = "ROLLBACK"
  BY <1>1, Constructors
<1>3. /\ d \in Statements /\ d.do = "insertTask" /\ d.pre = "ROLLBACK" /\ d.linked
      /\ d \in Reworks
  BY <1>1, Constructors DEF Reworks
<1>4. /\ b \in Statements /\ b.do = "invalidate"
      /\ e \in Statements /\ e.do = "insertExecuter"
      /\ x \in Statements /\ x.do = "findExecuter"
  BY Constructors
<1>5. s = <<a, b>> \o <<c, d, e>>
  BY DEF toPubWithdraw, completeOneTask
<1>. HIDE DEF a, b, c, d, e, s, x
<1>6. /\ s \in Seq(Statements) /\ Len(s) = 5
      /\ s[1] = a /\ s[2] = b /\ s[3] = c /\ s[4] = d /\ s[5] = e
  BY <1>2, <1>3, <1>4, <1>5, TwoAndThree
<1>7. /\ \A i : i \in 1 .. (Len(s) - 1) => i \in {1, 2, 3, 4}
      /\ \A i : i \in 1 .. Len(s) <=> i \in {1, 2, 3, 4, 5}
  BY <1>6
<1>8. \A i \in 1 .. (Len(s) - 1) : Precedes(s[i], s[i + 1])
  BY <1>2, <1>3, <1>4, <1>6, <1>7 DEF Precedes
<1>9. WillAt(s, 4, "ROLLBACK")
  BY <1>3, <1>6 DEF WillAt, Ahead, Settling
<1>10. OwesAt(s, 2)
  <2>1. 4 \in 2 .. Len(s) /\ \A m \in 2 .. (4 - 1) : m = 2 \/ m = 3
    BY <1>6
  <2>. QED BY <1>2, <1>3, <1>4, <1>6, <2>1 DEF OwesAt, Ahead
<1>11. \A i \in 1 .. Len(s) : Follows(s, i)
  BY <1>2, <1>3, <1>4, <1>6, <1>7, <1>9, <1>10 DEF Follows, Inserts
<1>12. Kinds(s) = {a.do, b.do, c.do, d.do, e.do}
  BY <1>6, <1>7 DEF Kinds
<1>13. Rules(s)
  BY <1>6, <1>8, <1>11 DEF Rules
<1>14. Precedes(x, s[1])
  BY <1>2, <1>4, <1>6 DEF Precedes
<1>15. ASSUME NEW st \in Status
       PROVE  WillAt(s, 1, st)
  <2>1. c \in Settling(st)
    BY <1>2 DEF Settling
  <2>2. 3 \in 1 .. Len(s) /\ \A m \in 1 .. (3 - 1) : m = 1 \/ m = 2
    BY <1>6
  <2>. QED BY <1>2, <1>4, <1>6, <2>1, <2>2 DEF WillAt, Ahead
<1>16. Follows(u, 1)
  <2>. DEFINE h == <<x>>
  <2>1. h \in Seq(Statements) /\ Len(h) = 1 /\ h[1] = x
    BY <1>4
  <2>. HIDE DEF h
  <2>2. \A i \in 1 .. Len(h) : (h \o s)[i] = h[i]
    BY <1>6, <2>1, Joined
  <2>3. u[1] = x
    <3>1. 1 \in 1 .. Len(h)
      BY <2>1
    <3>. QED BY <2>1, <2>2, <3>1 DEF h
  <2>4. ASSUME NEW st \in Status
        PROVE  WillAt(u, 2, st)
    <3>. DEFINE B == {"complete", "invalidate"}
                T == Settling(st)
    <3>1. Ahead(s, 1, B, T)
      BY <1>15, <2>4 DEF WillAt
    <3>. HIDE DEF B, T
    <3>2. 1 \in Nat \ {0}
      OBVIOUS
    <3>3. Ahead(h \o s, Len(h) + 1, B, T)
      BY <1>6, <2>1, <3>1, <3>2, AheadOnTheRight
    <3>4. WillAt(h \o s, Len(h) + 1, st)
      BY <3>3 DEF WillAt, B, T
    <3>. QED BY <2>1, <3>4 DEF h
  <2>. HIDE DEF u
  <2>. QED BY <1>4, <2>3, <2>4 DEF Follows
<1>17. /\ Rules(u) /\ Kinds(u) = {x.do} \union Kinds(s) /\ u[1] = x /\ u # <<>>
  BY <1>4, <1>13, <1>14, <1>16, HeadRules
<1>. QED BY <1>2, <1>3, <1>4, <1>12, <1>17 DEF s, u, x

\* One status set, which nobody waits for
LEMMA SetRules ==
  ASSUME NEW st \in Status, st \notin Waiting, st # "PUBLISHING"
  PROVE  /\ Rules(<<SetStatus(st)>>) /\ <<SetStatus(st)>> # <<>>
         /\ Free(<<SetStatus(st)>>[1]) /\ Kinds(<<SetStatus(st)>>) = {"setStatus"}
<1>. DEFINE x == SetStatus(st)
<1>1. x \in Statements /\ x.do = "setStatus" /\ x.dest = st
  BY Constructors
<1>. HIDE DEF x
<1>2. Rules(<<x>>) /\ Kinds(<<x>>) = {x.do} /\ <<x>>[1] = x /\ <<x>> # <<>>
  BY <1>1, OneStatement
<1>. QED BY <1>1, <1>2 DEF x, Free

\* The status read, and the document recycled or recovered
LEMMA GarbageRules ==
  ASSUME NEW y \in {Garbage, Recover}
  PROVE  /\ Rules(<<ReadStatus, y>>) /\ <<ReadStatus, y>> # <<>>
         /\ Free(<<ReadStatus, y>>[1])
         /\ Kinds(<<ReadStatus, y>>) \subseteq {"readStatus", "garbage", "recover"}
<1>. DEFINE x == ReadStatus
            s == <<x, y>>
<1>1. /\ x \in Statements /\ x.do = "readStatus"
      /\ y \in Statements /\ y.do \in {"garbage", "recover"}
  BY Constructors
<1>. HIDE DEF x
<1>2. s \in Seq(Statements) /\ Len(s) = 2 /\ s[1] = x /\ s[2] = y
  BY <1>1
<1>. HIDE DEF s
<1>3. /\ \A i : i \in 1 .. (Len(s) - 1) => i = 1
      /\ \A i : i \in 1 .. Len(s) <=> i \in {1, 2}
  BY <1>2
<1>4. \A i \in 1 .. (Len(s) - 1) : Precedes(s[i], s[i + 1])
  BY <1>1, <1>2, <1>3 DEF Precedes
<1>5. \A i \in 1 .. Len(s) : Follows(s, i)
  BY <1>1, <1>2, <1>3 DEF Follows
<1>6. Kinds(s) = {x.do, y.do}
  BY <1>2, <1>3 DEF Kinds
<1>7. s # <<>>
  <2>1. s \in Seq(Statements) /\ Len(s) # 0
    BY <1>2
  <2>. QED BY <2>1, EmptyProgram
<1>. QED BY <1>1, <1>2, <1>4, <1>5, <1>6, <1>7 DEF Rules, Free, s, x

\* Joined programs begin as the first does.
LEMMA JoinedFirst ==
  ASSUME NEW s \in Seq(Statements), NEW t \in Seq(Statements), s # <<>>
  PROVE  s \o t # <<>> /\ (s \o t)[1] = s[1]
<1>. DEFINE u == s \o t
<1>1. /\ u \in Seq(Statements) /\ Len(s) \in Nat /\ Len(t) \in Nat
      /\ Len(u) = Len(s) + Len(t)
      /\ \A i \in 1 .. Len(s) : u[i] = s[i]
  BY Joined
<1>. HIDE DEF u
<1>2. Len(s) # 0
  BY EmptyProgram
<1>3. u # <<>>
  BY <1>1, <1>2, EmptyProgram
<1>4. 1 \in 1 .. Len(s)
  BY <1>1, <1>2
<1>. QED BY <1>1, <1>3, <1>4 DEF u

\* Two programs that follow the rules, the second with a free beginning
LEMMA JoinFree ==
  ASSUME NEW s, NEW t, Rules(s), s # <<>>, Rules(t), Free(t[1])
  PROVE  /\ Rules(s \o t) /\ Kinds(s \o t) = Kinds(s) \union Kinds(t)
         /\ s \o t # <<>> /\ (s \o t)[1] = s[1]
  BY JoinRules, JoinedFirst DEF Rules

\* A program behind the search for a task
LEMMA FindRules ==
  ASSUME NEW pre \in Status, NEW s, Rules(s), Free(s[1])
  PROVE  /\ Rules(<<FindTask(pre)>> \o s)
         /\ Kinds(<<FindTask(pre)>> \o s) = {"findTask"} \union Kinds(s)
         /\ <<FindTask(pre)>> \o s # <<>>
         /\ (<<FindTask(pre)>> \o s)[1] = FindTask(pre)
<1>. DEFINE x == FindTask(pre)
<1>1. x \in Statements /\ x.do = "findTask"
  BY Constructors
<1>. HIDE DEF x
<1>2. Rules(<<x>>) /\ Kinds(<<x>>) = {x.do} /\ <<x>>[1] = x /\ <<x>> # <<>>
  BY <1>1, OneStatement
<1>3. /\ Rules(<<x>> \o s) /\ Kinds(<<x>> \o s) = {x.do} \union Kinds(s)
      /\ <<x>> \o s # <<>> /\ (<<x>> \o s)[1] = x
  BY <1>2, JoinFree
<1>. QED BY <1>1, <1>3 DEF x

\* auditDocHandle.jsp
LEMMA AuditHandlerRules ==
  ASSUME NEW v \in {"AUDITED", "ROLLBACK"}
  PROVE  /\ Rules(AuditHandler(v)) /\ AuditHandler(v) # <<>> /\ Free(AuditHandler(v)[1])
         /\ Kinds(AuditHandler(v)) \subseteq
              {"check", "setStatus", "complete", "invalidate", "insertTask", "insertRework"}
<1>. DEFINE more == IF v = "AUDITED" /\ ~NeedsPublishing
                    THEN <<SetStatus("PUBLISHED")>> ELSE <<>>
            body == audit(v) \o more
<1>1. v \in Status /\ "PUBLISHED" \in Status /\ "PUBLISHED" \notin Waiting
  BY DEF Status, Waiting
<1>2. /\ Rules(audit(v)) /\ audit(v) # <<>> /\ Free(audit(v)[1])
      /\ Kinds(audit(v)) \subseteq
           {"setStatus", "complete", "invalidate", "insertTask", "insertRework"}
  BY AuditRules, RejectRules
<1>3. /\ Rules(more) /\ Kinds(more) \subseteq {"setStatus"}
      /\ more # <<>> => Free(more[1])
  BY <1>1, SetRules, NoStatement
<1>. HIDE DEF more
<1>4. /\ Rules(body) /\ Kinds(body) = Kinds(audit(v)) \union Kinds(more)
      /\ body # <<>> /\ body[1] = audit(v)[1]
  BY <1>2, <1>3, JoinRules, JoinedFirst DEF Rules
<1>5. AuditHandler(v) = Guarded(v, body)
  BY DEF AuditHandler, more
<1>. HIDE DEF body
<1>6. /\ Rules(Guarded(v, body)) /\ Guarded(v, body) # <<>> /\ Free(Guarded(v, body)[1])
      /\ Kinds(Guarded(v, body)) = {"check"} \union Kinds(body)
  BY <1>1, <1>2, <1>4, GuardRules
<1>. QED BY <1>2, <1>3, <1>4, <1>5, <1>6
------------------------------------------------------------------------------
(* The programs of the pages *)

Deletes == {"pickDelivery", "deleteDetails", "deleteTask"}

\* What excludes what in one program
Exclusive(K) ==
  /\ "insertExecuter" \in K => K \intersect {"findTask", "pickDelivery"} = {}
  /\ K \intersect Deletes # {} => K \subseteq Deletes \union {"check", "setStatus"}

\* What holds of the program s that a page gives the user u, with the task t
Begins(u, t, s) ==
  /\ Rules(s) /\ s # <<>> /\ Exclusive(Kinds(s))
  /\ t \in DOMAIN task \union {0}
  /\ Free(s[1]) \/ s[1].do \in {"findTask", "findExecuter"}
  /\ "insertExecuter" \in Kinds(s) \/ s[1].do = "findExecuter" =>
       Listed(u, t, "PREPUBLISH") /\ s[1].do = "findExecuter"
  /\ "insertRework" \in Kinds(s) =>
       IF s[1].do = "findTask" THEN Held(u, s[1].pre) # {} ELSE t \in DOMAIN task

\* The usual program begins freely, deletes nothing and reworks a listed task.
LEMMA UsualProgram ==
  ASSUME NEW u, NEW t \in DOMAIN task \union {0}, NEW s, Rules(s), s # <<>>, Free(s[1]),
         Kinds(s) \intersect (Deletes \union {"insertExecuter"}) = {},
         "insertRework" \in Kinds(s) => t \in DOMAIN task
  PROVE  Begins(u, t, s)
<1>1. Exclusive(Kinds(s))
  BY DEF Exclusive
<1>2. s[1].do \notin {"findTask", "findExecuter"} /\ "insertExecuter" \notin Kinds(s)
  BY DEF Free
<1>. QED BY <1>1, <1>2 DEF Begins

\* Every page gives the user a program that begins as it should: the pages
\* that are offered without a task ...
LEMMA MenuPages ==
  ASSUME WorkflowAssumption, NEW r \in Requests, NEW u \in Users,
         \/ SendForAudit(r, u) \/ SubmitForPublish(r, u) \/ AuditFromMenu(r, u)
         \/ WithdrawDelivery(r, u) \/ Publish(r, u) \/ WithdrawPublished(r, u)
         \/ Archive(r, u) \/ RestoreArchived(r, u) \/ Recycle(r, u)
         \/ RecoverRecycled(r, u) \/ \E t \in DOMAIN task : PublishListed(r, u, t)
  PROVE  \E s : Submit(r, u, 0, s) /\ Begins(u, 0, s)
<1>. USE DEF Deletes
<1>0. /\ Groups \subseteq (SUBSET Users) \ {{}}
      /\ Users \in (SUBSET Users) \ {{}}
      /\ {"NEW", "UNAUDIT", "AUDITED", "ROLLBACK", "PUBLISHED", "WITHDRAWPUBLISHED",
          "ARCHIVED", "PREPUBLISH"} \subseteq Status
      /\ 0 \in DOMAIN task \union {0}
  BY DEF WorkflowAssumption, Status
<1>1. CASE SendForAudit(r, u)
  <2>1. PICK S \in Groups : Submit(r, u, 0, <<FindTask("ROLLBACK")>> \o deliverDoc(S))
    BY <1>1 DEF SendForAudit
  <2>. DEFINE s == <<FindTask("ROLLBACK")>> \o deliverDoc(S)
  <2>2. /\ Rules(s) /\ s # <<>> /\ s[1] = FindTask("ROLLBACK")
        /\ Kinds(s) = {"findTask"} \union
             {"setStatus", "insertTask", "insertDetails", "complete", "invalidate"}
    BY <1>0, DeliverRules, FindRules
  <2>3. s[1].do = "findTask"
    BY <2>2, <1>0, Constructors
  <2>. HIDE DEF s
  <2>4. Begins(u, 0, s)
    BY <1>0, <2>2, <2>3 DEF Begins, Exclusive
  <2>. QED BY <2>1, <2>4 DEF s
<1>2. CASE SubmitForPublish(r, u)
  <2>1. PICK S \in Groups : Submit(r, u, 0, subPublishDoc(S, FALSE))
    BY <1>2 DEF SubmitForPublish
  <2>. DEFINE s == subPublishDoc(S, FALSE)
  <2>2. /\ Rules(s) /\ s # <<>> /\ Free(s[1])
        /\ Kinds(s) = {"setStatus", "insertTask", "insertDetails"}
    BY <1>0, SubPublishRules
  <2>. HIDE DEF s
  <2>3. Begins(u, 0, s)
    BY <1>0, <2>2, UsualProgram
  <2>. QED BY <2>1, <2>3 DEF s
<1>3. CASE AuditFromMenu(r, u)
  <2>1. PICK v \in {"AUDITED", "ROLLBACK"} :
          Submit(r, u, 0, <<FindTask("UNAUDIT")>> \o AuditHandler(v))
    BY <1>3 DEF AuditFromMenu
  <2>. DEFINE s == <<FindTask("UNAUDIT")>> \o AuditHandler(v)
  <2>2. /\ Rules(s) /\ s # <<>> /\ s[1] = FindTask("UNAUDIT")
        /\ Kinds(s) = {"findTask"} \union Kinds(AuditHandler(v))
        /\ Kinds(AuditHandler(v)) \subseteq
             {"check", "setStatus", "complete", "invalidate", "insertTask", "insertRework"}
    BY <1>0, AuditHandlerRules, FindRules
  <2>3. s[1].do = "findTask" /\ s[1].pre = "UNAUDIT" /\ Held(u, "UNAUDIT") # {}
    BY <1>3, <2>2, <1>0, Constructors DEF AuditFromMenu
  <2>. HIDE DEF s
  <2>4. Begins(u, 0, s)
    BY <1>0, <2>2, <2>3 DEF Begins, Exclusive
  <2>. QED BY <2>1, <2>4 DEF s
<1>4. CASE WithdrawDelivery(r, u)
  <2>. DEFINE s == Guarded("NEW", withdrawDeliver)
  <2>1. Submit(r, u, 0, s)
    BY <1>4 DEF WithdrawDelivery
  <2>2. /\ Rules(s) /\ s # <<>> /\ Free(s[1])
        /\ Kinds(s) = {"check"} \union
             {"setStatus", "pickDelivery", "deleteDetails", "deleteTask"}
    BY <1>0, WithdrawRules, GuardRules
  <2>. HIDE DEF s
  <2>3. Begins(u, 0, s)
    BY <1>0, <2>2 DEF Begins, Exclusive, Free
  <2>. QED BY <2>1, <2>3
<1>5. CASE Publish(r, u)
  <2>. DEFINE s == Guarded("PUBLISHED", publishDocument)
  <2>1. Submit(r, u, 0, s)
    BY <1>5 DEF Publish
  <2>2. /\ Rules(s) /\ s # <<>> /\ Free(s[1])
        /\ Kinds(s) = {"check"} \union {"readStatus", "setStatus", "endPublish"}
    BY <1>0, PublishRules, GuardRules
  <2>. HIDE DEF s
  <2>3. Begins(u, 0, s)
    BY <1>0, <2>2, UsualProgram
  <2>. QED BY <2>1, <2>3
<1>6. CASE WithdrawPublished(r, u)
  <2>. DEFINE s == Guarded("WITHDRAWPUBLISHED", <<SetStatus("WITHDRAWPUBLISHED")>>)
  <2>1. Submit(r, u, 0, s)
    BY <1>6 DEF WithdrawPublished
  <2>2. "WITHDRAWPUBLISHED" \notin Waiting
    BY DEF Waiting
  <2>3. /\ Rules(s) /\ s # <<>> /\ Free(s[1])
        /\ Kinds(s) = {"check"} \union {"setStatus"}
    BY <1>0, <2>2, SetRules, GuardRules
  <2>. HIDE DEF s
  <2>4. Begins(u, 0, s)
    BY <1>0, <2>3, UsualProgram
  <2>. QED BY <2>1, <2>4
<1>7. CASE Archive(r, u)
  <2>. DEFINE s == <<SetStatus("ARCHIVED")>>
  <2>1. Submit(r, u, 0, s)
    BY <1>7 DEF Archive
  <2>2. "ARCHIVED" \notin Waiting
    BY DEF Waiting
  <2>3. Rules(s) /\ s # <<>> /\ Free(s[1]) /\ Kinds(s) = {"setStatus"}
    BY <1>0, <2>2, SetRules
  <2>. HIDE DEF s
  <2>4. Begins(u, 0, s)
    BY <1>0, <2>3, UsualProgram
  <2>. QED BY <2>1, <2>4
<1>8. CASE RestoreArchived(r, u)
  <2>. DEFINE more(dest) == IF dest \in {"UNAUDIT", "PREPUBLISH"}
                            THEN <<InsertTask(dest, FALSE), InsertDetails(Users)>>
                            ELSE <<>>
              s(dest) == <<SetStatus(dest)>> \o more(dest)
  <2>1. PICK dest \in {f[1] : f \in Flow} \ {"ARCHIVED", "ROLLBACK", "PUBLISHING"} :
          Submit(r, u, 0, s(dest))
    BY <1>8 DEF RestoreArchived
  <2>2. dest \in Status /\ dest \notin {"ROLLBACK", "PUBLISHING"}
    BY DEF WorkflowAssumption
  <2>3. CASE dest \in {"UNAUDIT", "PREPUBLISH"}
    <3>. DEFINE q == <<SetStatus(dest)>> \o <<InsertTask(dest, FALSE), InsertDetails(Users)>>
    <3>1. s(dest) = q
      BY <2>3
    <3>2. Rules(q) /\ Kinds(q) = {"setStatus", "insertTask", "insertDetails"}
      BY <1>0, <2>3, InsertRules
    <3>3. q # <<>> /\ q[1] = SetStatus(dest)
      <4>. DEFINE a == SetStatus(dest)
                  b == InsertTask(dest, FALSE)
                  c == InsertDetails(Users)
      <4>1. a \in Statements /\ b \in Statements /\ c \in Statements
        <5>1. a \in Statements
          BY <2>2, Constructors
        <5>2. b \in Statements
          BY <2>2, Constructors
        <5>3. c \in Statements
          BY <1>0, Constructors
        <5>. QED BY <5>1, <5>2, <5>3
      <4>. HIDE DEF a, b, c
      <4>2. <<a>> \in Seq(Statements) /\ <<b, c>> \in Seq(Statements) /\ <<a>> # <<>>
            /\ <<a>>[1] = a
        BY <4>1
      <4>3. <<a>> \o <<b, c>> # <<>> /\ (<<a>> \o <<b, c>>)[1] = a
        BY <4>2, JoinedFirst
      <4>. QED BY <4>3 DEF a, b, c
    <3>4. Free(q[1])
      BY <2>2, <3>3, Constructors DEF Free
    <3>. HIDE DEF q
    <3>5. Begins(u, 0, q)
      BY <1>0, <3>2, <3>3, <3>4, UsualProgram
    <3>. QED BY <2>1, <3>1, <3>5
  <2>4. CASE dest \notin {"UNAUDIT", "PREPUBLISH"}
    <3>. DEFINE q == <<SetStatus(dest)>>
    <3>1. dest \notin Waiting
      BY <2>2, <2>4 DEF Waiting
    <3>2. Rules(q) /\ q # <<>> /\ Free(q[1]) /\ Kinds(q) = {"setStatus"}
      BY <2>2, <3>1, SetRules
    <3>. HIDE DEF q
    <3>3. s(dest) = q
      BY <2>4, <3>2, ConcatEmptySeq DEF Rules, q
    <3>4. Begins(u, 0, q)
      BY <1>0, <3>2, UsualProgram
    <3>. QED BY <2>1, <3>3, <3>4
  <2>. QED BY <2>3, <2>4
<1>9. CASE Recycle(r, u)
  <2>. DEFINE s == Guarded("RECYCLED", <<ReadStatus, Garbage>>)
  <2>1. Submit(r, u, 0, s)
    BY <1>9 DEF Recycle
  <2>2. /\ Rules(s) /\ s # <<>> /\ Free(s[1])
        /\ Kinds(s) \subseteq {"check"} \union {"readStatus", "garbage", "recover"}
    <3>. DEFINE body == <<ReadStatus, Garbage>>
    <3>1. /\ Rules(body) /\ body # <<>> /\ Free(body[1])
          /\ Kinds(body) \subseteq {"readStatus", "garbage", "recover"}
      BY GarbageRules
    <3>. HIDE DEF body
    <3>2. "RECYCLED" \in Status \union {"RECYCLED"}
      OBVIOUS
    <3>3. /\ Rules(Guarded("RECYCLED", body)) /\ Guarded("RECYCLED", body) # <<>>
          /\ Free(Guarded("RECYCLED", body)[1])
          /\ Kinds(Guarded("RECYCLED", body)) = {"check"} \union Kinds(body)
      BY <3>1, <3>2, GuardRules
    <3>. QED BY <3>1, <3>3 DEF body
  <2>. HIDE DEF s
  <2>3. Begins(u, 0, s)
    BY <1>0, <2>2, UsualProgram
  <2>. QED BY <2>1, <2>3
<1>10. CASE RecoverRecycled(r, u)
  <2>. DEFINE s == <<ReadStatus, Recover>>
  <2>1. Submit(r, u, 0, s)
    BY <1>10 DEF RecoverRecycled
  <2>2. /\ Rules(s) /\ s # <<>> /\ Free(s[1])
        /\ Kinds(s) \subseteq {"readStatus", "garbage", "recover"}
    BY GarbageRules
  <2>. HIDE DEF s
  <2>3. Begins(u, 0, s)
    BY <1>0, <2>2, UsualProgram
  <2>. QED BY <2>1, <2>3
<1>11. CASE \E t \in DOMAIN task : PublishListed(r, u, t)
  <2>. DEFINE s == publishDocument
  <2>1. Submit(r, u, 0, s)
    BY <1>11 DEF PublishListed
  <2>2. /\ Rules(s) /\ s # <<>> /\ Free(s[1])
        /\ Kinds(s) = {"readStatus", "setStatus", "endPublish"}
    BY PublishRules
  <2>. HIDE DEF s
  <2>3. Begins(u, 0, s)
    BY <1>0, <2>2, UsualProgram
  <2>. QED BY <2>1, <2>3
<1>. QED
  BY <1>1, <1>2, <1>3, <1>4, <1>5, <1>6, <1>7, <1>8, <1>9, <1>10, <1>11

\* ... and those of a task on one of the user's lists.
LEMMA ListPages ==
  ASSUME WorkflowAssumption, NEW r \in Requests, NEW u \in Users, NEW t \in DOMAIN task,
         \/ Resend(r, u, t) \/ AuditListed(r, u, t) \/ AuditAndSend(r, u, t)
         \/ AuditAndSubmit(r, u, t) \/ AuditAndPublish(r, u, t)
         \/ WithdrawFromPublishing(r, u, t)
  PROVE  \E s : Submit(r, u, t, s) /\ Begins(u, t, s)
<1>. USE DEF Deletes
<1>0. /\ Groups \subseteq (SUBSET Users) \ {{}}
      /\ {"UNAUDIT", "AUDITED", "PUBLISHED", "PREPUBLISH"} \subseteq Status
      /\ t \in DOMAIN task \union {0}
  BY DEF WorkflowAssumption, Status
<1>1. \A S \in Groups :
        /\ Rules(Guarded("UNAUDIT", deliverDoc(S)))
        /\ Guarded("UNAUDIT", deliverDoc(S)) # <<>>
        /\ Free(Guarded("UNAUDIT", deliverDoc(S))[1])
        /\ Kinds(Guarded("UNAUDIT", deliverDoc(S))) = {"check"} \union
             {"setStatus", "insertTask", "insertDetails", "complete", "invalidate"}
  BY <1>0, DeliverRules, GuardRules
<1>2. CASE Resend(r, u, t)
  <2>1. PICK S \in Groups : Submit(r, u, t, Guarded("UNAUDIT", deliverDoc(S)))
    BY <1>2 DEF Resend
  <2>. DEFINE s == Guarded("UNAUDIT", deliverDoc(S))
  <2>2. /\ Rules(s) /\ s # <<>> /\ Free(s[1])
        /\ Kinds(s) = {"check"} \union
             {"setStatus", "insertTask", "insertDetails", "complete", "invalidate"}
    BY <1>1
  <2>. HIDE DEF s
  <2>3. Begins(u, t, s)
    BY <1>0, <2>2, UsualProgram
  <2>. QED BY <2>1, <2>3 DEF s
<1>3. CASE AuditListed(r, u, t)
  <2>1. PICK v \in {"AUDITED", "ROLLBACK"} : Submit(r, u, t, AuditHandler(v))
    BY <1>3 DEF AuditListed
  <2>. DEFINE s == AuditHandler(v)
  <2>2. /\ Rules(s) /\ s # <<>> /\ Free(s[1])
        /\ Kinds(s) \subseteq
             {"check", "setStatus", "complete", "invalidate", "insertTask", "insertRework"}
    BY AuditHandlerRules
  <2>. HIDE DEF s
  <2>3. Begins(u, t, s)
    BY <1>0, <2>2, UsualProgram
  <2>. QED BY <2>1, <2>3 DEF s
<1>4. /\ Rules(Guarded("AUDITED", audit("AUDITED")))
      /\ Guarded("AUDITED", audit("AUDITED")) # <<>>
      /\ Free(Guarded("AUDITED", audit("AUDITED"))[1])
      /\ Kinds(Guarded("AUDITED", audit("AUDITED"))) =
           {"check"} \union {"setStatus", "complete", "invalidate"}
  BY <1>0, AuditRules, GuardRules
<1>5. CASE AuditAndSend(r, u, t)
  <2>. DEFINE s(S) == Guarded("AUDITED", audit("AUDITED"))
                        \o Guarded("UNAUDIT", deliverDoc(S))
  <2>1. PICK S \in Groups : Submit(r, u, t, s(S))
    BY <1>5 DEF AuditAndSend
  <2>2. /\ Rules(s(S)) /\ s(S) # <<>> /\ s(S)[1] = Guarded("AUDITED", audit("AUDITED"))[1]
        /\ Kinds(s(S)) = Kinds(Guarded("AUDITED", audit("AUDITED")))
                           \union Kinds(Guarded("UNAUDIT", deliverDoc(S)))
    BY <1>1, <1>4, JoinFree
  <2>. HIDE DEF s
  <2>3. Kinds(s(S)) \subseteq {"check", "setStatus", "complete", "invalidate",
                               "insertTask", "insertDetails"}
    BY <1>1, <1>4, <2>2
  <2>4. Begins(u, t, s(S))
    BY <1>0, <1>4, <2>2, <2>3, UsualProgram
  <2>. QED BY <2>1, <2>4
<1>6. CASE AuditAndSubmit(r, u, t)
  <2>. DEFINE second(S) == Guarded("PREPUBLISH", subPublishDoc(S, TRUE))
              body(S) == audit("AUDITED") \o second(S)
              s(S) == Guarded("AUDITED", body(S))
  <2>1. PICK S \in Groups : Submit(r, u, t, s(S))
    BY <1>6 DEF AuditAndSubmit
  <2>2. /\ Rules(second(S)) /\ second(S) # <<>> /\ Free(second(S)[1])
        /\ Kinds(second(S)) =
             {"check"} \union {"setStatus", "insertTask", "insertDetails"}
    <3>. DEFINE first == subPublishDoc(S, TRUE)
    <3>1. /\ Rules(first) /\ first # <<>> /\ Free(first[1])
          /\ Kinds(first) = {"setStatus", "insertTask", "insertDetails"}
      BY <1>0, SubPublishRules
    <3>. HIDE DEF first
    <3>2. /\ Rules(Guarded("PREPUBLISH", first)) /\ Guarded("PREPUBLISH", first) # <<>>
          /\ Free(Guarded("PREPUBLISH", first)[1])
          /\ Kinds(Guarded("PREPUBLISH", first)) = {"check"} \union Kinds(first)
      BY <1>0, <3>1, GuardRules
    <3>. QED BY <3>1, <3>2 DEF first
  <2>. HIDE DEF second
  <2>3. /\ Rules(body(S)) /\ body(S) # <<>> /\ body(S)[1] = audit("AUDITED")[1]
        /\ Kinds(body(S)) = Kinds(audit("AUDITED")) \union Kinds(second(S))
    BY <2>2, AuditRules, JoinFree
  <2>. HIDE DEF body
  <2>4. /\ Rules(s(S)) /\ s(S) # <<>> /\ Free(s(S)[1])
        /\ Kinds(s(S)) = {"check"} \union Kinds(body(S))
    BY <1>0, <2>3, AuditRules, GuardRules
  <2>. HIDE DEF s
  <2>5. Kinds(s(S)) \subseteq {"check", "setStatus", "complete", "invalidate",
                               "insertTask", "insertDetails"}
    BY <2>2, <2>3, <2>4, AuditRules
  <2>6. Begins(u, t, s(S))
    BY <1>0, <2>4, <2>5, UsualProgram
  <2>. QED BY <2>1, <2>6
<1>7. CASE AuditAndPublish(r, u, t)
  <2>. DEFINE second == Guarded("PUBLISHED", publishDocument)
              body == audit("AUDITED") \o second
              s == Guarded("AUDITED", body)
  <2>1. Submit(r, u, t, s)
    BY <1>7 DEF AuditAndPublish
  <2>2. /\ Rules(second) /\ second # <<>> /\ Free(second[1])
        /\ Kinds(second) = {"check"} \union {"readStatus", "setStatus", "endPublish"}
    BY <1>0, PublishRules, GuardRules
  <2>. HIDE DEF second
  <2>3. /\ Rules(body) /\ body # <<>> /\ body[1] = audit("AUDITED")[1]
        /\ Kinds(body) = Kinds(audit("AUDITED")) \union Kinds(second)
    BY <2>2, AuditRules, JoinFree
  <2>. HIDE DEF body
  <2>4. /\ Rules(s) /\ s # <<>> /\ Free(s[1])
        /\ Kinds(s) = {"check"} \union Kinds(body)
    BY <1>0, <2>3, AuditRules, GuardRules
  <2>. HIDE DEF s
  <2>5. Kinds(s) \subseteq {"check", "setStatus", "complete", "invalidate",
                            "readStatus", "endPublish"}
    BY <2>2, <2>3, <2>4, AuditRules
  <2>6. Begins(u, t, s)
    BY <1>0, <2>4, <2>5, UsualProgram
  <2>. QED BY <2>1, <2>6
<1>8. CASE WithdrawFromPublishing(r, u, t)
  <2>. DEFINE s == <<FindExecuter>> \o toPubWithdraw
  <2>1. Submit(r, u, t, s) /\ Listed(u, t, "PREPUBLISH")
    BY <1>8 DEF WithdrawFromPublishing
  <2>2. /\ Rules(s) /\ s[1] = FindExecuter /\ s # <<>>
        /\ Kinds(s) = {"findExecuter", "complete", "invalidate", "setStatus",
                       "insertTask", "insertExecuter"}
    BY WithdrawPublishRules
  <2>3. s[1].do = "findExecuter"
    BY <2>2, Constructors
  <2>. HIDE DEF s
  <2>4. Begins(u, t, s)
    BY <1>0, <2>1, <2>2, <2>3 DEF Begins, Exclusive
  <2>. QED BY <2>1, <2>4
<1>. QED BY <1>2, <1>3, <1>5, <1>6, <1>7, <1>8

\* The program of a page
LEMMA PagePrograms ==
  ASSUME WorkflowAssumption, NEW r \in Requests, NEW u \in Users, Page(r, u)
  PROVE  \E t, s : Submit(r, u, t, s) /\ Begins(u, t, s)
  BY MenuPages, ListPages DEF Page
==============================================================================
