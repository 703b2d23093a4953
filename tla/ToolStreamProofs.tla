------------------------- MODULE ToolStreamProofs -------------------------
(***************************************************************************)
(* Proofs about the assembly of streamed tool calls, for any calls, any    *)
(* texts, any wire and any order of the frames that the provider may send. *)
(*                                                                         *)
(* The invariant (ToolInv) relates the parts to what the provider has      *)
(* sent: the parts of the choices that are not completed are those of the  *)
(* calls begun in them, at their keys and each with its own name, id and   *)
(* text so far (Assembly); the maps of the Gemini parser point at them     *)
(* (Placed); what was completed is what was written (OutAs); and the       *)
(* reader of the progress events has their visible text (Progress).  A     *)
(* frame is a list of updates of one part: the effect of a list is proved  *)
(* once (Piece), then each wire is shown to address the part of the call   *)
(* that its frame is about.                                                *)
(***************************************************************************)
EXTENDS Components, UnitsProofs, SequenceTheorems

\* ToolStream counts as this module does.
LEMMA ToolCount ==
  ASSUME NEW S
  PROVE  Tool!Cardinality(S) = Cardinality(S)
  BY Zenon DEF Tool!Cardinality, Cardinality

Rank(S, x) == Cardinality({y \in S : y < x})

\* The members of a finite set of numbers have the ranks 0, 1, ..., each one once,
\* and InOrder lists them by rank.
LEMMA Ranked ==
  ASSUME NEW S \in SUBSET Nat, IsFiniteSet(S)
  PROVE  /\ Cardinality(S) \in Nat
         /\ \A x \in S : Rank(S, x) \in 0..(Cardinality(S) - 1)
         /\ \A x, y \in S : Rank(S, x) = Rank(S, y) => x = y
         /\ \A i \in 0..(Cardinality(S) - 1) : \E x \in S : Rank(S, x) = i
<1> DEFINE n == Cardinality(S)
           T == 0..(n - 1)
           f == [x \in S |-> Rank(S, x)]
<1>1. n \in Nat
  BY FS_CardinalityType
<1>2. ASSUME NEW x \in S
      PROVE  /\ IsFiniteSet({y \in S : y < x}) /\ Rank(S, x) \in Nat /\ Rank(S, x) < n
  <2>1. {y \in S : y < x} \in SUBSET (S \ {x})
    OBVIOUS
  <2>2. IsFiniteSet(S \ {x}) /\ Cardinality(S \ {x}) = n - 1
    BY FS_RemoveElement
  <2>3. /\ IsFiniteSet({y \in S : y < x})
        /\ Cardinality({y \in S : y < x}) <= Cardinality(S \ {x})
    BY <2>1, <2>2, FS_Subset
  <2>4. Cardinality({y \in S : y < x}) \in Nat
    BY <2>3, FS_CardinalityType
  <2> QED BY <1>1, <2>2, <2>3, <2>4 DEF Rank
<1>a. \A x \in S : Rank(S, x) \in Nat /\ Rank(S, x) < n
  BY <1>2
<1>3. ASSUME NEW x \in S, NEW y \in S, x < y
      PROVE  Rank(S, x) < Rank(S, y)
  <2> DEFINE X == {z \in S : z < x}
             Y == {z \in S : z < y}
  <2>1. X \in SUBSET (Y \ {x}) /\ x \in Y
    <3>1. \A z \in X : z \in S /\ z < x
      OBVIOUS
    <3>2. \A z \in X : z < y /\ z # x
      BY <3>1, <1>3
    <3> QED BY <1>3, <3>1, <3>2
  <2>2. IsFiniteSet(Y)
    BY <1>2
  <2>3. IsFiniteSet(Y \ {x}) /\ Cardinality(Y \ {x}) = Cardinality(Y) - 1
    <3> HIDE DEF Y
    <3> QED BY <2>1, <2>2, FS_RemoveElement
  <2>4. Cardinality(X) <= Cardinality(Y \ {x})
    <3> HIDE DEF X, Y
    <3> QED BY <2>1, <2>3, FS_Subset
  <2>5. Rank(S, x) = Cardinality(X) /\ Rank(S, y) = Cardinality(Y)
    BY DEF Rank
  <2>6. Rank(S, x) \in Nat /\ Rank(S, y) \in Nat
    BY <1>2
  <2> HIDE DEF X, Y
  <2> QED BY <2>3, <2>4, <2>5, <2>6
<1>4. \A x, y \in S : Rank(S, x) = Rank(S, y) => x = y
  <2> SUFFICES ASSUME NEW x \in S, NEW y \in S, x # y PROVE Rank(S, x) # Rank(S, y)
    OBVIOUS
  <2>1. Rank(S, x) \in Nat /\ Rank(S, y) \in Nat /\ (x < y \/ y < x)
    BY <1>a
  <2>2. CASE x < y
    BY <1>3, <2>1, <2>2
  <2>3. CASE y < x
    BY <1>3, <2>1, <2>3
  <2> QED BY <2>1, <2>2, <2>3
<1>5. \A x \in S : Rank(S, x) \in T
  BY <1>1, <1>a
<1>6. IsFiniteSet(T) /\ Cardinality(T) = n
  <2>1. n - 1 \in Int /\ 0 \in Int
    BY <1>1
  <2>2. IsFiniteSet(T) /\ Cardinality(T) = IF 0 > n - 1 THEN 0 ELSE (n - 1) - 0 + 1
    BY <2>1, FS_Interval
  <2> HIDE DEF T
  <2> QED BY <1>1, <2>2
<1>7. f \in Injection(S, T)
  <2>1. f \in [S -> T]
    BY <1>5
  <2>2. \A x, y \in S : f[x] = f[y] => x = y
    BY <1>4
  <2> QED BY <2>1, <2>2 DEF Injection, IsInjective
<1>8. f \in Surjection(S, T)
  <2> HIDE DEF f, T
  <2> QED BY <1>6, <1>7, FS_Injection DEF n
<1>9. \A i \in T : \E x \in S : f[x] = i
  <2> HIDE DEF f, T
  <2> QED BY <1>8 DEF Surjection
<1>10. \A x \in S : f[x] = Rank(S, x)
  OBVIOUS
<1> HIDE DEF f
<1> QED BY <1>1, <1>4, <1>5, <1>9, <1>10

\* InOrder lists every member once, each at its rank.
LEMMA Ordered ==
  ASSUME NEW S \in SUBSET Nat, IsFiniteSet(S)
  PROVE  /\ Tool!InOrder(S) \in [1..Cardinality(S) -> S]
         /\ \A i \in 1..Cardinality(S) : Rank(S, Tool!InOrder(S)[i]) = i - 1
         /\ \A x \in S : Rank(S, x) + 1 \in 1..Cardinality(S) /\ Tool!InOrder(S)[Rank(S, x) + 1] = x
<1> DEFINE n == Cardinality(S)
           o == Tool!InOrder(S)
<1>1. /\ n \in Nat /\ \A x \in S : Rank(S, x) \in 0..(n - 1)
      /\ \A x, y \in S : Rank(S, x) = Rank(S, y) => x = y
      /\ \A i \in 0..(n - 1) : \E x \in S : Rank(S, x) = i
  BY Ranked
<1> DEFINE R(x) == Tool!Cardinality({y \in S : y < x})
<1>2. \A x : R(x) = Rank(S, x)
  BY ToolCount DEF Rank
<1>a. o = [i \in 1..n |-> CHOOSE x \in S : R(x) = i - 1]
  BY ToolCount DEF Tool!InOrder
<1> HIDE DEF o, n, R
<1>3. ASSUME NEW i \in 1..n PROVE o[i] \in S /\ Rank(S, o[i]) = i - 1
  <2>1. i - 1 \in 0..(n - 1)
    BY <1>1
  <2>2. \E x \in S : R(x) = i - 1
    BY <1>1, <1>2, <2>1
  <2>3. o[i] = CHOOSE x \in S : R(x) = i - 1
    BY <1>a
  <2> QED BY <1>2, <2>2, <2>3
<1>4. o \in [1..n -> S]
  BY <1>a, <1>3
<1>5. ASSUME NEW x \in S PROVE Rank(S, x) + 1 \in 1..n /\ o[Rank(S, x) + 1] = x
  <2>1. PICK i \in 1..n : i = Rank(S, x) + 1
    BY <1>1
  <2>2. o[i] \in S /\ Rank(S, o[i]) = i - 1 /\ i - 1 = Rank(S, x)
    BY <1>1, <1>3, <2>1
  <2>3. o[i] = x
    BY <1>1, <2>2
  <2> QED BY <2>1, <2>3
<1> QED BY <1>3, <1>4, <1>5 DEF o, n

\* An interval from 0 lists itself.
LEMMA OrderedInterval ==
  ASSUME NEW n \in Nat
  PROVE  Cardinality(0..(n - 1)) = n /\ Tool!InOrder(0..(n - 1)) = [i \in 1..n |-> i - 1]
<1> DEFINE S == 0..(n - 1)
<1>1. IsFiniteSet(S) /\ Cardinality(S) = n
  <2>1. n - 1 \in Int /\ 0 \in Int
    OBVIOUS
  <2>2. IsFiniteSet(S) /\ Cardinality(S) = IF 0 > n - 1 THEN 0 ELSE (n - 1) - 0 + 1
    BY <2>1, FS_Interval
  <2> HIDE DEF S
  <2> QED BY <2>2
<1>2. ASSUME NEW x \in S PROVE Rank(S, x) = x
  <2>1. {y \in S : y < x} = 0..(x - 1)
    OBVIOUS
  <2>2. x - 1 \in Int /\ 0 \in Int
    OBVIOUS
  <2>3. Cardinality(0..(x - 1)) = IF 0 > x - 1 THEN 0 ELSE (x - 1) - 0 + 1
    BY <2>2, FS_Interval
  <2>4. Cardinality(0..(x - 1)) = x
    BY <2>3
  <2> HIDE DEF S
  <2> QED BY <2>1, <2>4 DEF Rank
<1>3. S \in SUBSET Nat
  OBVIOUS
<1>4. /\ Tool!InOrder(S) \in [1..n -> S]
      /\ \A i \in 1..n : Rank(S, Tool!InOrder(S)[i]) = i - 1
  <2> HIDE DEF S
  <2> QED BY <1>1, <1>3, Ordered
<1>5. \A i \in 1..n : Tool!InOrder(S)[i] = i - 1
  <2> HIDE DEF S
  <2> QED BY <1>2, <1>4
<1>6. Tool!InOrder(S) = [i \in 1..n |-> i - 1]
  <2> HIDE DEF S
  <2> QED BY <1>4, <1>5
<1> QED BY <1>1, <1>6

ToolArgs == Seq(Int \X {"open", "close"})

ToolPart == [name : Nat, id : Nat, args : ToolArgs, initial : BOOLEAN, ended : BOOLEAN]

ToolUpdate ==
    [op : {"name", "nameFragment", "id"}, v : Nat]
        \cup [op : {"start", "whole", "fragment"}, v : ToolArgs] \cup [op : {"end"}, v : {0}]

Part(name, id, args, initial, ended) ==
    [name |-> name, id |-> id, args |-> args, initial |-> initial, ended |-> ended]

IsToolState(s) ==
    /\ s = [parts |-> s.parts, byId |-> s.byId, last |-> s.last, next |-> s.next,
            emitted |-> s.emitted, held |-> s.held, started |-> s.started, shown |-> s.shown,
            out |-> s.out, ok |-> s.ok]
    /\ s.ok \in BOOLEAN
    /\ s.parts = [k \in DOMAIN s.parts |-> s.parts[k]]
    /\ \A k \in DOMAIN s.parts : s.parts[k] \in ToolPart
    /\ s.shown = [k \in DOMAIN s.shown |-> s.shown[k]]

\* A reader of the steps shown has the visible text of every open call, and the
\* whole text, or none, of every ended one.
Progress(s) ==
    /\ s.started \subseteq DOMAIN s.parts /\ s.started \subseteq DOMAIN s.shown
    /\ \A k \in s.started : s.shown[k] = [step |-> "started", text |-> Tool!Visible(s.parts[k])]
    /\ \A k \in DOMAIN s.shown :
          /\ s.shown[k].step = "started" => k \in s.started
          /\ s.shown[k].step = "ended" =>
                /\ k[1] \in DOMAIN s.out
                /\ s.shown[k].text \in {<<>>, s.out[k[1]][k[2] + 1].args}

Fine(s) == IsToolState(s) /\ Progress(s)

SameBut(s, r) ==
    /\ r.byId = s.byId /\ r.last = s.last /\ r.next = s.next /\ r.emitted = s.emitted
    /\ r.out = s.out

PartAt(s, k) == IF k \in DOMAIN s.parts THEN s.parts[k] ELSE Tool!NewPart

\* From s to r only the part at k changes, to p.
PartStep(s, r, k, p) ==
    /\ Fine(r) /\ SameBut(s, r)
    /\ r.ok =>
          /\ k[1] \notin s.emitted
          /\ DOMAIN r.parts = DOMAIN s.parts \cup {k} /\ r.parts[k] = p
          /\ \A x \in DOMAIN s.parts : x # k => r.parts[x] = s.parts[x]

\* A new part is empty and well typed.
LEMMA NewPartTyped == Tool!NewPart \in ToolPart /\ Tool!NewPart = Part(0, 0, <<>>, FALSE, FALSE)
<1>1. <<>> \in ToolArgs
  BY EmptySeq DEF ToolArgs
<1> HIDE DEF ToolArgs
<1> QED BY <1>1 DEF ToolPart, Tool!NewPart, Tool!NoId, Part

\* A well-typed part is its five fields.
LEMMA PartTyped ==
  ASSUME NEW p \in ToolPart
  PROVE  /\ p = Part(p.name, p.id, p.args, p.initial, p.ended) /\ p.name \in Nat /\ p.id \in Nat
         /\ p.args \in ToolArgs /\ p.initial \in BOOLEAN /\ p.ended \in BOOLEAN
         /\ Tool!Visible(p) \in ToolArgs
<1>1. <<>> \in ToolArgs
  BY EmptySeq DEF ToolArgs
<1> HIDE DEF ToolArgs
<1> QED BY <1>1 DEF ToolPart, Part, Tool!Visible

\* Five fields of the right types make a part.
LEMMA PartMade ==
  ASSUME NEW a \in Nat, NEW b \in Nat, NEW c \in ToolArgs, NEW d \in BOOLEAN, NEW e \in BOOLEAN
  PROVE  Part(a, b, c, d, e) \in ToolPart
<1> HIDE DEF ToolArgs
<1> QED BY DEF Part, ToolPart

\* What each update assigns.
LEMMA UpdateIs ==
  ASSUME NEW u \in ToolUpdate
  PROVE  /\ u = Tool!U(u.op, u.v)
         /\ u.op \in {"name", "nameFragment", "id", "start", "whole", "fragment", "end"}
         /\ u.op \in {"name", "nameFragment", "id"} => u.v \in Nat
         /\ u.op \in {"start", "whole", "fragment"} => u.v \in ToolArgs
<1> HIDE DEF ToolArgs
<1> QED BY DEF ToolUpdate, Tool!U

Extends(a, b) == Len(a) <= Len(b) /\ \A i \in 1..Len(a) : a[i] = b[i]

\* What a text grew by, appended to what there was, gives the text.
LEMMA ExtendsRest ==
  ASSUME NEW a \in ToolArgs, NEW b \in ToolArgs, Extends(a, b)
  PROVE  /\ a \o SubSeq(b, Len(a) + 1, Len(b)) = b
         /\ Len(a) = Len(b) => a = b
<1> DEFINE S == Int \X {"open", "close"}
<1>0. a \in Seq(S) /\ b \in Seq(S) /\ Len(a) \in Nat /\ Len(b) \in Nat
  BY DEF ToolArgs
<1> HIDE DEF S
<1>1. Len(a) <= Len(b) /\ \A i \in 1..Len(a) : a[i] = b[i]
  BY DEF Extends
<1> DEFINE c == SubSeq(b, Len(a) + 1, Len(b))
           d == a \o c
<1>2. /\ c \in Seq(S) /\ Len(c) = Len(b) - Len(a)
      /\ \A i \in 1..Len(b) - Len(a) : c[i] = b[Len(a) + i]
  <2>1. Len(a) + 1 \in 1..Len(b) + 1 /\ Len(b) \in (Len(a) + 1) - 1..Len(b)
    BY <1>0, <1>1
  <2>2. /\ c \in Seq(S)
        /\ Len(c) = IF Len(a) + 1 <= Len(b) THEN Len(b) - (Len(a) + 1) + 1 ELSE 0
        /\ \A i \in 1..(Len(b) - (Len(a) + 1) + 1) : c[i] = b[(Len(a) + 1) + i - 1]
    BY <1>0, <1>1, <2>1, SubSeqProperties
  <2>3. ASSUME NEW i \in 1..Len(b) - Len(a) PROVE c[i] = b[Len(a) + i]
    <3>1. i \in 1..(Len(b) - (Len(a) + 1) + 1) /\ (Len(a) + 1) + i - 1 = Len(a) + i
      BY <1>0
    <3> HIDE DEF c
    <3> QED BY <2>2, <3>1
  <2> HIDE DEF c
  <2> QED BY <1>0, <1>1, <2>2, <2>3
<1> HIDE DEF c
<1>3. /\ d \in Seq(S) /\ Len(d) = Len(a) + Len(c)
      /\ \A i \in 1..Len(a) + Len(c) : d[i] = IF i <= Len(a) THEN a[i] ELSE c[i - Len(a)]
  BY <1>0, <1>2, ConcatProperties
<1> HIDE DEF d
<1>4. ASSUME NEW i \in 1..Len(b) PROVE d[i] = b[i]
  <2>1. i \in 1..Len(a) + Len(c)
    BY <1>0, <1>2
  <2>2. CASE i <= Len(a)
    BY <1>0, <1>1, <1>3, <2>1, <2>2
  <2>3. CASE ~(i <= Len(a))
    <3>1. i - Len(a) \in 1..Len(b) - Len(a) /\ Len(a) + (i - Len(a)) = i
      BY <1>0, <2>3
    <3> QED BY <1>2, <1>3, <2>1, <2>3, <3>1
  <2> QED BY <2>2, <2>3
<1>5. Len(d) = Len(b)
  BY <1>0, <1>2, <1>3
<1>6. d = b
  BY <1>0, <1>3, <1>4, <1>5, SeqEqual
<1>7. Len(a) = Len(b) => a = b
  BY <1>0, <1>1, SeqEqual
<1> QED BY <1>6, <1>7 DEF d, c

\* What each update assigns, of a part in place.
LEMMA AssignedBy ==
  ASSUME NEW p \in ToolPart, NEW u \in ToolUpdate
  PROVE  /\ u.op \in {"name", "nameFragment"} =>
               Tool!Assigned(p, u) = Part(u.v, p.id, p.args, p.initial, p.ended)
         /\ u.op = "id" => Tool!Assigned(p, u) = Part(p.name, u.v, p.args, p.initial, p.ended)
         /\ u.op = "start" => Tool!Assigned(p, u) = Part(p.name, p.id, u.v, TRUE, p.ended)
         /\ u.op = "whole" =>
               Tool!Assigned(p, u) = Part(p.name, p.id, u.v, FALSE, p.ended /\ p.args = u.v)
         /\ u.op = "fragment" =>
               Tool!Assigned(p, u) = Part(p.name, p.id, Tool!Visible(p) \o u.v, FALSE, p.ended)
         /\ u.op = "end" => Tool!Assigned(p, u) = Part(p.name, p.id, p.args, p.initial, TRUE)
<1>0. p = [name |-> p.name, id |-> p.id, args |-> p.args, initial |-> p.initial, ended |-> p.ended]
  BY PartTyped DEF Part
<1>1. CASE u.op \in {"name", "nameFragment"}
  BY <1>0, <1>1 DEF Tool!Assigned, Part
<1>2. CASE u.op = "id"
  BY <1>0, <1>2 DEF Tool!Assigned, Part
<1>3. CASE u.op = "start"
  BY <1>0, <1>3 DEF Tool!Assigned, Part
<1>4. CASE u.op = "whole"
  BY <1>0, <1>4 DEF Tool!Assigned, Part
<1>5. CASE u.op = "fragment"
  BY <1>0, <1>5 DEF Tool!Assigned, Part, Tool!Visible
<1>6. CASE u.op = "end"
  BY <1>0, <1>6 DEF Tool!Assigned, Part
<1> QED BY UpdateIs, <1>1, <1>2, <1>3, <1>4, <1>5, <1>6

\* An update leaves a part well typed.
LEMMA AssignedTyped ==
  ASSUME NEW p \in ToolPart, NEW u \in ToolUpdate
  PROVE  Tool!Assigned(p, u) \in ToolPart
<1>1. /\ p.name \in Nat /\ p.id \in Nat /\ p.args \in ToolArgs /\ p.initial \in BOOLEAN
      /\ p.ended \in BOOLEAN /\ Tool!Visible(p) \in ToolArgs
  BY PartTyped
<1>2. /\ u.op \in {"name", "nameFragment", "id", "start", "whole", "fragment", "end"}
      /\ u.op \in {"name", "nameFragment", "id"} => u.v \in Nat
      /\ u.op \in {"start", "whole", "fragment"} => u.v \in ToolArgs
  BY UpdateIs
<1>3. CASE u.op \in {"name", "nameFragment"}
  BY <1>1, <1>2, <1>3, AssignedBy DEF Part, ToolPart
<1>4. CASE u.op = "id"
  BY <1>1, <1>2, <1>4, AssignedBy DEF Part, ToolPart
<1>5. CASE u.op = "start"
  <2>1. Tool!Assigned(p, u) = Part(p.name, p.id, u.v, TRUE, p.ended)
    BY <1>5, AssignedBy, Zenon
  <2>2. Part(p.name, p.id, u.v, TRUE, p.ended) \in ToolPart
    BY <1>1, <1>2, <1>5, PartMade, Zenon
  <2> QED BY <2>1, <2>2, Zenon
<1>6. CASE u.op = "whole"
  <2>1. (p.ended /\ p.args = u.v) \in BOOLEAN
    OBVIOUS
  <2>2. Tool!Assigned(p, u) = Part(p.name, p.id, u.v, FALSE, p.ended /\ p.args = u.v)
    BY <1>6, AssignedBy, Zenon
  <2>3. Part(p.name, p.id, u.v, FALSE, p.ended /\ p.args = u.v) \in ToolPart
    BY <1>1, <1>2, <1>6, <2>1, PartMade, Zenon
  <2> QED BY <2>2, <2>3, Zenon
<1>7. CASE u.op = "fragment"
  <2>1. Tool!Visible(p) \o u.v \in ToolArgs
    BY <1>1, <1>2, <1>7, ConcatProperties DEF ToolArgs
  <2>2. Tool!Assigned(p, u) = Part(p.name, p.id, Tool!Visible(p) \o u.v, FALSE, p.ended)
    BY <1>7, AssignedBy, Zenon
  <2>3. Part(p.name, p.id, Tool!Visible(p) \o u.v, FALSE, p.ended) \in ToolPart
    BY <1>1, <2>1, PartMade, Zenon
  <2> QED BY <2>2, <2>3, Zenon
<1>8. CASE u.op = "end"
  <2>2. Tool!Assigned(p, u) = Part(p.name, p.id, p.args, p.initial, TRUE)
    BY <1>8, AssignedBy, Zenon
  <2>3. Part(p.name, p.id, p.args, p.initial, TRUE) \in ToolPart
    BY <1>1, PartMade, Zenon
  <2> QED BY <2>2, <2>3, Zenon
<1> QED BY <1>2, <1>3, <1>4, <1>5, <1>6, <1>7, <1>8

\* The visible text of a part given by its fields.
LEMMA VisibleOf ==
  ASSUME NEW a, NEW b, NEW c, NEW d, NEW e
  PROVE  Tool!Visible(Part(a, b, c, d, e)) = IF d THEN <<>> ELSE c
  BY DEF Tool!Visible, Part

\* Every text extends itself.
LEMMA ExtendsSelf ==
  ASSUME NEW a \in ToolArgs
  PROVE  Extends(a, a)
  BY DEF Extends, ToolArgs

\* An update that keeps what was visible extends it.
LEMMA KeepsExtends ==
  ASSUME NEW p \in ToolPart, NEW u \in ToolUpdate, Tool!Keeps(u, Tool!Visible(p))
  PROVE  Extends(Tool!Visible(p), Tool!Visible(Tool!Assigned(p, u)))
<1>1. Tool!Visible(p) \in ToolArgs /\ Tool!Visible(p) = IF p.initial THEN <<>> ELSE p.args
  BY PartTyped DEF Tool!Visible
<1>2. /\ u.op \in {"name", "nameFragment", "id", "start", "whole", "fragment", "end"}
      /\ u.op \in {"start", "whole", "fragment"} => u.v \in ToolArgs
  BY UpdateIs
<1>5. <<>> \in ToolArgs
  BY EmptySeq DEF ToolArgs
<1>6. CASE u.op \in {"name", "nameFragment", "id", "end"}
  <2>1. Tool!Visible(Tool!Assigned(p, u)) = Tool!Visible(p)
    BY <1>1, <1>6, AssignedBy, VisibleOf DEF Part
  <2> QED BY <1>1, <2>1, ExtendsSelf
<1>7. CASE u.op = "start"
  <2>2. Tool!Visible(Tool!Assigned(p, u)) = <<>>
    BY <1>7, AssignedBy, VisibleOf DEF Part
  <2>3. Tool!Visible(p) = <<>>
    BY <1>7 DEF Tool!Keeps
  <2> QED BY <1>5, <2>2, <2>3, ExtendsSelf
<1>8. CASE u.op = "whole"
  <2>2. Tool!Visible(Tool!Assigned(p, u)) = u.v
    BY <1>8, AssignedBy, VisibleOf DEF Part
  <2>3. Tool!IsPrefix(Tool!Visible(p), u.v)
    BY <1>8 DEF Tool!Keeps
  <2> DEFINE x == Tool!Visible(p)
             v == u.v
             S == Int \X {"open", "close"}
  <2>4. x \in Seq(S) /\ v \in Seq(S) /\ Len(x) \in Nat /\ Len(v) \in Nat
    BY <1>1, <1>2, <1>8 DEF ToolArgs
  <2>5. Len(x) <= Len(v) /\ SubSeq(x, 1, Len(x)) = SubSeq(v, 1, Len(x))
    BY <2>3 DEF Tool!IsPrefix
  <2> HIDE DEF S, x, v
  <2>6. ASSUME NEW i \in 1..Len(x) PROVE x[i] = v[i]
    <3>1. SubSeq(x, 1, Len(x))[i] = x[i]
      BY <2>4
    <3>2. SubSeq(v, 1, Len(x))[i] = v[i]
      BY <2>4, <2>5
    <3> QED BY <2>5, <3>1, <3>2
  <2>7. Extends(x, v)
    BY <2>5, <2>6 DEF Extends
  <2> QED BY <2>2, <2>7 DEF x, v
<1>9. CASE u.op = "fragment"
  <2>2. Tool!Visible(Tool!Assigned(p, u)) = Tool!Visible(p) \o u.v
    BY <1>9, AssignedBy, VisibleOf DEF Part
  <2> DEFINE x == Tool!Visible(p)
             v == u.v
             S == Int \X {"open", "close"}
  <2>4. x \in Seq(S) /\ v \in Seq(S) /\ Len(x) \in Nat /\ Len(v) \in Nat
    BY <1>1, <1>2, <1>9 DEF ToolArgs
  <2> HIDE DEF S, x, v
  <2>5. /\ Len(x \o v) = Len(x) + Len(v)
        /\ \A i \in 1..Len(x) + Len(v) : (x \o v)[i] = IF i <= Len(x) THEN x[i] ELSE v[i - Len(x)]
    BY <2>4, ConcatProperties
  <2>6. Extends(x, x \o v)
    BY <2>4, <2>5 DEF Extends
  <2> QED BY <2>2, <2>6 DEF x, v
<1> QED BY <1>2, <1>6, <1>7, <1>8, <1>9

StateOf(ps, bi, la, ne, em, he, st, sh, ou, okay) ==
    [parts |-> ps, byId |-> bi, last |-> la, next |-> ne, emitted |-> em, held |-> he,
     started |-> st, shown |-> sh, out |-> ou, ok |-> okay]

\* An error changes nothing else.
LEMMA ErrFine ==
  ASSUME NEW s, Fine(s)
  PROVE  Fine(Tool!Err(s)) /\ SameBut(s, Tool!Err(s)) /\ ~ Tool!Err(s).ok
<1> DEFINE r == Tool!Err(s)
<1>0. s = [parts |-> s.parts, byId |-> s.byId, last |-> s.last, next |-> s.next,
           emitted |-> s.emitted, held |-> s.held, started |-> s.started, shown |-> s.shown,
           out |-> s.out, ok |-> s.ok]
  BY DEF Fine, IsToolState
<1>1. PICK no : no = FALSE
  OBVIOUS
<1>a. r = [s EXCEPT !.ok = no]
  BY <1>1 DEF Tool!Err
<1>b. r = StateOf(s.parts, s.byId, s.last, s.next, s.emitted, s.held, s.started, s.shown, s.out, no)
  <2> HIDE DEF r
  <2> QED BY <1>0, <1>a DEF StateOf
<1>2. /\ r.parts = s.parts /\ r.byId = s.byId /\ r.last = s.last /\ r.next = s.next
      /\ r.emitted = s.emitted /\ r.held = s.held /\ r.started = s.started /\ r.shown = s.shown
      /\ r.out = s.out /\ r.ok = FALSE
      /\ r = StateOf(r.parts, r.byId, r.last, r.next, r.emitted, r.held, r.started, r.shown, r.out, r.ok)
  BY <1>1, <1>b DEF StateOf
<1> HIDE DEF r
<1>3. IsToolState(r)
  BY <1>2 DEF Fine, IsToolState, StateOf
<1>4. Progress(r)
  BY <1>2 DEF Fine, Progress
<1> QED BY <1>2, <1>3, <1>4 DEF Fine, SameBut, r

\* The part of a key, made when there is none.
Opened(s, k) ==
    IF k \in DOMAIN s.parts THEN s
    ELSE [Tool!Reserve(s, 1) EXCEPT !.parts = Tool!Put(@, k, Tool!NewPart)]

\* Opening a part changes no other part and nothing that is shown.
LEMMA OpenedFine ==
  ASSUME NEW s, NEW k, Fine(s), s.ok
  PROVE  LET r == Opened(s, k) IN
         /\ Fine(r) /\ SameBut(s, r) /\ r.ok \in BOOLEAN
         /\ DOMAIN r.parts = DOMAIN s.parts \cup {k} /\ r.parts[k] = PartAt(s, k)
         /\ \A x \in DOMAIN s.parts : x # k => r.parts[x] = s.parts[x]
<1> DEFINE r == Opened(s, k)
<1>1. CASE k \in DOMAIN s.parts
  BY <1>1 DEF Opened, Fine, SameBut, PartAt, IsToolState
<1>2. CASE k \notin DOMAIN s.parts
  <2> DEFINE q == Tool!Put(s.parts, k, Tool!NewPart)
             h == IF s.held + 1 > MaxToolEntries THEN s.held ELSE s.held + 1
             b == IF s.held + 1 > MaxToolEntries THEN FALSE ELSE s.ok
  <2>1. Tool!Reserve(s, 1)
          = StateOf(s.parts, s.byId, s.last, s.next, s.emitted, h, s.started, s.shown, s.out, b)
    <3>1. CASE s.held + 1 > MaxToolEntries
      BY <3>1 DEF Fine, IsToolState, Tool!Reserve, Tool!Err, StateOf
    <3>2. CASE ~(s.held + 1 > MaxToolEntries)
      BY <3>2 DEF Fine, IsToolState, Tool!Reserve, StateOf
    <3> QED BY <3>1, <3>2
  <2>2. b \in BOOLEAN
    BY DEF Fine, IsToolState
  <2> HIDE DEF h, b
  <2>3. r = [Tool!Reserve(s, 1) EXCEPT !.parts = Tool!Put(@, k, Tool!NewPart)]
    BY <1>2 DEF Opened
  <2>4. r = StateOf(q, s.byId, s.last, s.next, s.emitted, h, s.started, s.shown, s.out, b)
    BY <2>1, <2>3 DEF StateOf
  <2> HIDE DEF r, q
  <2>5. /\ r.parts = q /\ r.byId = s.byId /\ r.last = s.last /\ r.next = s.next
        /\ r.emitted = s.emitted /\ r.held = h /\ r.started = s.started /\ r.shown = s.shown
        /\ r.out = s.out /\ r.ok = b
        /\ r = StateOf(r.parts, r.byId, r.last, r.next, r.emitted, r.held, r.started, r.shown, r.out, r.ok)
    BY <2>4 DEF StateOf
  <2>6. /\ DOMAIN q = DOMAIN s.parts \cup {k} /\ q[k] = Tool!NewPart
        /\ q = [x \in DOMAIN q |-> q[x]]
        /\ \A x \in DOMAIN s.parts : q[x] = s.parts[x]
    BY <1>2 DEF q, Tool!Put
  <2>7. \A x \in DOMAIN q : q[x] \in ToolPart
    BY <2>6, NewPartTyped DEF Fine, IsToolState
  <2>8. IsToolState(r)
    BY <2>2, <2>5, <2>6, <2>7 DEF Fine, IsToolState, StateOf
  <2>9. Progress(r)
    <3>1. r.started \subseteq DOMAIN r.parts /\ \A x \in r.started : r.parts[x] = s.parts[x]
      BY <2>5, <2>6 DEF Fine, Progress
    <3> HIDE DEF Opened
    <3> QED BY <2>5, <3>1 DEF Fine, Progress
  <2> QED BY <1>2, <2>2, <2>5, <2>6, <2>8, <2>9 DEF Fine, SameBut, PartAt, r
<1> QED BY <1>1, <1>2

\* Progress, but that the text shown of k is x.
ReadAs(s, k, x) ==
    /\ s.started \subseteq DOMAIN s.parts /\ s.started \subseteq DOMAIN s.shown
    /\ \A y \in s.started :
          s.shown[y] = [step |-> "started", text |-> IF y = k THEN x ELSE Tool!Visible(s.parts[y])]
    /\ \A y \in DOMAIN s.shown :
          /\ s.shown[y].step = "started" => y \in s.started
          /\ s.shown[y].step = "ended" =>
                /\ y[1] \in DOMAIN s.out
                /\ s.shown[y].text \in {<<>>, s.out[y[1]][y[2] + 1].args}

\* ProgressReporter::updated keeps a reader right, whose text of k was x, provided
\* an update said to keep x extends it.
LEMMA UpdatedFine ==
  ASSUME NEW s, NEW k, NEW x \in ToolArgs, NEW settled \in BOOLEAN, NEW kept \in BOOLEAN,
         NEW r, r = Tool!Updated(s, k, settled, Len(x), kept),
         IsToolState(s), k \in DOMAIN s.parts,
         ReadAs(s, k, x),
         kept => Extends(x, Tool!Visible(s.parts[k]))
  PROVE  Fine(r) /\ SameBut(s, r) /\ r.ok = s.ok /\ r.parts = s.parts
<1> USE DEF ReadAs
<1> DEFINE t == Tool!Visible(s.parts[k])
           shownNow == [step |-> "started", text |-> t]
<1>1. s.parts[k] \in ToolPart /\ t \in ToolArgs
  BY PartTyped DEF IsToolState
<1>2. ASSUME NEW st, NEW sh,
             r = StateOf(s.parts, s.byId, s.last, s.next, s.emitted, s.held, st, sh, s.out, s.ok),
             st = s.started \/ st = s.started \cup {k},
             sh = [y \in DOMAIN sh |-> sh[y]],
             DOMAIN sh = DOMAIN s.shown \/ DOMAIN sh = DOMAIN s.shown \cup {k},
             k \in st => k \in DOMAIN sh /\ sh[k] = shownNow,
             k \notin st => sh = s.shown,
             \A y \in DOMAIN s.shown : y # k => sh[y] = s.shown[y]
      PROVE  Fine(r) /\ SameBut(s, r) /\ r.ok = s.ok /\ r.parts = s.parts
  <2> HIDE DEF shownNow
  <2>1. /\ r.parts = s.parts /\ r.byId = s.byId /\ r.last = s.last /\ r.next = s.next
        /\ r.emitted = s.emitted /\ r.held = s.held /\ r.started = st /\ r.shown = sh
        /\ r.out = s.out /\ r.ok = s.ok
        /\ r = StateOf(r.parts, r.byId, r.last, r.next, r.emitted, r.held, r.started, r.shown, r.out, r.ok)
    BY <1>2 DEF StateOf
  <2>2. IsToolState(r)
    BY <1>2, <2>1 DEF IsToolState, StateOf
  <2>3. st \subseteq DOMAIN s.parts /\ st \subseteq DOMAIN sh
    BY <1>2
  <2>4. \A y \in st : sh[y] = [step |-> "started", text |-> Tool!Visible(s.parts[y])]
    <3> SUFFICES ASSUME NEW y \in st
                 PROVE  sh[y] = [step |-> "started", text |-> Tool!Visible(s.parts[y])]
      OBVIOUS
    <3>1. CASE y = k
      BY <1>2, <3>1 DEF shownNow
    <3>2. CASE y # k
      BY <1>2, <3>2
    <3> QED BY <3>1, <3>2
  <2>5. \A y \in DOMAIN sh :
          /\ sh[y].step = "started" => y \in st
          /\ sh[y].step = "ended" =>
                /\ y[1] \in DOMAIN s.out
                /\ sh[y].text \in {<<>>, s.out[y[1]][y[2] + 1].args}
    <3> SUFFICES ASSUME NEW y \in DOMAIN sh
                 PROVE  /\ sh[y].step = "started" => y \in st
                        /\ sh[y].step = "ended" =>
                              /\ y[1] \in DOMAIN s.out
                              /\ sh[y].text \in {<<>>, s.out[y[1]][y[2] + 1].args}
      OBVIOUS
    <3>1. CASE y = k /\ k \in st
      BY <1>2, <3>1 DEF shownNow
    <3>2. CASE y = k /\ k \notin st
      BY <1>2, <3>2
    <3>3. CASE y # k
      BY <1>2, <3>3
    <3> QED BY <3>1, <3>2, <3>3
  <2>6. Progress(r)
    BY <2>1, <2>3, <2>4, <2>5 DEF Progress
  <2> QED BY <2>1, <2>2, <2>6 DEF Fine, SameBut
<1>3. s = StateOf(s.parts, s.byId, s.last, s.next, s.emitted, s.held, s.started, s.shown, s.out, s.ok)
  BY DEF IsToolState, StateOf
<1>4. s.shown = [y \in DOMAIN s.shown |-> s.shown[y]]
  BY DEF IsToolState
<1>5. CASE k \notin s.started /\ settled /\ s.parts[k].name # 0
  <2> DEFINE sh == Tool!Put(s.shown, k, shownNow)
  <2>1. r = Tool!Start(s, k)
    BY <1>5 DEF Tool!Updated
  <2>2. r = StateOf(s.parts, s.byId, s.last, s.next, s.emitted, s.held, s.started \cup {k}, sh, s.out, s.ok)
    BY <1>3, <2>1 DEF Tool!Start, StateOf
  <2>3. /\ sh = [y \in DOMAIN sh |-> sh[y]] /\ DOMAIN sh = DOMAIN s.shown \cup {k} /\ sh[k] = shownNow
        /\ \A y \in DOMAIN s.shown : y # k => sh[y] = s.shown[y]
    BY DEF Tool!Put
  <2> HIDE DEF sh, shownNow, t
  <2>4. PICK st : st = s.started \cup {k}
    OBVIOUS
  <2>5. PICK map : map = sh
    OBVIOUS
  <2>6. k \in st /\ k \in DOMAIN map
    BY <2>3, <2>4, <2>5
  <2>7. r = StateOf(s.parts, s.byId, s.last, s.next, s.emitted, s.held, st, map, s.out, s.ok)
    BY <2>2, <2>4, <2>5, Zenon
  <2>8. Fine(r) /\ SameBut(s, r) /\ r.ok = s.ok /\ r.parts = s.parts
    <3>1. /\ st = s.started \/ st = s.started \cup {k}
          /\ map = [y \in DOMAIN map |-> map[y]]
          /\ DOMAIN map = DOMAIN s.shown \/ DOMAIN map = DOMAIN s.shown \cup {k}
          /\ k \in st => k \in DOMAIN map /\ map[k] = shownNow
          /\ k \notin st => map = s.shown
          /\ \A y \in DOMAIN s.shown : y # k => map[y] = s.shown[y]
      BY <2>3, <2>4, <2>5, <2>6
    <3> QED BY <1>2, <2>7, <3>1, Zenon
  <2> QED BY <2>8, Zenon
<1>6. CASE k \notin s.started /\ ~(settled /\ s.parts[k].name # 0)
  <2>1. r = s
    BY <1>6 DEF Tool!Updated
  <2> HIDE DEF shownNow, t
  <2> QED BY <1>2, <1>3, <1>4, <1>6, <2>1, Zenon
<1>7. CASE k \in s.started /\ kept /\ Len(t) = Len(x)
  <2>1. r = s
    BY <1>7 DEF Tool!Updated
  <2>2. x = t
    BY <1>1, <1>7, ExtendsRest
  <2>3. s.shown[k] = shownNow
    BY <1>7, <2>2
  <2>4. k \in DOMAIN s.shown
    BY <1>7
  <2> HIDE DEF shownNow, t
  <2> QED BY <1>2, <1>3, <1>4, <1>7, <2>1, <2>3, <2>4, Zenon
<1>8. CASE k \in s.started /\ ~(kept /\ Len(t) = Len(x))
  <2> DEFINE w == IF kept THEN s.shown[k].text \o SubSeq(t, Len(x) + 1, Len(t)) ELSE t
             sh == [s.shown EXCEPT ![k].text = w]
  <2>1. r = Tool!ShowArguments(s, k, t, kept, Len(x))
    BY <1>8 DEF Tool!Updated
  <2>2. r = [s EXCEPT !.shown[k].text = w]
    BY <2>1 DEF Tool!ShowArguments
  <2>5. s.shown[k] = [step |-> "started", text |-> x] /\ k \in DOMAIN s.shown
    BY <1>8
  <2>3. w = t
    <3>1. CASE kept
      <4>1. x \o SubSeq(t, Len(x) + 1, Len(t)) = t
        BY <1>1, <3>1, ExtendsRest
      <4>2. s.shown[k].text = x
        BY <2>5
      <4> QED BY <3>1, <4>1, <4>2
    <3>2. CASE ~kept
      BY <3>2
    <3> QED BY <3>1, <3>2
  <2> HIDE DEF w
  <2>4. r = StateOf(s.parts, s.byId, s.last, s.next, s.emitted, s.held, s.started, sh, s.out, s.ok)
    BY <1>3, <2>2 DEF StateOf
  <2>6. /\ sh = [y \in DOMAIN sh |-> sh[y]] /\ DOMAIN sh = DOMAIN s.shown /\ sh[k] = shownNow
        /\ \A y \in DOMAIN s.shown : y # k => sh[y] = s.shown[y]
    BY <2>3, <2>5, <1>4
  <2> HIDE DEF sh, shownNow, t
  <2> QED BY <1>2, <1>8, <2>4, <2>5, <2>6, Zenon
<1> HIDE DEF t, ReadAs
<1> QED BY <1>5, <1>6, <1>7, <1>8

\* The part at a key, or the new one in its place, is well typed.
LEMMA PartAtTyped ==
  ASSUME NEW s, NEW k, Fine(s)
  PROVE  PartAt(s, k) \in ToolPart
  BY NewPartTyped DEF PartAt, Fine, IsToolState

\* One update changes the part of its key alone, or is an error.
LEMMA ApplyStep ==
  ASSUME NEW s, NEW k, NEW u \in ToolUpdate, Fine(s), s.ok
  PROVE  PartStep(s, Tool!Apply(s, k, u), k, Tool!Assigned(PartAt(s, k), u))
<1> DEFINE o == Opened(s, k)
           p == Tool!Assigned(PartAt(s, k), u)
           x == Tool!Visible(PartAt(s, k))
           m == [o EXCEPT !.parts[k] = p]
           r == Tool!Apply(s, k, u)
           kept == Tool!Keeps(u, x)
           settled == u.op # "nameFragment"
<1>1. /\ Fine(o) /\ SameBut(s, o) /\ o.ok \in BOOLEAN
      /\ DOMAIN o.parts = DOMAIN s.parts \cup {k} /\ o.parts[k] = PartAt(s, k)
      /\ \A y \in DOMAIN s.parts : y # k => o.parts[y] = s.parts[y]
  BY OpenedFine
<1>2. PartAt(s, k) \in ToolPart /\ p \in ToolPart /\ x \in ToolArgs
  BY PartAtTyped, AssignedTyped, PartTyped
<1>3. \/ r = Tool!Err(s)
      \/ r = Tool!Err(o)
      \/ k[1] \notin s.emitted /\ r = Tool!Updated(m, k, settled, Len(x), kept)
  <2>1. o = IF k \in DOMAIN s.parts THEN s
            ELSE [Tool!Reserve(s, 1) EXCEPT !.parts = Tool!Put(@, k, Tool!NewPart)]
    BY DEF Opened
  <2>2. r = IF k[1] \in s.emitted THEN Tool!Err(s)
            ELSE IF ~ o.ok THEN Tool!Err(s)
            ELSE IF u.op = "fragment" /\ o.parts[k].ended THEN Tool!Err(o)
            ELSE IF u.op = "end" /\ ~ Tool!Complete(o.parts[k].args) THEN Tool!Err(o)
            ELSE Tool!Updated([o EXCEPT !.parts[k] = Tool!Assigned(o.parts[k], u)], k, settled,
                              Len(Tool!Visible(o.parts[k])), Tool!Keeps(u, Tool!Visible(o.parts[k])))
    BY <2>1 DEF Tool!Apply
  <2> HIDE DEF r, o
  <2>3. Tool!Updated([o EXCEPT !.parts[k] = Tool!Assigned(o.parts[k], u)], k, settled,
                     Len(Tool!Visible(o.parts[k])), Tool!Keeps(u, Tool!Visible(o.parts[k])))
          = Tool!Updated(m, k, settled, Len(x), kept)
    BY <1>1, Zenon
  <2> QED BY <2>2, <2>3
<1>4. CASE r = Tool!Err(s)
  <2> HIDE DEF r
  <2> QED BY <1>4, ErrFine DEF PartStep, r
<1>5. CASE r = Tool!Err(o)
  <2>1. Fine(r) /\ SameBut(o, r) /\ ~ r.ok
    <3> HIDE DEF r, o
    <3> QED BY <1>1, <1>5, ErrFine
  <2>2. SameBut(s, r)
    BY <1>1, <2>1 DEF SameBut
  <2> HIDE DEF r
  <2> QED BY <2>1, <2>2 DEF PartStep, r
<1>6. CASE k[1] \notin s.emitted /\ r = Tool!Updated(m, k, settled, Len(x), kept)
  <2> DEFINE q == [o.parts EXCEPT ![k] = p]
  <2> HIDE DEF o, r, p, x, kept
  <2>1. m = StateOf(q, o.byId, o.last, o.next, o.emitted, o.held, o.started, o.shown, o.out, o.ok)
    BY <1>1 DEF Fine, IsToolState, StateOf
  <2>2. /\ q = [y \in DOMAIN q |-> q[y]] /\ DOMAIN q = DOMAIN s.parts \cup {k} /\ q[k] = p
        /\ \A y \in DOMAIN s.parts : y # k => q[y] = s.parts[y]
        /\ \A y \in DOMAIN o.parts : y # k => q[y] = o.parts[y]
    BY <1>1 DEF Fine, IsToolState
  <2>3. \A y \in DOMAIN q : q[y] \in ToolPart
    BY <1>1, <1>2, <2>2 DEF Fine, IsToolState
  <2> HIDE DEF q, m
  <2>4. /\ m.parts = q /\ m.byId = o.byId /\ m.last = o.last /\ m.next = o.next
        /\ m.emitted = o.emitted /\ m.held = o.held /\ m.started = o.started /\ m.shown = o.shown
        /\ m.out = o.out /\ m.ok = o.ok
        /\ m = StateOf(m.parts, m.byId, m.last, m.next, m.emitted, m.held, m.started, m.shown, m.out, m.ok)
    BY <2>1 DEF StateOf
  <2>5. IsToolState(m)
    BY <1>1, <2>2, <2>3, <2>4 DEF Fine, IsToolState, StateOf
  <2>6. /\ m.started \subseteq DOMAIN m.parts /\ m.started \subseteq DOMAIN m.shown
        /\ k \in DOMAIN m.parts
    BY <1>1, <2>2, <2>4 DEF Fine, Progress
  <2>7. \A y \in m.started :
          m.shown[y] = [step |-> "started", text |-> IF y = k THEN x ELSE Tool!Visible(m.parts[y])]
    <3> SUFFICES ASSUME NEW y \in m.started
                 PROVE  m.shown[y] = [step |-> "started",
                                      text |-> IF y = k THEN x ELSE Tool!Visible(m.parts[y])]
      OBVIOUS
    <3>1. y \in o.started /\ y \in DOMAIN o.parts /\ m.shown[y] = o.shown[y]
          /\ o.shown[y] = [step |-> "started", text |-> Tool!Visible(o.parts[y])]
      BY <1>1, <2>4 DEF Fine, Progress
    <3>2. CASE y = k
      BY <1>1, <3>1, <3>2 DEF x
    <3>3. CASE y # k
      BY <1>1, <2>2, <2>4, <3>1, <3>3
    <3> QED BY <3>2, <3>3
  <2>8. \A y \in DOMAIN m.shown :
            /\ m.shown[y].step = "started" => y \in m.started
            /\ m.shown[y].step = "ended" =>
                  /\ y[1] \in DOMAIN m.out
                  /\ m.shown[y].text \in {<<>>, m.out[y[1]][y[2] + 1].args}
    BY <1>1, <2>4 DEF Fine, Progress
  <2>15. ReadAs(m, k, x)
    BY <2>6, <2>7, <2>8 DEF ReadAs
  <2>9. kept \in BOOLEAN /\ settled \in BOOLEAN
    BY DEF kept, Tool!Keeps, Tool!IsPrefix
  <2>10. kept => Extends(x, Tool!Visible(m.parts[k]))
    BY <1>2, <2>2, <2>4, KeepsExtends DEF kept, p, x
  <2>11. Fine(r) /\ SameBut(m, r) /\ r.ok = m.ok /\ r.parts = m.parts
    <3> HIDE DEF settled
    <3>1. PICK a \in BOOLEAN : a = settled
      BY <2>9
    <3>2. PICK b \in BOOLEAN : b = kept
      BY <2>9
    <3>3. r = Tool!Updated(m, k, a, Len(x), b)
      BY <1>6, <3>1, <3>2, Zenon
    <3>4. b => Extends(x, Tool!Visible(m.parts[k]))
      BY <2>10, <3>2
    <3>5. k \in DOMAIN m.parts
      BY <2>6
    <3>6. x \in ToolArgs
      BY <1>2
    <3> HIDE DEF kept
    <3> QED BY <2>5, <2>15, <3>3, <3>4, <3>5, <3>6, UpdatedFine
  <2>12. SameBut(s, r)
    BY <1>1, <2>4, <2>11 DEF SameBut
  <2>13. /\ DOMAIN r.parts = DOMAIN s.parts \cup {k} /\ r.parts[k] = p
         /\ \A y \in DOMAIN s.parts : y # k => r.parts[y] = s.parts[y]
    BY <2>2, <2>4, <2>11
  <2>14. PartStep(s, r, k, p)
    BY <1>6, <2>11, <2>12, <2>13 DEF PartStep
  <2> QED BY <2>14 DEF r, p
<1> HIDE DEF r
<1> QED BY <1>3, <1>4, <1>5, <1>6

\* ... after others of the same key, too.
LEMMA ApplyMore ==
  ASSUME NEW s, NEW t, NEW k, NEW p \in ToolPart, NEW u \in ToolUpdate, PartStep(s, t, k, p)
  PROVE  PartStep(s, Tool!Apply(t, k, u), k, Tool!Assigned(p, u))
<1> DEFINE r == Tool!Apply(t, k, u)
<1>1. CASE ~ t.ok
  <2>1. r = t
    BY <1>1 DEF Tool!Apply
  <2> HIDE DEF r
  <2> QED BY <1>1, <2>1 DEF PartStep, r
<1>2. CASE t.ok
  <2>1. /\ Fine(t) /\ SameBut(s, t) /\ k[1] \notin s.emitted
        /\ DOMAIN t.parts = DOMAIN s.parts \cup {k} /\ t.parts[k] = p
        /\ \A y \in DOMAIN s.parts : y # k => t.parts[y] = s.parts[y]
    BY <1>2 DEF PartStep
  <2>2. PartAt(t, k) = p
    BY <2>1 DEF PartAt
  <2>3. PartStep(t, r, k, Tool!Assigned(p, u))
    BY <1>2, <2>1, <2>2, ApplyStep
  <2> HIDE DEF r
  <2>4. Fine(r) /\ SameBut(t, r)
        /\ (r.ok => /\ DOMAIN r.parts = DOMAIN t.parts \cup {k} /\ r.parts[k] = Tool!Assigned(p, u)
                    /\ \A y \in DOMAIN t.parts : y # k => r.parts[y] = t.parts[y])
    BY <2>3 DEF PartStep
  <2>5. SameBut(s, r)
    BY <2>1, <2>4 DEF SameBut
  <2>6. PartStep(s, r, k, Tool!Assigned(p, u))
    BY <2>1, <2>4, <2>5 DEF PartStep
  <2> QED BY <2>6 DEF r
<1> QED BY <1>1, <1>2

IsApplied(g, s, k, ups, m) ==
    g = [n \in 0..m |-> IF n = 0 THEN s ELSE Tool!Apply(g[n - 1], k, ups[n])]

\* The states over a list of updates exist, up to any length.
LEMMA AppliedExists ==
  ASSUME NEW s, NEW k, NEW ups
  PROVE  \A m \in Nat : \E g : IsApplied(g, s, k, ups, m)
<1> DEFINE S == {m \in Nat : \E g : IsApplied(g, s, k, ups, m)}
<1>1. 0 \in S
  <2>1. IsApplied([n \in 0..0 |-> s], s, k, ups, 0)
    BY DEF IsApplied
  <2> QED BY <2>1
<1>2. ASSUME NEW m \in S PROVE m + 1 \in S
  <2>1. PICK g : IsApplied(g, s, k, ups, m)
    OBVIOUS
  <2> DEFINE h == [n \in 0..m + 1 |-> IF n = m + 1 THEN Tool!Apply(g[m], k, ups[m + 1]) ELSE g[n]]
  <2>2. \A n \in 0..m : g[n] = IF n = 0 THEN s ELSE Tool!Apply(g[n - 1], k, ups[n])
    BY <2>1 DEF IsApplied
  <2>3. \A n \in 0..m + 1 : h[n] = IF n = 0 THEN s ELSE Tool!Apply(h[n - 1], k, ups[n])
    BY <2>2
  <2>4. IsApplied(h, s, k, ups, m + 1)
    BY <2>3 DEF IsApplied
  <2> QED BY <2>4
<1> HIDE DEF S
<1>3. S = Nat
  BY <1>1, <1>2, Induct DEF S
<1> QED BY <1>3 DEF S

\* Applied one by one.
LEMMA AppliedBy ==
  ASSUME NEW s, NEW k, NEW ups, Len(ups) \in Nat
  PROVE  \E g : /\ Tool!Applied(s, k, ups) = g[Len(ups)] /\ g[0] = s
                /\ \A n \in 1..Len(ups) : g[n] = Tool!Apply(g[n - 1], k, ups[n])
<1>1. PICK g : IsApplied(g, s, k, ups, Len(ups)) /\ Tool!Applied(s, k, ups) = g[Len(ups)]
  <2>1. \E g : IsApplied(g, s, k, ups, Len(ups))
    BY AppliedExists
  <2> QED BY <2>1 DEF Tool!Applied, IsApplied
<1>2. \A n \in 0..Len(ups) : g[n] = IF n = 0 THEN s ELSE Tool!Apply(g[n - 1], k, ups[n])
  BY <1>1 DEF IsApplied
<1>3. g[0] = s /\ \A n \in 1..Len(ups) : g[n] = Tool!Apply(g[n - 1], k, ups[n])
  BY <1>2
<1> QED BY <1>1, <1>3

\* A piece of one, two, three or four updates.
LEMMA Piece ==
  ASSUME NEW s, NEW k, NEW ups, Fine(s), s.ok, Len(ups) \in 1..4,
         \A n \in 1..Len(ups) : ups[n] \in ToolUpdate,
         NEW p1, NEW p2, NEW p3, NEW p4,
         p1 = Tool!Assigned(PartAt(s, k), ups[1]),
         Len(ups) >= 2 => p2 = Tool!Assigned(p1, ups[2]),
         Len(ups) >= 3 => p3 = Tool!Assigned(p2, ups[3]),
         Len(ups) = 4 => p4 = Tool!Assigned(p3, ups[4])
  PROVE  PartStep(s, Tool!Applied(s, k, ups), k,
                  CASE Len(ups) = 1 -> p1 [] Len(ups) = 2 -> p2 [] Len(ups) = 3 -> p3 [] OTHER -> p4)
<1>1. PICK g : /\ Tool!Applied(s, k, ups) = g[Len(ups)] /\ g[0] = s
               /\ \A n \in 1..Len(ups) : g[n] = Tool!Apply(g[n - 1], k, ups[n])
  BY AppliedBy
<1>2. PartStep(s, g[1], k, p1) /\ p1 \in ToolPart
  <2>1. 1 \in 1..Len(ups) /\ 1 - 1 = 0
    OBVIOUS
  <2>2. g[1] = Tool!Apply(s, k, ups[1]) /\ ups[1] \in ToolUpdate
    BY <1>1, <2>1
  <2> QED BY <2>2, ApplyStep, PartAtTyped, AssignedTyped
<1>3. ASSUME Len(ups) >= 2 PROVE PartStep(s, g[2], k, p2) /\ p2 \in ToolPart
  <2>1. 2 \in 1..Len(ups) /\ 2 - 1 = 1
    BY <1>3
  <2>2. g[2] = Tool!Apply(g[1], k, ups[2]) /\ ups[2] \in ToolUpdate
    BY <1>1, <2>1
  <2> QED BY <1>2, <1>3, <2>2, ApplyMore, AssignedTyped
<1>4. ASSUME Len(ups) >= 3 PROVE PartStep(s, g[3], k, p3) /\ p3 \in ToolPart
  <2>1. 3 \in 1..Len(ups) /\ 3 - 1 = 2 /\ Len(ups) >= 2
    BY <1>4
  <2>2. g[3] = Tool!Apply(g[2], k, ups[3]) /\ ups[3] \in ToolUpdate
    BY <1>1, <2>1
  <2> QED BY <1>3, <1>4, <2>1, <2>2, ApplyMore, AssignedTyped
<1>5. ASSUME Len(ups) = 4 PROVE PartStep(s, g[4], k, p4)
  <2>1. 4 \in 1..Len(ups) /\ 4 - 1 = 3 /\ Len(ups) >= 3
    BY <1>5
  <2>2. g[4] = Tool!Apply(g[3], k, ups[4]) /\ ups[4] \in ToolUpdate
    BY <1>1, <2>1
  <2> QED BY <1>4, <1>5, <2>1, <2>2, ApplyMore
<1>6. CASE Len(ups) = 1
  BY <1>1, <1>2, <1>6
<1>7. CASE Len(ups) = 2
  BY <1>1, <1>3, <1>7
<1>8. CASE Len(ups) = 3
  BY <1>1, <1>4, <1>8
<1>9. CASE Len(ups) = 4
  BY <1>1, <1>5, <1>9
<1> QED BY <1>6, <1>7, <1>8, <1>9

CallsOf(c) == {l \in Tool!ToolCall : layout[l] = c}
BegunOf(snt, c) == {l \in Tool!ToolCall : layout[l] = c /\ snt[l] # Tool!NotBegun}
OpenOf(em, snt) == {l \in Tool!ToolCall : snt[l] # Tool!NotBegun /\ layout[l] \notin em}

\* Calls begin in order.
Downward(snt) ==
    \A l, m \in Tool!ToolCall : m < l /\ snt[l] # Tool!NotBegun => snt[m] # Tool!NotBegun

\* The calls of a layout are finitely many numbers, and choices are numbers.
LEMMA CallsFinite ==
  ASSUME layout \in Seq(Nat)
  PROVE  /\ Tool!ToolCall = 1..Len(layout) /\ Tool!ToolCall \in SUBSET Nat
         /\ \A S \in SUBSET Tool!ToolCall : S \in SUBSET Nat /\ IsFiniteSet(S)
         /\ \A l \in Tool!ToolCall : layout[l] \in Nat
<1>1. Tool!ToolCall = 1..Len(layout) /\ Len(layout) \in Nat
  BY DEF Tool!ToolCall
<1>2. IsFiniteSet(1..Len(layout))
  BY <1>1, FS_Interval
<1>3. \A S \in SUBSET Tool!ToolCall : IsFiniteSet(S)
  BY <1>1, <1>2, FS_Subset
<1> QED BY <1>1, <1>3

\* A call's key is its choice and its rank among the calls of that choice.
LEMMA KeyIs ==
  ASSUME layout \in Seq(Nat), NEW l \in Tool!ToolCall
  PROVE  /\ Tool!KeyOf(l) = <<layout[l], Rank(CallsOf(layout[l]), l)>>
         /\ Rank(CallsOf(layout[l]), l) \in Nat
<1> DEFINE S == CallsOf(layout[l])
<1>1. {y \in S : y < l} = {m \in Tool!ToolCall : m < l /\ layout[m] = layout[l]}
  BY DEF CallsOf
<1>2. Rank(S, l) = Tool!Cardinality({m \in Tool!ToolCall : m < l /\ layout[m] = layout[l]})
  BY <1>1, ToolCount DEF Rank
<1>3. Tool!KeyOf(l) = <<layout[l], Rank(S, l)>>
  BY <1>2 DEF Tool!KeyOf
<1>4. S \in SUBSET Tool!ToolCall /\ l \in S
  BY DEF CallsOf
<1> HIDE DEF S
<1>5. Rank(S, l) \in 0..(Cardinality(S) - 1) /\ Cardinality(S) \in Nat
  BY <1>4, CallsFinite, Ranked
<1> QED BY <1>3, <1>5 DEF S

\* Two calls never share a key.
LEMMA KeyInjective ==
  ASSUME layout \in Seq(Nat), NEW l \in Tool!ToolCall, NEW m \in Tool!ToolCall,
         Tool!KeyOf(l) = Tool!KeyOf(m)
  PROVE  l = m
<1>1. layout[l] = layout[m] /\ Rank(CallsOf(layout[l]), l) = Rank(CallsOf(layout[m]), m)
  BY KeyIs
<1> DEFINE S == CallsOf(layout[l])
<1>2. S \in SUBSET Tool!ToolCall /\ l \in S /\ m \in S /\ Rank(S, l) = Rank(S, m)
  BY <1>1 DEF CallsOf
<1> HIDE DEF S
<1> QED BY <1>2, CallsFinite, Ranked

\* Finitely many calls of a choice have begun.
LEMMA BegunFinite ==
  ASSUME layout \in Seq(Nat), NEW snt, NEW c
  PROVE  /\ BegunOf(snt, c) \in SUBSET Nat /\ IsFiniteSet(BegunOf(snt, c))
         /\ Cardinality(BegunOf(snt, c)) \in Nat
<1>1. BegunOf(snt, c) \in SUBSET Tool!ToolCall
  BY DEF BegunOf
<1>2. BegunOf(snt, c) \in SUBSET Nat /\ IsFiniteSet(BegunOf(snt, c))
  BY <1>1, CallsFinite
<1> QED BY <1>2, FS_CardinalityType

\* The index of a call is its place among those begun in its choice.
LEMMA KeyRank ==
  ASSUME layout \in Seq(Nat), NEW snt, Downward(snt), NEW c, NEW l \in BegunOf(snt, c)
  PROVE  /\ Tool!KeyOf(l) = <<c, Rank(BegunOf(snt, c), l)>>
         /\ Rank(BegunOf(snt, c), l) \in 0..(Cardinality(BegunOf(snt, c)) - 1)
<1>1. l \in Tool!ToolCall /\ layout[l] = c /\ snt[l] # Tool!NotBegun
  BY DEF BegunOf
<1>2. {y \in CallsOf(c) : y < l} = {y \in BegunOf(snt, c) : y < l}
  BY <1>1 DEF CallsOf, BegunOf, Downward
<1>3. Rank(CallsOf(c), l) = Rank(BegunOf(snt, c), l)
  BY <1>2 DEF Rank
<1>4. Rank(BegunOf(snt, c), l) \in 0..(Cardinality(BegunOf(snt, c)) - 1)
  BY BegunFinite, Ranked
<1> QED BY <1>1, <1>3, <1>4, KeyIs

\* ... and that of the next call is how many there are.
LEMMA KeyNext ==
  ASSUME layout \in Seq(Nat), NEW snt, Downward(snt), NEW l \in Tool!ToolCall,
         snt[l] = Tool!NotBegun, \A m \in Tool!ToolCall : m < l => snt[m] # Tool!NotBegun
  PROVE  Tool!KeyOf(l) = <<layout[l], Cardinality(BegunOf(snt, layout[l]))>>
<1> DEFINE c == layout[l]
<1>1. ASSUME NEW m \in Tool!ToolCall, snt[m] # Tool!NotBegun PROVE m < l
  <2>1. m \in Nat /\ l \in Nat /\ m # l
    BY <1>1, CallsFinite
  <2>2. ~(l < m)
    BY <1>1 DEF Downward
  <2> QED BY <2>1, <2>2
<1>2. {y \in CallsOf(c) : y < l} = BegunOf(snt, c)
  BY <1>1 DEF CallsOf, BegunOf
<1> QED BY <1>2, KeyIs DEF Rank

\* What the parts of a state are: those of the calls begun in a choice that is
\* not completed, each as the provider wrote it.
Placeholder == {"anthropic", "gemini", "gemini_idless"}
IdOf(l) == IF wire = "gemini_idless" THEN 0 ELSE l

PartAs(part, l, n) ==
    /\ part \in ToolPart /\ part.name = l /\ part.id = IdOf(l)
    /\ n \in 0..3
    /\ n = 0 => IF wire \in Placeholder THEN part.args = Tool!Braces /\ part.initial
                ELSE part.args = <<>>
    /\ n > 0 => part.args = Tool!Text(l, n) /\ ~ part.initial

Assembly(s, snt) ==
    /\ DOMAIN s.parts = {Tool!KeyOf(l) : l \in OpenOf(s.emitted, snt)}
    /\ \A l \in OpenOf(s.emitted, snt) : PartAs(s.parts[Tool!KeyOf(l)], l, snt[l])

WrittenOf(snt, l) ==
    [name |-> l, id |-> IdOf(l),
     args |-> IF snt[l] = 0 THEN Tool!Braces ELSE Tool!Text(l, snt[l])]

\* The calls of a choice in order, as they were written.
CallsAs(snt, c) ==
    [i \in DOMAIN Tool!InOrder(BegunOf(snt, c)) |-> WrittenOf(snt, Tool!InOrder(BegunOf(snt, c))[i])]

OutAs(o, snt) == \A c \in DOMAIN o : o[c] = CallsAs(snt, c)

\* The indices of a choice's parts, and its keys, are those of its calls.
LEMMA IndicesAre ==
  ASSUME layout \in Seq(Nat), NEW snt, Downward(snt), NEW s, Assembly(s, snt), NEW c, c \notin s.emitted
  PROVE  /\ Tool!KeysOf(s.parts, c) = {Tool!KeyOf(l) : l \in BegunOf(snt, c)}
         /\ Tool!IndicesOf(s.parts, c) = 0..(Cardinality(BegunOf(snt, c)) - 1)
<1> DEFINE B == BegunOf(snt, c)
<1>1. \A l \in Tool!ToolCall : Tool!KeyOf(l)[1] = layout[l]
  BY KeyIs
<1>2. \A l \in Tool!ToolCall : l \in B <=> l \in OpenOf(s.emitted, snt) /\ layout[l] = c
  BY DEF BegunOf, OpenOf
<1>3. Tool!KeysOf(s.parts, c) = {Tool!KeyOf(l) : l \in B}
  <2>1. DOMAIN s.parts = {Tool!KeyOf(l) : l \in OpenOf(s.emitted, snt)}
    BY DEF Assembly
  <2>2. OpenOf(s.emitted, snt) \subseteq Tool!ToolCall /\ B \subseteq Tool!ToolCall
    BY DEF OpenOf, BegunOf
  <2> HIDE DEF B
  <2> QED BY <1>1, <1>2, <2>1, <2>2 DEF Tool!KeysOf
<1>4. \A l \in B : Tool!KeyOf(l)[2] = Rank(B, l)
  BY KeyRank
<1>5. /\ \A l \in B : Rank(B, l) \in 0..(Cardinality(B) - 1)
      /\ \A i \in 0..(Cardinality(B) - 1) : \E l \in B : Rank(B, l) = i
  <2>1. B \in SUBSET Nat /\ IsFiniteSet(B)
    BY BegunFinite
  <2> HIDE DEF B
  <2> QED BY <2>1, Ranked
<1> HIDE DEF B
<1>6. Tool!IndicesOf(s.parts, c) = {Rank(B, l) : l \in B}
  <2>1. Tool!IndicesOf(s.parts, c) = {k[2] : k \in {Tool!KeyOf(l) : l \in B}}
    BY <1>3 DEF Tool!IndicesOf
  <2> QED BY <1>4, <2>1
<1>7. {Rank(B, l) : l \in B} = 0..(Cardinality(B) - 1)
  BY <1>5
<1> QED BY <1>3, <1>6, <1>7 DEF B

\* What complete() emits of a choice is what was written of it, placeholders for
\* the arguments of a call that has none being whole.
LEMMA EmissionAs ==
  ASSUME layout \in Seq(Nat), NEW snt, Downward(snt), NEW s, Assembly(s, snt), NEW c, c \notin s.emitted,
         Tool!CompletedCalls(s, c)
  PROVE  /\ Tool!Emission(s, c) = CallsAs(snt, c)
         /\ \A l \in BegunOf(snt, c) :
               Tool!Emission(s, c)[Tool!KeyOf(l)[2] + 1].args = s.parts[Tool!KeyOf(l)].args
<1> DEFINE B == BegunOf(snt, c)
           n == Cardinality(B)
           E == Tool!Emission(s, c)
<1>0. B \in SUBSET Nat /\ IsFiniteSet(B) /\ n \in Nat /\ \A l \in B : l \in Tool!ToolCall
  BY BegunFinite DEF BegunOf
<1>1. Tool!IndicesOf(s.parts, c) = 0..(n - 1)
  BY IndicesAre
<1>2. /\ Tool!InOrder(B) \in [1..n -> B]
      /\ \A i \in 1..n : Rank(B, Tool!InOrder(B)[i]) = i - 1
      /\ \A l \in B : Rank(B, l) + 1 \in 1..n /\ Tool!InOrder(B)[Rank(B, l) + 1] = l
  <2> HIDE DEF B
  <2> QED BY <1>0, Ordered
<1>3. Tool!InOrder(0..(n - 1)) = [i \in 1..n |-> i - 1]
  BY <1>0, OrderedInterval
<1>4. \A l \in B : Tool!KeyOf(l) = <<c, Rank(B, l)>>
  BY KeyRank
<1>5. \A l \in B : PartAs(s.parts[Tool!KeyOf(l)], l, snt[l])
  BY DEF Assembly, OpenOf, BegunOf
<1> HIDE DEF B, n
<1> DEFINE part(i) == s.parts[<<c, i - 1>>]
<1>6. E = [i \in 1..n |-> [name |-> part(i).name, id |-> part(i).id, args |-> part(i).args]]
  <2>1. \A i \in 1..n : Tool!InOrder(0..(n - 1))[i] = i - 1
    BY <1>3
  <2>2. DOMAIN Tool!InOrder(0..(n - 1)) = 1..n
    BY <1>3
  <2> QED BY <1>1, <2>1, <2>2 DEF Tool!Emission
<1>7. ASSUME NEW i \in 1..n
      PROVE  /\ E[i] = WrittenOf(snt, Tool!InOrder(B)[i])
             /\ E[i].args = part(i).args
  <2>1. PICK l \in B : l = Tool!InOrder(B)[i]
    BY <1>2
  <2>2. Tool!KeyOf(l) = <<c, i - 1>>
    BY <1>2, <1>4, <2>1
  <2>3. PartAs(part(i), l, snt[l])
    BY <1>5, <2>2
  <2>4. E[i] = [name |-> part(i).name, id |-> part(i).id, args |-> part(i).args]
    BY <1>6
  <2>5. Tool!Complete(part(i).args)
    <3>1. E[i].args = part(i).args /\ DOMAIN E = 1..n
      BY <1>6, <2>4
    <3> QED BY <3>1 DEF Tool!CompletedCalls
  <2> HIDE DEF part, E
  <2>6. part(i).args = IF snt[l] = 0 THEN Tool!Braces ELSE Tool!Text(l, snt[l])
    <3>1. CASE snt[l] = 0
      <4>1. part(i).args # <<>>
        BY <2>5 DEF Tool!Complete
      <4> QED BY <2>3, <3>1, <4>1 DEF PartAs
    <3>2. CASE snt[l] # 0
      BY <2>3, <3>2 DEF PartAs
    <3> QED BY <3>1, <3>2
  <2>7. E[i] = WrittenOf(snt, l)
    BY <2>3, <2>4, <2>6 DEF PartAs, WrittenOf
  <2> QED BY <2>1, <2>4, <2>7
<1>8. E = CallsAs(snt, c)
  <2>1. CallsAs(snt, c) = [i \in 1..n |-> WrittenOf(snt, Tool!InOrder(B)[i])]
    <3>1. DOMAIN Tool!InOrder(B) = 1..n
      BY <1>2
    <3> QED BY <3>1 DEF CallsAs, B
  <2> HIDE DEF E
  <2>2. E = [i \in 1..n |-> E[i]]
    BY <1>6
  <2> QED BY <1>7, <2>1, <2>2
<1>9. ASSUME NEW l \in B PROVE E[Tool!KeyOf(l)[2] + 1].args = s.parts[Tool!KeyOf(l)].args
  <2>1. PICK i \in 1..n : i = Rank(B, l) + 1
    BY <1>2
  <2>2. Rank(B, l) \in Nat /\ i \in Int
    <3>1. Rank(B, l) \in 0..(n - 1)
      BY <1>0, Ranked DEF n
    <3> QED BY <3>1
  <2>3. Tool!KeyOf(l) = <<c, i - 1>> /\ Tool!KeyOf(l)[2] + 1 = i
    BY <1>4, <2>1, <2>2
  <2> HIDE DEF E
  <2> QED BY <1>7, <2>3 DEF part
<1> QED BY <1>8, <1>9 DEF B, E

\* What the Gemini parser knows of an open choice: the next index, the part
\* before, and where each id went.
PlacedAt(s, snt, c) ==
    /\ c \in DOMAIN s.next <=> BegunOf(snt, c) # {}
    /\ c \in DOMAIN s.last <=> BegunOf(snt, c) # {}
    /\ BegunOf(snt, c) # {} =>
          /\ s.next[c] = Cardinality(BegunOf(snt, c))
          /\ \E l \in BegunOf(snt, c) :
                /\ s.last[c] = Tool!KeyOf(l)
                /\ wire = "gemini_idless" => \A m \in BegunOf(snt, c) : m <= l
    /\ wire = "gemini_idless" => c \notin DOMAIN s.byId
    /\ wire = "gemini" =>
          /\ c \in DOMAIN s.byId <=> BegunOf(snt, c) # {}
          /\ BegunOf(snt, c) # {} => s.byId[c] = [l \in BegunOf(snt, c) |-> Tool!KeyOf(l)]

Gemini == wire \in {"gemini", "gemini_idless"}
Placed(s, snt) == Gemini => \A c \in Tool!Choice : c \notin s.emitted => PlacedAt(s, snt, c)

\* Of a completed choice it has forgotten everything.
Gone(s) ==
    \A c \in s.emitted : c \notin DOMAIN s.byId /\ c \notin DOMAIN s.last /\ c \notin DOMAIN s.next

Sound(s, snt) ==
    /\ Fine(s) /\ s.emitted = DOMAIN s.out
    /\ Assembly(s, snt) /\ OutAs(s.out, snt) /\ Placed(s, snt) /\ Gone(s)

\* complete() takes a choice from its parts to the calls that were written, and
\* shows each of them as ended with its whole text.
LEMMA CompleteKeeps ==
  ASSUME layout \in Seq(Nat), NEW snt, Downward(snt), NEW s, Sound(s, snt), s.ok, NEW c
  PROVE  LET r == Tool!CompleteChoice(s, c) IN
         Fine(r) /\ (r.ok => Sound(r, snt)) /\ (~ r.ok => r.out = s.out)
<1> DEFINE r == Tool!CompleteChoice(s, c)
           K == Tool!KeysOf(s.parts, c)
           E == Tool!Emission(s, c)
           text(k) == IF k \in s.started THEN s.shown[k].text ELSE Tool!Visible(s.parts[k])
           ps == [k \in DOMAIN s.parts \ K |-> s.parts[k]]
           sh == [k \in DOMAIN s.shown \cup K |->
                     IF k \in K THEN [step |-> "ended", text |-> text(k)] ELSE s.shown[k]]
           ou == Tool!Put(s.out, c, E)
           he == (s.held + 1) - Tool!Releases(s, c)
           Done == StateOf(ps, Tool!Drop(s.byId, c), Tool!Drop(s.last, c), Tool!Drop(s.next, c),
                           s.emitted \cup {c}, he, s.started \ K, sh, ou, s.ok)
<1>1. Fine(s) /\ s.emitted = DOMAIN s.out /\ Assembly(s, snt) /\ OutAs(s.out, snt)
      /\ Placed(s, snt) /\ Gone(s)
  BY DEF Sound
<1>2. s = StateOf(s.parts, s.byId, s.last, s.next, s.emitted, s.held, s.started, s.shown, s.out, s.ok)
  BY <1>1 DEF Fine, IsToolState, StateOf
<1>3. \/ r = s
      \/ r = Tool!Err(s)
      \/ /\ c \notin s.emitted /\ Tool!CompletedCalls(s, c)
         /\ r = Done
  <2> DEFINE s1 == Tool!Reserve(s, 1)
             s2 == Tool!CloseAll(s1, K, "ended")
             s3 == [s2 EXCEPT !.emitted = @ \cup {c}, !.held = @ - Tool!Releases(s, c),
                              !.parts = [k \in DOMAIN @ \ Tool!KeysOf(@, c) |-> @[k]],
                              !.byId = Tool!Drop(@, c), !.last = Tool!Drop(@, c),
                              !.next = Tool!Drop(@, c), !.out = Tool!Put(@, c, E)]
  <2>1. r = IF ~ s.ok \/ c \in s.emitted THEN s
            ELSE IF ~ Tool!CompletedCalls(s, c) \/ ~ s1.ok THEN Tool!Err(s) ELSE s3
    BY DEF Tool!CompleteChoice
  <2>2. ASSUME s1.ok PROVE s3 = Done
    <3>1. s1 = StateOf(s.parts, s.byId, s.last, s.next, s.emitted, s.held + 1, s.started, s.shown,
                       s.out, s.ok)
      <4>1. ~(s.held + 1 > MaxToolEntries)
        <5>1. Fine(Tool!Err(s)) /\ ~ Tool!Err(s).ok
          BY <1>1, ErrFine
        <5> QED BY <2>2, <5>1 DEF Tool!Reserve
      <4>2. s1 = [s EXCEPT !.held = @ + 1]
        BY <4>1 DEF Tool!Reserve
      <4> QED BY <1>2, <4>2 DEF StateOf
    <3> HIDE DEF s1
    <3>2. /\ s1.parts = s.parts /\ s1.started = s.started /\ s1.shown = s.shown
      BY <3>1 DEF StateOf
    <3>3. s2 = [s1 EXCEPT !.started = @ \ K,
                          !.shown = [k \in DOMAIN @ \cup K |->
                                       IF k \in K THEN [step |-> "ended", text |-> text(k)] ELSE @[k]]]
      BY <3>2 DEF Tool!CloseAll
    <3>4. s2 = StateOf(s.parts, s.byId, s.last, s.next, s.emitted, s.held + 1, s.started \ K, sh,
                       s.out, s.ok)
      <4> HIDE DEF K, text, s2
      <4> QED BY <3>1, <3>3 DEF StateOf
    <3> HIDE DEF s2, K, E, sh
    <3>5. s3 = StateOf(ps, Tool!Drop(s.byId, c), Tool!Drop(s.last, c), Tool!Drop(s.next, c),
                       s.emitted \cup {c}, he, s.started \ K, sh, ou, s.ok)
      <4>1. /\ s2.parts = s.parts /\ s2.byId = s.byId /\ s2.last = s.last /\ s2.next = s.next
            /\ s2.emitted = s.emitted /\ s2.held = s.held + 1 /\ s2.out = s.out
        BY <3>4 DEF StateOf
      <4>2. [k \in DOMAIN s2.parts \ Tool!KeysOf(s2.parts, c) |-> s2.parts[k]] = ps
        BY <4>1 DEF K
      <4>3. s3 = [s2 EXCEPT !.emitted = s.emitted \cup {c}, !.held = he, !.parts = ps,
                            !.byId = Tool!Drop(s.byId, c), !.last = Tool!Drop(s.last, c),
                            !.next = Tool!Drop(s.next, c), !.out = ou]
        <5>1. s2.held - Tool!Releases(s, c) = he
          BY <4>1, Zenon
        <5>2. Tool!Put(s2.out, c, E) = ou
          BY <4>1
        <5> HIDE DEF ps, he, ou
        <5> QED BY <4>1, <4>2, <5>1, <5>2, Zenon
      <4> HIDE DEF s3, ps, he, ou
      <4> QED BY <3>4, <4>3 DEF StateOf
    <3> QED BY <3>5
  <2> HIDE DEF r, s1, s3, Done
  <2> QED BY <2>1, <2>2
<1>4. CASE r = s
  <2> HIDE DEF r
  <2> QED BY <1>1, <1>4 DEF r
<1>5. CASE r = Tool!Err(s)
  <2> HIDE DEF r
  <2>1. Fine(r) /\ SameBut(s, r) /\ ~ r.ok
    BY <1>1, <1>5, ErrFine
  <2>2. r.out = s.out
    BY <2>1 DEF SameBut
  <2> QED BY <2>1, <2>2 DEF r
<1>6. CASE /\ c \notin s.emitted /\ Tool!CompletedCalls(s, c) /\ r = Done
  <2> DEFINE B == BegunOf(snt, c)
  <2>1. /\ E = CallsAs(snt, c)
        /\ \A l \in B : E[Tool!KeyOf(l)[2] + 1].args = s.parts[Tool!KeyOf(l)].args
        /\ K = {Tool!KeyOf(l) : l \in B}
    <3> HIDE DEF Done
    <3>1. c \notin s.emitted /\ Tool!CompletedCalls(s, c) /\ Assembly(s, snt)
      BY <1>1, <1>6
    <3>2. K = {Tool!KeyOf(l) : l \in B}
      BY <3>1, IndicesAre
    <3> QED BY <3>1, <3>2, EmissionAs
  <2>a. c \notin DOMAIN s.out
    BY <1>1, <1>6
  <2>2. \A k \in K : k[1] = c /\ k \in DOMAIN s.parts
    BY DEF Tool!KeysOf
  <2>3. /\ DOMAIN ps = DOMAIN s.parts \ K /\ \A k \in DOMAIN ps : ps[k] = s.parts[k]
        /\ ps = [k \in DOMAIN ps |-> ps[k]]
    OBVIOUS
  <2>4. /\ DOMAIN sh = DOMAIN s.shown \cup K /\ sh = [k \in DOMAIN sh |-> sh[k]]
        /\ \A k \in K : sh[k] = [step |-> "ended", text |-> text(k)]
        /\ \A k \in DOMAIN s.shown : k \notin K => sh[k] = s.shown[k]
    BY Zenon
  <2>5. DOMAIN ou = DOMAIN s.out \cup {c} /\ ou[c] = E /\ \A d \in DOMAIN s.out : d # c => ou[d] = s.out[d]
    BY DEF Tool!Put
  <2> HIDE DEF ps, sh, ou, K, E, he
  <2>6. /\ r.parts = ps /\ r.byId = Tool!Drop(s.byId, c) /\ r.last = Tool!Drop(s.last, c)
        /\ r.next = Tool!Drop(s.next, c) /\ r.emitted = s.emitted \cup {c} /\ r.held = he
        /\ r.started = s.started \ K /\ r.shown = sh /\ r.out = ou /\ r.ok = s.ok
        /\ r = StateOf(r.parts, r.byId, r.last, r.next, r.emitted, r.held, r.started, r.shown, r.out, r.ok)
    <3> HIDE DEF r
    <3>1. r = StateOf(ps, Tool!Drop(s.byId, c), Tool!Drop(s.last, c), Tool!Drop(s.next, c),
                      s.emitted \cup {c}, he, s.started \ K, sh, ou, s.ok)
      BY <1>6
    <3> QED BY <3>1 DEF StateOf
  <2> HIDE DEF r
  <2>7. IsToolState(r)
    BY <1>1, <2>3, <2>4, <2>6 DEF Fine, IsToolState, StateOf
  <2>8. Progress(r)
    <3>1. r.started \subseteq DOMAIN r.parts /\ r.started \subseteq DOMAIN r.shown
      BY <1>1, <2>3, <2>4, <2>6 DEF Fine, Progress
    <3>2. \A k \in r.started : r.shown[k] = [step |-> "started", text |-> Tool!Visible(r.parts[k])]
      <4> SUFFICES ASSUME NEW k \in r.started
                   PROVE  r.shown[k] = [step |-> "started", text |-> Tool!Visible(r.parts[k])]
        OBVIOUS
      <4>1. k \in s.started /\ k \notin K /\ k \in DOMAIN s.parts /\ k \in DOMAIN s.shown
            /\ s.shown[k] = [step |-> "started", text |-> Tool!Visible(s.parts[k])]
        BY <1>1, <2>6 DEF Fine, Progress
      <4>2. r.parts[k] = s.parts[k] /\ r.shown[k] = s.shown[k]
        BY <2>3, <2>4, <2>6, <4>1
      <4> QED BY <4>1, <4>2
    <3>3. ASSUME NEW k \in DOMAIN r.shown
          PROVE  /\ r.shown[k].step = "started" => k \in r.started
                 /\ r.shown[k].step = "ended" =>
                       /\ k[1] \in DOMAIN r.out
                       /\ r.shown[k].text \in {<<>>, r.out[k[1]][k[2] + 1].args}
      <4>1. CASE k \in K
        <5>1. PICK l \in B : k = Tool!KeyOf(l)
          BY <2>1, <4>1
        <5>2. r.out[k[1]][k[2] + 1].args = s.parts[k].args /\ k[1] \in DOMAIN r.out
          BY <2>1, <2>2, <2>5, <2>6, <4>1, <5>1
        <5>3. text(k) = Tool!Visible(s.parts[k])
          <6>1. k \in s.started => s.shown[k].text = Tool!Visible(s.parts[k])
            <7>1. k \in s.started => s.shown[k] = [step |-> "started", text |-> Tool!Visible(s.parts[k])]
              BY <1>1 DEF Fine, Progress
            <7> QED BY <7>1
          <6> QED BY <6>1
        <5>4. text(k) \in {<<>>, s.parts[k].args}
          BY <5>3 DEF Tool!Visible
        <5>5. r.shown[k].step = "ended" /\ r.shown[k].text = text(k)
          <6> HIDE DEF text
          <6> QED BY <2>4, <2>6, <4>1
        <5> HIDE DEF text
        <5> QED BY <5>2, <5>4, <5>5
      <4>2. CASE k \notin K
        <5>1. k \in DOMAIN s.shown /\ r.shown[k] = s.shown[k]
          BY <2>4, <2>6, <4>2
        <5>2. s.shown[k].step = "started" => k \in s.started
          BY <1>1, <5>1 DEF Fine, Progress
        <5>3. s.shown[k].step = "ended" =>
                /\ k[1] \in DOMAIN s.out
                /\ s.shown[k].text \in {<<>>, s.out[k[1]][k[2] + 1].args}
          BY <1>1, <5>1 DEF Fine, Progress
        <5>4. k[1] \in DOMAIN s.out => k[1] \in DOMAIN r.out /\ r.out[k[1]] = s.out[k[1]]
          BY <2>a, <2>5, <2>6
        <5> QED BY <2>6, <4>2, <5>1, <5>2, <5>3, <5>4
      <4> QED BY <4>1, <4>2
    <3> QED BY <3>1, <3>2, <3>3 DEF Progress
  <2>9. r.emitted = DOMAIN r.out
    BY <1>1, <2>5, <2>6
  <2>10. \A l \in Tool!ToolCall : l \in OpenOf(r.emitted, snt) <=> l \in OpenOf(s.emitted, snt) /\ l \notin B
    BY <2>6 DEF OpenOf, BegunOf
  <2>11. /\ OpenOf(r.emitted, snt) \subseteq Tool!ToolCall /\ OpenOf(s.emitted, snt) \subseteq Tool!ToolCall
         /\ B \subseteq Tool!ToolCall
    BY DEF OpenOf, BegunOf
  <2> HIDE DEF B
  <2>12. DOMAIN s.parts = {Tool!KeyOf(l) : l \in OpenOf(s.emitted, snt)}
    BY <1>1 DEF Assembly
  <2>13. DOMAIN r.parts = {Tool!KeyOf(l) : l \in OpenOf(r.emitted, snt)}
    <3>1. ASSUME NEW l \in OpenOf(r.emitted, snt)
          PROVE  Tool!KeyOf(l) \in DOMAIN s.parts /\ Tool!KeyOf(l) \notin K
      <4>1. l \in OpenOf(s.emitted, snt) /\ l \notin B /\ l \in Tool!ToolCall
        BY <2>10, <2>11
      <4> QED BY <2>1, <2>11, <2>12, <4>1, KeyInjective
    <3>2. ASSUME NEW k \in DOMAIN r.parts
          PROVE  \E l \in OpenOf(r.emitted, snt) : k = Tool!KeyOf(l)
      <4>1. k \in DOMAIN s.parts /\ k \notin K
        BY <2>3, <2>6
      <4>2. PICK l \in OpenOf(s.emitted, snt) : k = Tool!KeyOf(l)
        BY <2>12, <4>1
      <4>3. l \notin B
        BY <2>1, <4>1, <4>2
      <4> QED BY <2>10, <2>11, <4>2, <4>3
    <3>3. DOMAIN r.parts = DOMAIN s.parts \ K
      BY <2>3, <2>6
    <3>4. \A l \in OpenOf(r.emitted, snt) : Tool!KeyOf(l) \in DOMAIN r.parts
      BY <3>1, <3>3
    <3>5. \A k \in DOMAIN r.parts : k \in {Tool!KeyOf(l) : l \in OpenOf(r.emitted, snt)}
      BY <3>2
    <3> QED BY <3>4, <3>5
  <2>14. \A l \in OpenOf(r.emitted, snt) : PartAs(r.parts[Tool!KeyOf(l)], l, snt[l])
    <3> SUFFICES ASSUME NEW l \in OpenOf(r.emitted, snt)
                 PROVE  PartAs(r.parts[Tool!KeyOf(l)], l, snt[l])
      OBVIOUS
    <3>1. r.parts[Tool!KeyOf(l)] = s.parts[Tool!KeyOf(l)]
      BY <2>3, <2>6, <2>13
    <3>2. PartAs(s.parts[Tool!KeyOf(l)], l, snt[l])
      BY <1>1, <2>10, <2>11 DEF Assembly
    <3> QED BY <3>1, <3>2
  <2>15. OutAs(r.out, snt)
    BY <1>1, <2>1, <2>5, <2>6 DEF OutAs
  <2>16. Gone(r)
    BY <1>1, <2>6 DEF Gone, Tool!Drop
  <2>17. ASSUME Gemini, NEW d \in Tool!Choice, d \notin r.emitted PROVE PlacedAt(r, snt, d)
    <3>1. PlacedAt(s, snt, d) /\ d # c
      BY <1>1, <2>6, <2>17 DEF Placed
    <3>2. /\ d \in DOMAIN r.next <=> d \in DOMAIN s.next
          /\ d \in DOMAIN r.last <=> d \in DOMAIN s.last
          /\ d \in DOMAIN r.byId <=> d \in DOMAIN s.byId
          /\ d \in DOMAIN s.next => r.next[d] = s.next[d]
          /\ d \in DOMAIN s.last => r.last[d] = s.last[d]
          /\ d \in DOMAIN s.byId => r.byId[d] = s.byId[d]
      BY <2>6, <3>1 DEF Tool!Drop
    <3> QED BY <3>1, <3>2 DEF PlacedAt
  <2>18. Sound(r, snt)
    BY <2>7, <2>8, <2>9, <2>13, <2>14, <2>15, <2>16, <2>17 DEF Sound, Fine, Assembly, Placed
  <2>19. Fine(r) /\ r.ok
    BY <2>6, <2>18 DEF Sound
  <2> QED BY <2>18, <2>19 DEF r
<1> HIDE DEF r, Done
<1> QED BY <1>3, <1>4, <1>5, <1>6

ToolInvAt(s, snt, e) ==
    /\ layout \in Seq(Nat) /\ snt \in [Tool!ToolCall -> -1..3]
    /\ wire = "responses" => \A l \in Tool!ToolCall : layout[l] = 0
    /\ Fine(s) /\ OutAs(s.out, snt)
    /\ e = "no" => Sound(s, snt) /\ Downward(snt)
    /\ e # "no" => s.started = {}
    /\ e = "clean" => \A l \in Tool!ToolCall : snt[l] # Tool!NotBegun => layout[l] \in DOMAIN s.out

ToolInv == ToolInvAt(Tool!Now, toolSent, toolEnded)

Okay(s) == StateOf(s.parts, s.byId, s.last, s.next, s.emitted, s.held, s.started, s.shown, s.out, TRUE)

\* Okay changes nothing but the verdict.
LEMMA OkayFields ==
  ASSUME NEW s
  PROVE  LET r == Okay(s) IN
         /\ r.parts = s.parts /\ r.byId = s.byId /\ r.last = s.last /\ r.next = s.next
         /\ r.emitted = s.emitted /\ r.held = s.held /\ r.started = s.started /\ r.shown = s.shown
         /\ r.out = s.out /\ r.ok = TRUE
         /\ r = StateOf(r.parts, r.byId, r.last, r.next, r.emitted, r.held, r.started, r.shown, r.out, r.ok)
<1>1. PICK yes : yes = TRUE
  OBVIOUS
<1>2. Okay(s) = StateOf(s.parts, s.byId, s.last, s.next, s.emitted, s.held, s.started, s.shown, s.out, yes)
  BY <1>1, Zenon DEF Okay
<1> QED BY <1>1, <1>2 DEF StateOf

\* A fine state is fine with its verdict cleared.
LEMMA OkayFine ==
  ASSUME NEW s, Fine(s)
  PROVE  Fine(Okay(s))
<1> DEFINE r == Okay(s)
<1>1. /\ r.parts = s.parts /\ r.byId = s.byId /\ r.last = s.last /\ r.next = s.next
      /\ r.emitted = s.emitted /\ r.held = s.held /\ r.started = s.started /\ r.shown = s.shown
      /\ r.out = s.out /\ r.ok = TRUE
      /\ r = StateOf(r.parts, r.byId, r.last, r.next, r.emitted, r.held, r.started, r.shown, r.out, r.ok)
  BY OkayFields
<1> HIDE DEF r
<1>2. IsToolState(r)
  BY <1>1 DEF Fine, IsToolState, StateOf
<1>3. Progress(r)
  BY <1>1 DEF Fine, Progress
<1> QED BY <1>2, <1>3 DEF Fine, r

\* A sound state is sound with its verdict cleared.
LEMMA OkaySound ==
  ASSUME NEW s, NEW snt, Sound(s, snt)
  PROVE  Sound(Okay(s), snt)
<1> DEFINE r == Okay(s)
<1>1. /\ r.parts = s.parts /\ r.byId = s.byId /\ r.last = s.last /\ r.next = s.next
      /\ r.emitted = s.emitted /\ r.out = s.out
  BY OkayFields
<1>2. Fine(r)
  BY OkayFine DEF Sound
<1> HIDE DEF r
<1>3. Assembly(r, snt)
  BY <1>1 DEF Sound, Assembly
<1>4. Placed(r, snt)
  BY <1>1 DEF Sound, Placed, PlacedAt
<1> QED BY <1>1, <1>2, <1>3, <1>4 DEF Sound, Gone, r

\* clear() abandons every open call and touches nothing of what was completed.
LEMMA ClearFine ==
  ASSUME NEW s, Fine(s)
  PROVE  LET r == Tool!Clear(s) IN Fine(r) /\ r.out = s.out /\ r.started = {}
<1> DEFINE r == Tool!Clear(s)
           K == DOMAIN s.parts
           text(k) == IF k \in s.started THEN s.shown[k].text ELSE Tool!Visible(s.parts[k])
           sh == [k \in DOMAIN s.shown \cup (K \cap s.started) |->
                     IF k \in K \cap s.started THEN [step |-> "abandoned", text |-> text(k)]
                     ELSE s.shown[k]]
           q == Tool!CloseAll(s, K, "abandoned")
<1>1. s = StateOf(s.parts, s.byId, s.last, s.next, s.emitted, s.held, s.started, s.shown, s.out, s.ok)
  BY DEF Fine, IsToolState, StateOf
<1>2. q = [s EXCEPT !.started = @ \ K, !.shown = sh]
  BY DEF Tool!CloseAll
<1>3. /\ DOMAIN sh = DOMAIN s.shown \cup (K \cap s.started) /\ sh = [k \in DOMAIN sh |-> sh[k]]
      /\ \A k \in K \cap s.started : sh[k].step = "abandoned"
      /\ \A k \in DOMAIN s.shown : k \notin K \cap s.started => sh[k] = s.shown[k]
  <2>1. \A k \in K \cap s.started : sh[k] = [step |-> "abandoned", text |-> text(k)]
    BY Zenon
  <2>2. /\ DOMAIN sh = DOMAIN s.shown \cup (K \cap s.started) /\ sh = [k \in DOMAIN sh |-> sh[k]]
        /\ \A k \in DOMAIN s.shown : k \notin K \cap s.started => sh[k] = s.shown[k]
    BY Zenon
  <2> HIDE DEF sh, text, K
  <2>4. ASSUME NEW k \in K \cap s.started PROVE sh[k].step = "abandoned"
    <3>1. PICK t : sh[k] = [step |-> "abandoned", text |-> t]
      BY <2>1, Zenon
    <3> QED BY <3>1
  <2> QED BY <2>2, <2>4, Zenon
<1> HIDE DEF sh, q
<1>4. q = StateOf(s.parts, s.byId, s.last, s.next, s.emitted, s.held, s.started \ K, sh, s.out, s.ok)
  BY <1>1, <1>2 DEF StateOf
<1>5. r = StateOf(Tool!Nothing, Tool!Nothing, Tool!Nothing, Tool!Nothing, {}, 0, s.started \ K, sh, s.out, s.ok)
  <2>1. r = [q EXCEPT !.parts = Tool!Nothing, !.byId = Tool!Nothing, !.last = Tool!Nothing,
                      !.next = Tool!Nothing, !.emitted = {}, !.held = 0]
    BY DEF Tool!Clear, q
  <2> HIDE DEF r
  <2> QED BY <1>4, <2>1 DEF StateOf
<1> HIDE DEF r
<1>6. /\ r.parts = Tool!Nothing /\ r.started = s.started \ K /\ r.shown = sh
      /\ r.out = s.out /\ r.ok = s.ok
      /\ r = StateOf(r.parts, r.byId, r.last, r.next, r.emitted, r.held, r.started, r.shown, r.out, r.ok)
  BY <1>5 DEF StateOf
<1>7. r.started = {} /\ K \cap s.started = s.started
  BY <1>6 DEF Fine, Progress
<1>8. DOMAIN r.parts = {} /\ r.parts = [k \in DOMAIN r.parts |-> r.parts[k]]
  BY <1>6 DEF Tool!Nothing
<1>9. IsToolState(r)
  BY <1>3, <1>6, <1>8 DEF Fine, IsToolState, StateOf
<1>10. Progress(r)
  <2>1. ASSUME NEW k \in DOMAIN sh
        PROVE  /\ sh[k].step # "started"
               /\ sh[k].step = "ended" =>
                       /\ k[1] \in DOMAIN s.out
                       /\ sh[k].text \in {<<>>, s.out[k[1]][k[2] + 1].args}
    <3>1. CASE k \in s.started
      BY <1>3, <1>7, <3>1
    <3>2. CASE k \notin s.started
      <4>1. k \in DOMAIN s.shown /\ sh[k] = s.shown[k]
        BY <1>3, <1>7, <3>2
      <4> QED BY <3>2, <4>1 DEF Fine, Progress
    <3> QED BY <3>1, <3>2
  <2> QED BY <1>6, <1>7, <2>1 DEF Progress
<1> QED BY <1>6, <1>7, <1>9, <1>10 DEF Fine, r

\* The wire and the layout stay as they are.
LEMMA Carry ==
  ASSUME NEW q, NEW snt, NEW e, ToolInvAt(q, snt, e), layout' = layout, wire' = wire,
         Tool!Now' = q, toolSent' = snt, toolEnded' = e
  PROVE  ToolInv'
<1>1. Tool!ToolCall' = Tool!ToolCall
  BY DEF Tool!ToolCall
<1>2. \A l : Tool!KeyOf(l)' = Tool!KeyOf(l)
  BY DEF Tool!KeyOf, Tool!ToolCall
<1>3. \A c : BegunOf(snt, c)' = BegunOf(snt, c)
  BY DEF BegunOf, Tool!ToolCall
<1>4. OpenOf(q.emitted, snt)' = OpenOf(q.emitted, snt)
  BY DEF OpenOf, Tool!ToolCall
<1>5. Downward(snt)' <=> Downward(snt)
  BY DEF Downward, Tool!ToolCall
<1>6. \A p, l, n : PartAs(p, l, n)' <=> PartAs(p, l, n)
  BY DEF PartAs, IdOf
<1>7. Assembly(q, snt)' <=> Assembly(q, snt)
  BY <1>2, <1>4, <1>6 DEF Assembly
<1>8. \A l : WrittenOf(snt, l)' = WrittenOf(snt, l)
  BY DEF WrittenOf, IdOf
<1>9. \A c : CallsAs(snt, c)' = CallsAs(snt, c)
  BY <1>3, <1>8 DEF CallsAs
<1>10. OutAs(q.out, snt)' <=> OutAs(q.out, snt)
  BY <1>9 DEF OutAs
<1>11. \A c : PlacedAt(q, snt, c)' <=> PlacedAt(q, snt, c)
  BY <1>2, <1>3 DEF PlacedAt
<1>12. Placed(q, snt)' <=> Placed(q, snt)
  BY <1>11 DEF Placed, Gemini, Tool!Choice, Tool!Range
<1>13. Sound(q, snt)' <=> Sound(q, snt)
  BY <1>7, <1>10, <1>12 DEF Sound
<1>14. ToolInvAt(q, snt, e)'
  BY <1>1, <1>5, <1>10, <1>13 DEF ToolInvAt
<1>15. ToolInvAt(Tool!Now, toolSent, toolEnded)' <=> ToolInvAt(q, snt, e)'
  OBVIOUS
<1> QED BY <1>14, <1>15 DEF ToolInv

\* Now is the state of the variables, without an error.
LEMMA NowFields ==
  /\ Tool!Now.parts = parts /\ Tool!Now.byId = byId /\ Tool!Now.last = last
  /\ Tool!Now.next = next /\ Tool!Now.emitted = emitted /\ Tool!Now.held = toolHeld
  /\ Tool!Now.started = started /\ Tool!Now.shown = shown /\ Tool!Now.out = out /\ Tool!Now.ok
  BY DEF Tool!Now

\* After Becomes(s) the variables are the state s.
LEMMA Becoming ==
  ASSUME NEW s, Tool!Becomes(s)
  PROVE  Tool!Now' = Okay(s)
<1>1. /\ parts' = s.parts /\ byId' = s.byId /\ last' = s.last /\ next' = s.next
      /\ emitted' = s.emitted /\ toolHeld' = s.held /\ started' = s.started
      /\ shown' = s.shown /\ out' = s.out
  BY DEF Tool!Becomes
<1> QED BY <1>1, Zenon DEF Tool!Now, Okay, StateOf

\* What a stream that is over keeps.
LEMMA Over ==
  ASSUME ToolInv, NEW s, Fine(s), NEW snt \in [Tool!ToolCall -> -1..3], OutAs(s.out, snt), NEW e,
         e # "no",
         e = "clean" => \A l \in Tool!ToolCall : snt[l] # Tool!NotBegun => layout[l] \in DOMAIN s.out,
         Tool!Becomes(Tool!Clear(s)), toolEnded' = e, toolSent' = snt, layout' = layout, wire' = wire
  PROVE  ToolInv'
<1>1. PICK x : x = Tool!Clear(s)
  OBVIOUS
<1>2. Fine(x) /\ x.out = s.out /\ x.started = {}
  BY <1>1, ClearFine
<1>3. Tool!Now' = Okay(x)
  BY <1>1, Becoming
<1>4. PICK q : q = Okay(x)
  OBVIOUS
<1>5. Fine(q) /\ q.out = s.out /\ q.started = {}
  BY <1>2, <1>4, OkayFine, OkayFields
<1>6. ToolInvAt(q, snt, e)
  BY <1>5 DEF ToolInvAt, ToolInv
<1> QED BY <1>3, <1>4, <1>6, Carry

\* A frame keeps the invariant if the state it makes is sound, or is an
\* error that leaves the completed calls alone.
LEMMA PushedStep ==
  ASSUME ToolInv, NEW s, NEW terminal, NEW snt \in [Tool!ToolCall -> -1..3],
         Tool!Pushed(s, terminal), toolSent' = snt,
         Fine(s), s.ok => Sound(s, snt) /\ Downward(snt), ~ s.ok => OutAs(s.out, snt)
  PROVE  ToolInv'
<1>1. layout' = layout /\ wire' = wire /\ toolEnded = "no"
  BY DEF Tool!Pushed
<1>2. CASE s.ok
  <2>1. Tool!Becomes(s) /\ toolEnded' = "no"
    BY <1>1, <1>2 DEF Tool!Pushed
  <2>2. PICK q : q = Okay(s)
    OBVIOUS
  <2>3. Tool!Now' = q
    BY <2>1, <2>2, Becoming
  <2>4. Sound(q, snt)
    BY <1>2, <2>2, OkaySound
  <2>5. ToolInvAt(q, snt, "no")
    BY <1>2, <2>4 DEF ToolInvAt, ToolInv, Sound
  <2> QED BY <1>1, <2>1, <2>3, <2>5, Carry
<1>3. CASE ~ s.ok
  <2>1. Tool!Becomes(Tool!Clear(s)) /\ toolEnded' = "error"
    BY <1>3 DEF Tool!Pushed
  <2>2. PICK e : e = "error"
    OBVIOUS
  <2>3. e # "no" /\ e # "clean" /\ toolEnded' = e
    BY <2>1, <2>2
  <2> QED BY <1>1, <1>3, <2>1, <2>3, Over
<1> QED BY <1>2, <1>3

\* A completed choice is not touched by what is sent of others.
LEMMA OutKept ==
  ASSUME layout \in Seq(Nat), NEW o, NEW snt, NEW snu, OutAs(o, snt),
         \A l \in Tool!ToolCall : layout[l] \in DOMAIN o => snu[l] = snt[l]
  PROVE  OutAs(o, snu)
<1> SUFFICES ASSUME NEW c \in DOMAIN o PROVE o[c] = CallsAs(snu, c)
  BY DEF OutAs
<1>1. BegunOf(snu, c) = BegunOf(snt, c)
  BY DEF BegunOf
<1> DEFINE B == BegunOf(snt, c)
<1>2. B \in SUBSET Nat /\ IsFiniteSet(B)
  BY BegunFinite
<1>3. \A m \in B : WrittenOf(snu, m) = WrittenOf(snt, m)
  BY DEF BegunOf, WrittenOf
<1>4. \A i \in DOMAIN Tool!InOrder(B) : Tool!InOrder(B)[i] \in B
  <2> HIDE DEF B
  <2>1. Tool!InOrder(B) \in [1..Cardinality(B) -> B]
    BY <1>2, Ordered
  <2> QED BY <2>1
<1>5. CallsAs(snu, c) = CallsAs(snt, c)
  <2> HIDE DEF B
  <2>1. CallsAs(snt, c) = [i \in DOMAIN Tool!InOrder(B) |-> WrittenOf(snt, Tool!InOrder(B)[i])]
    BY DEF CallsAs, B
  <2>2. CallsAs(snu, c) = [i \in DOMAIN Tool!InOrder(B) |-> WrittenOf(snu, Tool!InOrder(B)[i])]
    BY <1>1 DEF CallsAs, B
  <2> QED BY <1>3, <1>4, <2>1, <2>2
<1> QED BY <1>5 DEF OutAs

SentWith(l, n) == IF layout[l] \in emitted THEN toolSent ELSE [toolSent EXCEPT ![l] = n]

\* Sending a frame of an open choice changes nothing that was written of completed ones.
LEMMA SentWithIs ==
  ASSUME ToolInv, toolEnded = "no", NEW l \in Tool!ToolCall, NEW n \in 0..3
  PROVE  /\ SentWith(l, n) \in [Tool!ToolCall -> -1..3]
         /\ OutAs(out, SentWith(l, n))
<1>1. toolSent \in [Tool!ToolCall -> -1..3] /\ layout \in Seq(Nat) /\ OutAs(out, toolSent)
      /\ emitted = DOMAIN out
  BY NowFields DEF ToolInv, ToolInvAt, Sound
<1>2. SentWith(l, n) \in [Tool!ToolCall -> -1..3]
  BY <1>1 DEF SentWith
<1>3. \A m \in Tool!ToolCall : layout[m] \in DOMAIN out => SentWith(l, n)[m] = toolSent[m]
  BY <1>1 DEF SentWith
<1> QED BY <1>1, <1>2, <1>3, OutKept

\* A frame that assembles the part of its own call keeps all calls apart.
LEMMA FrameStep ==
  ASSUME ToolInv, toolEnded = "no", NEW l \in Tool!ToolCall, NEW n \in 0..3,
         toolSent[l] # Tool!NotBegun \/ Tool!Begins(l),
         NEW s, s.parts = parts, s.emitted = emitted, s.out = out,
         NEW r, NEW k, NEW p, PartStep(s, r, k, p), k[1] = layout[l],
         layout[l] \notin emitted =>
            /\ k = Tool!KeyOf(l) /\ PartAs(p, l, n)
            /\ Placed(s, SentWith(l, n)) /\ Gone(s),
         Tool!Pushed(r, {}), Tool!Sends(l, n)
  PROVE  ToolInv'
<1>1. /\ toolSent \in [Tool!ToolCall -> -1..3] /\ layout \in Seq(Nat)
      /\ Sound(Tool!Now, toolSent) /\ Downward(toolSent)
  BY DEF ToolInv, ToolInvAt
<1>2. PICK snt : snt = SentWith(l, n)
  OBVIOUS
<1>3. toolSent' = snt
  BY <1>2 DEF SentWith, Tool!Sends
<1>4. snt \in [Tool!ToolCall -> -1..3] /\ OutAs(out, snt)
  BY <1>2, SentWithIs
<1>5. Fine(r) /\ SameBut(s, r)
  BY DEF PartStep
<1>6. r.out = out /\ r.emitted = emitted
  BY <1>5 DEF SameBut
<1>7. ASSUME r.ok PROVE Sound(r, snt) /\ Downward(snt)
  <2>1. layout[l] \notin emitted /\ k = Tool!KeyOf(l) /\ PartAs(p, l, n)
    BY <1>7 DEF PartStep
  <2>2. snt = [toolSent EXCEPT ![l] = n]
    BY <1>2, <2>1 DEF SentWith
  <2>3. /\ snt[l] = n /\ n # Tool!NotBegun /\ \A m \in Tool!ToolCall : m # l => snt[m] = toolSent[m]
    BY <1>1, <2>2 DEF Tool!NotBegun
  <2>4. OpenOf(emitted, snt) = OpenOf(emitted, toolSent) \cup {l}
    BY <2>1, <2>3 DEF OpenOf
  <2>5. /\ DOMAIN r.parts = DOMAIN parts \cup {Tool!KeyOf(l)} /\ r.parts[Tool!KeyOf(l)] = p
        /\ \A x \in DOMAIN parts : x # Tool!KeyOf(l) => r.parts[x] = parts[x]
    BY <1>7, <2>1 DEF PartStep
  <2>6. /\ DOMAIN parts = {Tool!KeyOf(m) : m \in OpenOf(emitted, toolSent)}
        /\ \A m \in OpenOf(emitted, toolSent) : PartAs(parts[Tool!KeyOf(m)], m, toolSent[m])
    BY <1>1, NowFields DEF Sound, Assembly
  <2>7. DOMAIN r.parts = {Tool!KeyOf(m) : m \in OpenOf(emitted, snt)}
    BY <2>4, <2>5, <2>6
  <2>8. ASSUME NEW m \in OpenOf(emitted, snt) PROVE PartAs(r.parts[Tool!KeyOf(m)], m, snt[m])
    <3>1. CASE m = l
      BY <2>1, <2>3, <2>5, <3>1
    <3>2. CASE m # l
      <4>1. m \in OpenOf(emitted, toolSent) /\ m \in Tool!ToolCall
        BY <2>4, <3>2 DEF OpenOf
      <4>2. Tool!KeyOf(m) # Tool!KeyOf(l) /\ Tool!KeyOf(m) \in DOMAIN parts
        BY <1>1, <2>6, <3>2, <4>1, KeyInjective
      <4>3. r.parts[Tool!KeyOf(m)] = parts[Tool!KeyOf(m)] /\ snt[m] = toolSent[m]
        BY <2>3, <2>5, <3>2, <4>1, <4>2
      <4> QED BY <2>6, <4>1, <4>3
    <3> QED BY <3>1, <3>2
  <2>9. Assembly(r, snt)
    BY <1>6, <2>7, <2>8 DEF Assembly
  <2>10. Placed(s, snt) /\ Gone(s)
    BY <1>2, <2>1
  <2>11. Placed(r, snt) /\ Gone(r)
    BY <1>5, <2>10 DEF Placed, PlacedAt, Gone, SameBut
  <2>12. r.emitted = DOMAIN r.out
    BY <1>1, <1>6, NowFields DEF Sound
  <2>13. Downward(snt)
    <3> SUFFICES ASSUME NEW x \in Tool!ToolCall, NEW y \in Tool!ToolCall, y < x,
                        snt[x] # Tool!NotBegun
                 PROVE  snt[y] # Tool!NotBegun
      BY DEF Downward
    <3>1. CASE y = l
      BY <2>3, <3>1
    <3>2. CASE y # l /\ x = l
      <4>1. toolSent[y] # Tool!NotBegun
        BY <1>1, <3>2 DEF Downward, Tool!Begins
      <4> QED BY <2>3, <3>2, <4>1
    <3>3. CASE y # l /\ x # l
      BY <1>1, <2>3, <3>3 DEF Downward
    <3> QED BY <3>1, <3>2, <3>3
  <2> QED BY <1>4, <1>5, <1>6, <2>9, <2>11, <2>12, <2>13 DEF Sound
<1>8. ~ r.ok => OutAs(r.out, snt)
  BY <1>4, <1>6
<1> QED BY <1>3, <1>4, <1>5, <1>7, <1>8, PushedStep

\* The part that a piece makes of p.
Result(p, ups) ==
    CASE Len(ups) = 1 -> Tool!Assigned(p, ups[1])
      [] Len(ups) = 2 -> Tool!Assigned(Tool!Assigned(p, ups[1]), ups[2])
      [] Len(ups) = 3 -> Tool!Assigned(Tool!Assigned(Tool!Assigned(p, ups[1]), ups[2]), ups[3])
      [] OTHER -> Tool!Assigned(Tool!Assigned(Tool!Assigned(Tool!Assigned(p, ups[1]), ups[2]), ups[3]), ups[4])

Updates(ups) == Len(ups) \in 1..4 /\ \A n \in 1..Len(ups) : ups[n] \in ToolUpdate

\* A list of updates changes one part, as if assigned to it one by one.
LEMMA PieceResult ==
  ASSUME NEW s, NEW k, NEW ups, Fine(s), s.ok, Updates(ups)
  PROVE  PartStep(s, Tool!Applied(s, k, ups), k, Result(PartAt(s, k), ups))
<1>1. PICK p1 : p1 = Tool!Assigned(PartAt(s, k), ups[1])
  OBVIOUS
<1>2. PICK p2 : p2 = Tool!Assigned(p1, ups[2])
  OBVIOUS
<1>3. PICK p3 : p3 = Tool!Assigned(p2, ups[3])
  OBVIOUS
<1>4. PICK p4 : p4 = Tool!Assigned(p3, ups[4])
  OBVIOUS
<1>5. Len(ups) \in 1..4 /\ \A n \in 1..Len(ups) : ups[n] \in ToolUpdate
  BY DEF Updates
<1>6. PartStep(s, Tool!Applied(s, k, ups), k,
               CASE Len(ups) = 1 -> p1 [] Len(ups) = 2 -> p2 [] Len(ups) = 3 -> p3 [] OTHER -> p4)
  BY <1>1, <1>2, <1>3, <1>4, <1>5, Piece
<1>7. Result(PartAt(s, k), ups)
        = CASE Len(ups) = 1 -> p1 [] Len(ups) = 2 -> p2 [] Len(ups) = 3 -> p3 [] OTHER -> p4
  BY <1>1, <1>2, <1>3, <1>4 DEF Result
<1> QED BY <1>6, <1>7, Zenon

\* The result of one update.
LEMMA Result1 ==
  ASSUME NEW a \in ToolUpdate, NEW ups, ups = <<a>>
  PROVE  Updates(ups) /\ \A p : Result(p, ups) = Tool!Assigned(p, a)
<1>1. Len(ups) = 1 /\ ups[1] = a
  OBVIOUS
<1>2. \A i \in 1..1 : i = 1
  OBVIOUS
<1>3. Updates(ups)
  BY <1>1, <1>2 DEF Updates
<1>4. \A p : Result(p, ups) = Tool!Assigned(p, a)
  BY <1>1 DEF Result
<1> QED BY <1>3, <1>4

\* The result of two updates.
LEMMA Result2 ==
  ASSUME NEW a \in ToolUpdate, NEW b \in ToolUpdate, NEW ups, ups = <<a, b>>
  PROVE  Updates(ups) /\ \A p : Result(p, ups) = Tool!Assigned(Tool!Assigned(p, a), b)
<1>1. Len(ups) = 2 /\ ups[1] = a /\ ups[2] = b
  OBVIOUS
<1>2. \A i \in 1..2 : i = 1 \/ i = 2
  OBVIOUS
<1>3. Updates(ups)
  BY <1>1, <1>2 DEF Updates
<1>4. \A p : Result(p, ups) = Tool!Assigned(Tool!Assigned(p, a), b)
  BY <1>1 DEF Result
<1> QED BY <1>3, <1>4

\* The result of three updates.
LEMMA Result3 ==
  ASSUME NEW a \in ToolUpdate, NEW b \in ToolUpdate, NEW c \in ToolUpdate, NEW ups, ups = <<a, b, c>>
  PROVE  Updates(ups) /\ \A p : Result(p, ups) = Tool!Assigned(Tool!Assigned(Tool!Assigned(p, a), b), c)
<1>1. Len(ups) = 3 /\ ups[1] = a /\ ups[2] = b /\ ups[3] = c
  OBVIOUS
<1>2. \A i \in 1..3 : i = 1 \/ i = 2 \/ i = 3
  OBVIOUS
<1>3. Updates(ups)
  BY <1>1, <1>2 DEF Updates
<1>4. \A p : Result(p, ups) = Tool!Assigned(Tool!Assigned(Tool!Assigned(p, a), b), c)
  BY <1>1 DEF Result
<1> QED BY <1>3, <1>4

\* The result of four updates.
LEMMA Result4 ==
  ASSUME NEW a \in ToolUpdate, NEW b \in ToolUpdate, NEW c \in ToolUpdate, NEW d \in ToolUpdate, NEW ups, ups = <<a, b, c, d>>
  PROVE  Updates(ups) /\ \A p : Result(p, ups) = Tool!Assigned(Tool!Assigned(Tool!Assigned(Tool!Assigned(p, a), b), c), d)
<1>1. Len(ups) = 4 /\ ups[1] = a /\ ups[2] = b /\ ups[3] = c /\ ups[4] = d
  OBVIOUS
<1>2. \A i \in 1..4 : i = 1 \/ i = 2 \/ i = 3 \/ i = 4
  OBVIOUS
<1>3. Updates(ups)
  BY <1>1, <1>2 DEF Updates
<1>4. \A p : Result(p, ups) = Tool!Assigned(Tool!Assigned(Tool!Assigned(Tool!Assigned(p, a), b), c), d)
  BY <1>1 DEF Result
<1> QED BY <1>3, <1>4

\* The updates that the parsers make are well typed.
LEMMA UTyped ==
  /\ \A v \in Nat : /\ Tool!U("id", v) \in ToolUpdate /\ Tool!U("name", v) \in ToolUpdate
                    /\ Tool!U("nameFragment", v) \in ToolUpdate
  /\ \A v \in ToolArgs : /\ Tool!U("start", v) \in ToolUpdate /\ Tool!U("whole", v) \in ToolUpdate
                         /\ Tool!U("fragment", v) \in ToolUpdate
  /\ Tool!U("end", 0) \in ToolUpdate
<1> HIDE DEF ToolArgs
<1> QED BY DEF Tool!U, ToolUpdate

Named(p, l) == p \in ToolPart /\ p.name = l /\ p.id = IdOf(l)

\* What each update does to a part, field by field.
LEMMA Identified ==
  ASSUME NEW p \in ToolPart, NEW l \in Nat
  PROVE  LET q == Tool!Assigned(p, Tool!U("id", l)) IN
         q \in ToolPart /\ q.name = p.name /\ q.id = l /\ q.args = p.args /\ q.initial = p.initial
<1> DEFINE u == Tool!U("id", l)
<1>1. u \in ToolUpdate /\ u.op = "id" /\ u.v = l
  BY UTyped DEF Tool!U
<1> HIDE DEF u
<1>2. Tool!Assigned(p, u) \in ToolPart /\ Tool!Assigned(p, u) = Part(p.name, l, p.args, p.initial, p.ended)
  BY <1>1, AssignedTyped, AssignedBy, Zenon
<1> QED BY <1>2 DEF u, Part

\* A name update changes the name only.
LEMMA NamedBy ==
  ASSUME NEW p \in ToolPart, NEW l \in Nat, NEW op \in {"name", "nameFragment"}
  PROVE  LET q == Tool!Assigned(p, Tool!U(op, l)) IN
         q \in ToolPart /\ q.name = l /\ q.id = p.id /\ q.args = p.args /\ q.initial = p.initial
<1> DEFINE u == Tool!U(op, l)
<1>1. u \in ToolUpdate /\ u.op \in {"name", "nameFragment"} /\ u.v = l
  BY UTyped DEF Tool!U
<1> HIDE DEF u
<1>2. Tool!Assigned(p, u) \in ToolPart /\ Tool!Assigned(p, u) = Part(l, p.id, p.args, p.initial, p.ended)
  BY <1>1, AssignedTyped, AssignedBy, Zenon
<1> QED BY <1>2 DEF u, Part

\* A start update leaves a placeholder text.
LEMMA StartedBy ==
  ASSUME NEW p \in ToolPart, NEW v \in ToolArgs
  PROVE  LET q == Tool!Assigned(p, Tool!U("start", v)) IN
         q \in ToolPart /\ q.name = p.name /\ q.id = p.id /\ q.args = v /\ q.initial
<1> DEFINE u == Tool!U("start", v)
<1>1. u \in ToolUpdate /\ u.op = "start" /\ u.v = v
  BY UTyped DEF Tool!U
<1> HIDE DEF u
<1>2. Tool!Assigned(p, u) \in ToolPart /\ Tool!Assigned(p, u) = Part(p.name, p.id, v, TRUE, p.ended)
  BY <1>1, AssignedTyped, AssignedBy, Zenon
<1> QED BY <1>2 DEF u, Part

\* A whole-text update leaves that text.
LEMMA WrittenBy ==
  ASSUME NEW p \in ToolPart, NEW v \in ToolArgs
  PROVE  LET q == Tool!Assigned(p, Tool!U("whole", v)) IN
         q \in ToolPart /\ q.name = p.name /\ q.id = p.id /\ q.args = v /\ ~ q.initial
<1> DEFINE u == Tool!U("whole", v)
<1>1. u \in ToolUpdate /\ u.op = "whole" /\ u.v = v
  BY UTyped DEF Tool!U
<1> HIDE DEF u
<1>2. /\ Tool!Assigned(p, u) \in ToolPart
      /\ Tool!Assigned(p, u) = Part(p.name, p.id, v, FALSE, p.ended /\ p.args = v)
  BY <1>1, AssignedTyped, AssignedBy, Zenon
<1> QED BY <1>2 DEF u, Part

\* A fragment extends the visible text.
LEMMA ExtendedBy ==
  ASSUME NEW p \in ToolPart, NEW v \in ToolArgs
  PROVE  LET q == Tool!Assigned(p, Tool!U("fragment", v)) IN
         /\ q \in ToolPart /\ q.name = p.name /\ q.id = p.id /\ q.args = Tool!Visible(p) \o v
         /\ ~ q.initial
<1> DEFINE u == Tool!U("fragment", v)
<1>1. u \in ToolUpdate /\ u.op = "fragment" /\ u.v = v
  BY UTyped DEF Tool!U
<1> HIDE DEF u
<1>2. /\ Tool!Assigned(p, u) \in ToolPart
      /\ Tool!Assigned(p, u) = Part(p.name, p.id, Tool!Visible(p) \o v, FALSE, p.ended)
  BY <1>1, AssignedTyped, AssignedBy, Zenon
<1> QED BY <1>2 DEF u, Part

\* An end changes no text.
LEMMA EndedBy ==
  ASSUME NEW p \in ToolPart
  PROVE  LET q == Tool!Assigned(p, Tool!U("end", 0)) IN
         q \in ToolPart /\ q.name = p.name /\ q.id = p.id /\ q.args = p.args /\ q.initial = p.initial
<1> DEFINE u == Tool!U("end", 0)
<1>1. u \in ToolUpdate /\ u.op = "end"
  BY UTyped DEF Tool!U
<1> HIDE DEF u
<1>2. Tool!Assigned(p, u) \in ToolPart /\ Tool!Assigned(p, u) = Part(p.name, p.id, p.args, p.initial, TRUE)
  BY <1>1, AssignedTyped, AssignedBy, Zenon
<1> QED BY <1>2 DEF u, Part

\* The texts a provider writes, and how its fragments join.
LEMMA TextTyped ==
  ASSUME NEW l \in Nat
  PROVE  /\ Tool!Whole(l) \in ToolArgs /\ Tool!Braces \in ToolArgs /\ Tool!Revised(l) \in ToolArgs
         /\ \A n \in 0..3 : Tool!Text(l, n) \in ToolArgs
         /\ <<Tool!Whole(l)[1]>> \in ToolArgs /\ <<Tool!Whole(l)[2]>> \in ToolArgs
         /\ Tool!Text(l, 0) = <<>> /\ Tool!Text(l, 1) = <<Tool!Whole(l)[1]>>
         /\ Tool!Text(l, 2) = Tool!Whole(l)
         /\ <<>> \o <<>> = <<>>
         /\ <<>> \o <<Tool!Whole(l)[1]>> = Tool!Text(l, 1)
         /\ Tool!Text(l, 1) \o <<Tool!Whole(l)[2]>> = Tool!Text(l, 2)
<1> DEFINE S == Int \X {"open", "close"}
<1>1. \A i \in Int : <<i, "open">> \in S /\ <<i, "close">> \in S
  OBVIOUS
<1> HIDE DEF S
<1>2. \A i \in Int : Tool!Whole(i) \in Seq(S) /\ Tool!Whole(i) = <<<<i, "open">>, <<i, "close">>>>
  <2> SUFFICES ASSUME NEW i \in Int
               PROVE  Tool!Whole(i) \in Seq(S) /\ Tool!Whole(i) = <<<<i, "open">>, <<i, "close">>>>
    OBVIOUS
  <2>1. PICK a \in S, b \in S : a = <<i, "open">> /\ b = <<i, "close">>
    BY <1>1
  <2>2. Tool!Whole(i) = <<a, b>>
    BY <2>1, Zenon DEF Tool!Whole
  <2>3. <<a, b>> \in Seq(S)
    OBVIOUS
  <2> QED BY <2>1, <2>2, <2>3, Zenon
<1>3. Tool!Whole(l)[1] = <<l, "open">> /\ Tool!Whole(l)[2] = <<l, "close">>
  BY <1>2
<1>4. <<Tool!Whole(l)[1]>> \in Seq(S) /\ <<Tool!Whole(l)[2]>> \in Seq(S) /\ <<>> \in Seq(S)
  BY <1>1, <1>3
<1>5. Tool!Braces \in Seq(S) /\ Tool!Revised(l) \in Seq(S) /\ Tool!Whole(l) \in Seq(S)
  BY <1>2 DEF Tool!Braces, Tool!Revised
<1>6. /\ Tool!Text(l, 0) = <<>> /\ Tool!Text(l, 1) = <<Tool!Whole(l)[1]>>
      /\ Tool!Text(l, 2) = Tool!Whole(l) /\ Tool!Text(l, 3) = Tool!Revised(l)
  BY DEF Tool!Text
<1>7. \A n \in 0..3 : Tool!Text(l, n) \in Seq(S)
  <2>1. \A n \in 0..3 : n = 0 \/ n = 1 \/ n = 2 \/ n = 3
    OBVIOUS
  <2> QED BY <1>4, <1>5, <1>6, <2>1
<1>8. <<>> \o <<>> = <<>> /\ <<>> \o <<Tool!Whole(l)[1]>> = <<Tool!Whole(l)[1]>>
  OBVIOUS
<1>9. <<Tool!Whole(l)[1]>> \o <<Tool!Whole(l)[2]>> = Tool!Whole(l)
  <2>0. l \in Int
    OBVIOUS
  <2>1. PICK a \in S, b \in S : a = <<l, "open">> /\ b = <<l, "close">>
    BY <1>1, <2>0
  <2> DEFINE d == <<a>> \o <<b>>
  <2>2. <<a>> \in Seq(S) /\ Len(<<a>>) = 1 /\ <<b>> \in Seq(S) /\ Len(<<b>>) = 1
        /\ <<a>>[1] = a /\ <<b>>[1] = b
    OBVIOUS
  <2>3. /\ d \in Seq(S) /\ Len(d) = 1 + 1
        /\ \A i \in 1..1 + 1 : d[i] = IF i <= 1 THEN <<a>>[i] ELSE <<b>>[i - 1]
    BY <2>2, ConcatProperties
  <2> HIDE DEF d
  <2>4. d[1] = a /\ d[2] = b /\ Len(d) = 2
    BY <2>2, <2>3
  <2>5. <<a, b>> \in Seq(S) /\ Len(<<a, b>>) = 2 /\ <<a, b>>[1] = a /\ <<a, b>>[2] = b
    OBVIOUS
  <2>6. \A i \in 1..Len(d) : d[i] = <<a, b>>[i]
    BY <2>4, <2>5
  <2>7. d = <<a, b>>
    BY <2>3, <2>4, <2>5, <2>6, SeqEqual
  <2>8. Tool!Whole(l) = <<a, b>> /\ Tool!Whole(l)[1] = a /\ Tool!Whole(l)[2] = b
    BY <1>3, <2>1, Zenon DEF Tool!Whole
  <2> QED BY <2>7, <2>8, Zenon DEF d
<1> QED BY <1>4, <1>5, <1>6, <1>7, <1>8, <1>9 DEF ToolArgs, S

\* The part of a call whose choice is open: as it was written so far, or new.
LEMMA AtKey ==
  ASSUME ToolInv, toolEnded = "no", NEW l \in Tool!ToolCall, layout[l] \notin emitted
  PROVE  /\ toolSent[l] # Tool!NotBegun =>
               /\ Tool!KeyOf(l) \in DOMAIN parts
               /\ PartAs(PartAt(Tool!Now, Tool!KeyOf(l)), l, toolSent[l])
               /\ PartAs(parts[Tool!KeyOf(l)], l, toolSent[l])
         /\ toolSent[l] = Tool!NotBegun =>
               Tool!KeyOf(l) \notin DOMAIN parts /\ PartAt(Tool!Now, Tool!KeyOf(l)) = Tool!NewPart
<1>1. layout \in Seq(Nat) /\ Sound(Tool!Now, toolSent)
  BY DEF ToolInv, ToolInvAt
<1>2. /\ DOMAIN parts = {Tool!KeyOf(m) : m \in OpenOf(emitted, toolSent)}
      /\ \A m \in OpenOf(emitted, toolSent) : PartAs(parts[Tool!KeyOf(m)], m, toolSent[m])
  BY <1>1, NowFields DEF Sound, Assembly
<1>3. PartAt(Tool!Now, Tool!KeyOf(l))
        = IF Tool!KeyOf(l) \in DOMAIN parts THEN parts[Tool!KeyOf(l)] ELSE Tool!NewPart
  BY NowFields DEF PartAt
<1>4. CASE toolSent[l] # Tool!NotBegun
  <2>1. l \in OpenOf(emitted, toolSent)
    BY <1>4 DEF OpenOf
  <2> QED BY <1>2, <1>3, <1>4, <2>1
<1>5. CASE toolSent[l] = Tool!NotBegun
  <2>1. l \notin OpenOf(emitted, toolSent) /\ OpenOf(emitted, toolSent) \subseteq Tool!ToolCall
    BY <1>5 DEF OpenOf
  <2>2. Tool!KeyOf(l) \notin DOMAIN parts
    BY <1>1, <1>2, <2>1, KeyInjective
  <2> QED BY <1>3, <1>5, <2>2
<1> QED BY <1>4, <1>5

\* A call's number, key, progress and id are of their types.
LEMMA CallIs ==
  ASSUME ToolInv, NEW l \in Tool!ToolCall
  PROVE  l \in Nat /\ l # 0 /\ Tool!KeyOf(l)[1] = layout[l] /\ toolSent[l] \in -1..3 /\ IdOf(l) \in Nat
<1>1. layout \in Seq(Nat) /\ toolSent \in [Tool!ToolCall -> -1..3]
  BY DEF ToolInv, ToolInvAt
<1>2. l \in 1..Len(layout) /\ Len(layout) \in Nat
  BY <1>1, CallsFinite
<1> QED BY <1>1, <1>2, KeyIs DEF IdOf

\* The next fragment of a call's own text brings its part one further.
LEMMA Grows ==
  ASSUME NEW l \in Nat, NEW p, NEW n \in {0, 1}, PartAs(p, l, n)
  PROVE  PartAs(Tool!Assigned(p, Tool!U("fragment", <<Tool!Whole(l)[n + 1]>>)), l, n + 1)
<1>1. PICK v \in ToolArgs : v = <<Tool!Whole(l)[n + 1]>>
  <2>1. CASE n = 0
    <3>1. n + 1 = 1
      BY <2>1
    <3> QED BY <3>1, TextTyped
  <2>2. CASE n = 1
    <3>1. n + 1 = 2
      BY <2>2
    <3> QED BY <3>1, TextTyped
  <2> QED BY <2>1, <2>2
<1>2. PICK q : q = Tool!Assigned(p, Tool!U("fragment", v))
  OBVIOUS
<1>3. p \in ToolPart /\ p.name = l /\ p.id = IdOf(l)
  BY DEF PartAs
<1>4. /\ q \in ToolPart /\ q.name = l /\ q.id = IdOf(l) /\ q.args = Tool!Visible(p) \o v /\ ~ q.initial
  BY <1>2, <1>3, ExtendedBy
<1>5. q.args = Tool!Text(l, n + 1)
  <2>1. CASE n = 0
    <3>1. Tool!Visible(p) = <<>>
      BY <2>1 DEF PartAs, Tool!Visible
    <3>2. v = <<Tool!Whole(l)[1]>> /\ n + 1 = 1
      BY <1>1, <2>1
    <3> QED BY <1>4, <3>1, <3>2, TextTyped
  <2>2. CASE n = 1
    <3>1. Tool!Visible(p) = Tool!Text(l, 1)
      BY <2>2 DEF PartAs, Tool!Visible
    <3>2. v = <<Tool!Whole(l)[2]>> /\ n + 1 = 2
      BY <1>1, <2>2
    <3> QED BY <1>4, <3>1, <3>2, TextTyped
  <2> QED BY <2>1, <2>2
<1>6. n + 1 \in 0..3 /\ n + 1 > 0
  OBVIOUS
<1>7. PartAs(q, l, n + 1)
  BY <1>4, <1>5, <1>6 DEF PartAs
<1> QED BY <1>1, <1>2, <1>7

\* A call's own text, given whole, puts its part where that text is.
LEMMA Wholly ==
  ASSUME NEW l \in Nat, NEW p, Named(p, l), NEW n \in 0..3, n = 0 => wire \notin Placeholder
  PROVE  PartAs(Tool!Assigned(p, Tool!U("whole", Tool!Text(l, n))), l, n)
<1>1. PICK v \in ToolArgs : v = Tool!Text(l, n)
  BY TextTyped
<1>2. PICK q : q = Tool!Assigned(p, Tool!U("whole", v))
  OBVIOUS
<1>3. q \in ToolPart /\ q.name = l /\ q.id = IdOf(l) /\ q.args = v /\ ~ q.initial
  BY <1>2, WrittenBy DEF Named
<1>4. n = 0 => v = <<>>
  BY <1>1, TextTyped
<1>5. PartAs(q, l, n)
  BY <1>1, <1>3, <1>4 DEF PartAs
<1> QED BY <1>1, <1>2, <1>5

\* A placeholder puts a named part at its beginning.
LEMMA Held ==
  ASSUME NEW l \in Nat, NEW p, Named(p, l)
  PROVE  /\ wire \in Placeholder => PartAs(Tool!Assigned(p, Tool!U("start", Tool!Braces)), l, 0)
         /\ wire \notin Placeholder => PartAs(Tool!Assigned(p, Tool!U("start", <<>>)), l, 0)
<1>1. Tool!Braces \in ToolArgs /\ <<>> \in ToolArgs
  BY TextTyped, EmptySeq DEF ToolArgs
<1>2. ASSUME NEW v \in ToolArgs, v = IF wire \in Placeholder THEN Tool!Braces ELSE <<>>
      PROVE  PartAs(Tool!Assigned(p, Tool!U("start", v)), l, 0)
  <2>1. PICK q : q = Tool!Assigned(p, Tool!U("start", v))
    OBVIOUS
  <2>2. q \in ToolPart /\ q.name = l /\ q.id = IdOf(l) /\ q.args = v /\ q.initial
    BY <2>1, StartedBy DEF Named
  <2>3. PartAs(q, l, 0)
    BY <1>2, <2>2 DEF PartAs
  <2> QED BY <2>1, <2>3
<1> QED BY <1>1, <1>2

\* An end leaves a call's part where it is.
LEMMA Closes ==
  ASSUME NEW l \in Nat, NEW p, NEW n, PartAs(p, l, n)
  PROVE  PartAs(Tool!Assigned(p, Tool!U("end", 0)), l, n)
<1>1. PICK q : q = Tool!Assigned(p, Tool!U("end", 0))
  OBVIOUS
<1>2. p \in ToolPart
  BY DEF PartAs
<1>3. q \in ToolPart /\ q.name = p.name /\ q.id = p.id /\ q.args = p.args /\ q.initial = p.initial
  BY <1>1, <1>2, EndedBy
<1>4. PartAs(q, l, n)
  BY <1>3 DEF PartAs
<1> QED BY <1>1, <1>4

\* An id and a name, whichever of them the wire has.
LEMMA Introduced ==
  ASSUME NEW l \in Nat, NEW p \in ToolPart, NEW op \in {"name", "nameFragment"},
         wire # "gemini_idless"
  PROVE  LET q == Tool!Assigned(Tool!Assigned(p, Tool!U("id", l)), Tool!U(op, l)) IN
         Named(q, l) /\ q.args = p.args /\ q.initial = p.initial
<1>1. PICK o : o = Tool!Assigned(p, Tool!U("id", l))
  OBVIOUS
<1>2. o \in ToolPart /\ o.id = l /\ o.args = p.args /\ o.initial = p.initial
  BY <1>1, Identified
<1>3. PICK q : q = Tool!Assigned(o, Tool!U(op, l))
  OBVIOUS
<1>4. q \in ToolPart /\ q.name = l /\ q.id = o.id /\ q.args = o.args /\ q.initial = o.initial
  BY <1>2, <1>3, NamedBy
<1>5. Named(q, l) /\ q.args = p.args /\ q.initial = p.initial
  BY <1>2, <1>4 DEF Named, IdOf
<1> QED BY <1>1, <1>3, <1>5

\* The part of a call has its name and id.
LEMMA PartAsNamed ==
  ASSUME NEW l, NEW p, NEW n, PartAs(p, l, n)
  PROVE  Named(p, l)
  BY DEF PartAs, Named

\* A frame of a wire other than Gemini's.
LEMMA NowFrame ==
  ASSUME ToolInv, toolEnded = "no", ~ Gemini, NEW l \in Tool!ToolCall, NEW n \in 0..3,
         toolSent[l] # Tool!NotBegun \/ Tool!Begins(l),
         NEW k, NEW ups, Updates(ups), k[1] = layout[l],
         layout[l] \notin emitted =>
            k = Tool!KeyOf(l) /\ PartAs(Result(PartAt(Tool!Now, Tool!KeyOf(l)), ups), l, n),
         Tool!Pushed(Tool!Applied(Tool!Now, k, ups), {}), Tool!Sends(l, n)
  PROVE  ToolInv'
<1>1. Sound(Tool!Now, toolSent) /\ Fine(Tool!Now) /\ Tool!Now.ok
  BY NowFields DEF ToolInv, ToolInvAt, Sound
<1>2. PICK s : s = Tool!Now
  OBVIOUS
<1>3. PICK r : r = Tool!Applied(s, k, ups)
  OBVIOUS
<1>4. PICK p : p = Result(PartAt(s, k), ups)
  OBVIOUS
<1>5. PartStep(s, r, k, p)
  BY <1>1, <1>2, <1>3, <1>4, PieceResult
<1>6. s.parts = parts /\ s.emitted = emitted /\ s.out = out
  BY <1>2, NowFields
<1>7. Placed(s, SentWith(l, n)) /\ Gone(s)
  BY <1>1, <1>2 DEF Placed, Sound
<1>8. layout[l] \notin emitted => k = Tool!KeyOf(l) /\ PartAs(p, l, n)
  BY <1>2, <1>4
<1>9. Tool!Pushed(r, {})
  BY <1>2, <1>3
<1> QED BY <1>5, <1>6, <1>7, <1>8, <1>9, FrameStep

\* Three updates and one are four.
LEMMA Joined31 ==
  ASSUME NEW a, NEW b, NEW c, NEW d
  PROVE  <<a, b, c>> \o <<d>> = <<a, b, c, d>>
<1> DEFINE S == {a, b, c, d}
           x == <<a, b, c>>
           y == <<d>>
           z == <<a, b, c, d>>
           d0 == x \o y
<1>1. x \in Seq(S) /\ Len(x) = 3 /\ x[1] = a /\ x[2] = b /\ x[3] = c
  OBVIOUS
<1>2. y \in Seq(S) /\ Len(y) = 1 /\ y[1] = d
  OBVIOUS
<1>3. z \in Seq(S) /\ Len(z) = 4 /\ z[1] = a /\ z[2] = b /\ z[3] = c /\ z[4] = d
  OBVIOUS
<1> HIDE DEF S, x, y, z
<1>4. /\ d0 \in Seq(S) /\ Len(d0) = Len(x) + Len(y)
      /\ \A i \in 1..Len(x) + Len(y) : d0[i] = IF i <= Len(x) THEN x[i] ELSE y[i - Len(x)]
  BY <1>1, <1>2, ConcatProperties
<1> HIDE DEF d0
<1>5. Len(d0) = 4 /\ d0[1] = a /\ d0[2] = b /\ d0[3] = c /\ d0[4] = d
  BY <1>1, <1>2, <1>4
<1>6. \A i \in 1..4 : i = 1 \/ i = 2 \/ i = 3 \/ i = 4
  OBVIOUS
<1>7. \A i \in 1..Len(d0) : d0[i] = z[i]
  BY <1>3, <1>5, <1>6
<1>8. d0 = z
  BY <1>3, <1>4, <1>5, <1>7, SeqEqual
<1> QED BY <1>8 DEF d0, x, y, z

\* One update and one are two.
LEMMA Joined11 ==
  ASSUME NEW a, NEW b
  PROVE  <<a>> \o <<b>> = <<a, b>>
<1> DEFINE S == {a, b}
           x == <<a>>
           y == <<b>>
           z == <<a, b>>
           d0 == x \o y
<1>1. x \in Seq(S) /\ Len(x) = 1 /\ x[1] = a
  OBVIOUS
<1>2. y \in Seq(S) /\ Len(y) = 1 /\ y[1] = b
  OBVIOUS
<1>3. z \in Seq(S) /\ Len(z) = 2 /\ z[1] = a /\ z[2] = b
  OBVIOUS
<1> HIDE DEF S, x, y, z
<1>4. /\ d0 \in Seq(S) /\ Len(d0) = Len(x) + Len(y)
      /\ \A i \in 1..Len(x) + Len(y) : d0[i] = IF i <= Len(x) THEN x[i] ELSE y[i - Len(x)]
  BY <1>1, <1>2, ConcatProperties
<1> HIDE DEF d0
<1>5. Len(d0) = 2 /\ d0[1] = a /\ d0[2] = b
  BY <1>1, <1>2, <1>4
<1>6. \A i \in 1..2 : i = 1 \/ i = 2
  OBVIOUS
<1>7. \A i \in 1..Len(d0) : d0[i] = z[i]
  BY <1>3, <1>5, <1>6
<1>8. d0 = z
  BY <1>3, <1>4, <1>5, <1>7, SeqEqual
<1> QED BY <1>8 DEF d0, x, y, z

\* One update and two are three.
LEMMA Joined12 ==
  ASSUME NEW a, NEW b, NEW c
  PROVE  <<a>> \o <<b, c>> = <<a, b, c>>
<1> DEFINE S == {a, b, c}
           x == <<a>>
           y == <<b, c>>
           z == <<a, b, c>>
           d0 == x \o y
<1>1. x \in Seq(S) /\ Len(x) = 1 /\ x[1] = a
  OBVIOUS
<1>2. y \in Seq(S) /\ Len(y) = 2 /\ y[1] = b /\ y[2] = c
  OBVIOUS
<1>3. z \in Seq(S) /\ Len(z) = 3 /\ z[1] = a /\ z[2] = b /\ z[3] = c
  OBVIOUS
<1> HIDE DEF S, x, y, z
<1>4. /\ d0 \in Seq(S) /\ Len(d0) = Len(x) + Len(y)
      /\ \A i \in 1..Len(x) + Len(y) : d0[i] = IF i <= Len(x) THEN x[i] ELSE y[i - Len(x)]
  BY <1>1, <1>2, ConcatProperties
<1> HIDE DEF d0
<1>5. Len(d0) = 3 /\ d0[1] = a /\ d0[2] = b /\ d0[3] = c
  BY <1>1, <1>2, <1>4
<1>6. \A i \in 1..3 : i = 1 \/ i = 2 \/ i = 3
  OBVIOUS
<1>7. \A i \in 1..Len(d0) : d0[i] = z[i]
  BY <1>3, <1>5, <1>6
<1>8. d0 = z
  BY <1>3, <1>4, <1>5, <1>7, SeqEqual
<1> QED BY <1>8 DEF d0, x, y, z

\* Two updates and one are three.
LEMMA Joined21 ==
  ASSUME NEW a, NEW b, NEW c
  PROVE  <<a, b>> \o <<c>> = <<a, b, c>>
<1> DEFINE S == {a, b, c}
           x == <<a, b>>
           y == <<c>>
           z == <<a, b, c>>
           d0 == x \o y
<1>1. x \in Seq(S) /\ Len(x) = 2 /\ x[1] = a /\ x[2] = b
  OBVIOUS
<1>2. y \in Seq(S) /\ Len(y) = 1 /\ y[1] = c
  OBVIOUS
<1>3. z \in Seq(S) /\ Len(z) = 3 /\ z[1] = a /\ z[2] = b /\ z[3] = c
  OBVIOUS
<1> HIDE DEF S, x, y, z
<1>4. /\ d0 \in Seq(S) /\ Len(d0) = Len(x) + Len(y)
      /\ \A i \in 1..Len(x) + Len(y) : d0[i] = IF i <= Len(x) THEN x[i] ELSE y[i - Len(x)]
  BY <1>1, <1>2, ConcatProperties
<1> HIDE DEF d0
<1>5. Len(d0) = 3 /\ d0[1] = a /\ d0[2] = b /\ d0[3] = c
  BY <1>1, <1>2, <1>4
<1>6. \A i \in 1..3 : i = 1 \/ i = 2 \/ i = 3
  OBVIOUS
<1>7. \A i \in 1..Len(d0) : d0[i] = z[i]
  BY <1>3, <1>5, <1>6
<1>8. d0 = z
  BY <1>3, <1>4, <1>5, <1>7, SeqEqual
<1> QED BY <1>8 DEF d0, x, y, z

\* Joining no updates changes nothing.
LEMMA JoinedNone ==
  ASSUME NEW a, NEW b, NEW c
  PROVE  /\ <<a, b, c>> \o <<>> = <<a, b, c>> /\ <<a, b>> \o <<>> = <<a, b>>
         /\ <<a>> \o <<>> = <<a>> /\ <<>> \o <<a>> = <<a>>
         /\ <<>> \o <<a, b>> = <<a, b>> /\ <<>> \o <<>> = <<>>
<1> DEFINE S == {a, b, c}
           x == <<a>>
           y == <<a, b>>
           z == <<a, b, c>>
           e == <<>>
<1>1. x \in Seq(S) /\ y \in Seq(S) /\ z \in Seq(S) /\ e \in Seq(S)
  OBVIOUS
<1> HIDE DEF S, x, y, z
<1>2. \A s \in Seq(S) : s \o <<>> = s /\ <<>> \o s = s
  BY ConcatEmptySeq
<1>3. z \o <<>> = z /\ y \o <<>> = y /\ x \o <<>> = x /\ <<>> \o x = x /\ <<>> \o y = y
  BY <1>1, <1>2
<1>4. <<>> \o <<>> = <<>>
  BY <1>1, <1>2
<1> QED BY <1>3, <1>4 DEF x, y, z

\* A frame at the key of its call.
LEMMA OwnFrame ==
  ASSUME ToolInv, ~ Gemini, NEW l \in Tool!ToolCall, NEW n \in 0..3,
         toolSent[l] # Tool!NotBegun \/ Tool!Begins(l), NEW ups, Updates(ups),
         toolEnded = "no" /\ layout[l] \notin emitted =>
            PartAs(Result(PartAt(Tool!Now, Tool!KeyOf(l)), ups), l, n),
         Tool!Frame(l, ups, n)
  PROVE  ToolInv'
<1>1. Tool!Pushed(Tool!Applied(Tool!Now, Tool!KeyOf(l), ups), {}) /\ Tool!Sends(l, n)
  BY DEF Tool!Frame
<1>2. toolEnded = "no"
  BY <1>1 DEF Tool!Pushed
<1>3. PICK k : k = Tool!KeyOf(l)
  OBVIOUS
<1>4. k[1] = layout[l]
  BY <1>3, CallIs
<1>5. Tool!Pushed(Tool!Applied(Tool!Now, k, ups), {})
  BY <1>1, <1>3
<1>6. layout[l] \notin emitted =>
            k = Tool!KeyOf(l) /\ PartAs(Result(PartAt(Tool!Now, Tool!KeyOf(l)), ups), l, n)
  BY <1>2, <1>3
<1> QED BY <1>1, <1>2, <1>4, <1>5, <1>6, NowFrame

\* Only a call that has begun has a part.
LEMMA BegunAt ==
  ASSUME ToolInv, toolEnded = "no", NEW l \in Tool!ToolCall, Tool!KeyOf(l) \in DOMAIN parts
  PROVE  toolSent[l] # Tool!NotBegun
<1>1. layout \in Seq(Nat) /\ Sound(Tool!Now, toolSent)
  BY DEF ToolInv, ToolInvAt
<1>2. DOMAIN parts = {Tool!KeyOf(m) : m \in OpenOf(emitted, toolSent)}
  BY <1>1, NowFields DEF Sound, Assembly
<1>3. PICK m \in OpenOf(emitted, toolSent) : Tool!KeyOf(l) = Tool!KeyOf(m)
  BY <1>2
<1>4. m \in Tool!ToolCall /\ toolSent[m] # Tool!NotBegun
  BY DEF OpenOf
<1> QED BY <1>1, <1>3, <1>4, KeyInjective

\* The first frame of a call, by an id, a name and the start of its arguments.
LEMMA FirstOf ==
  ASSUME ToolInv, NEW l \in Tool!ToolCall, wire # "gemini_idless", toolEnded = "no",
         layout[l] \notin emitted, toolSent[l] = Tool!NotBegun,
         NEW op \in {"name", "nameFragment"}
  PROVE  LET q == Tool!Assigned(Tool!Assigned(PartAt(Tool!Now, Tool!KeyOf(l)), Tool!U("id", l)), Tool!U(op, l)) IN
         Named(q, l) /\ q.args = <<>> /\ ~ q.initial
<1>1. PartAt(Tool!Now, Tool!KeyOf(l)) = Tool!NewPart /\ l \in Nat
  BY AtKey, CallIs
<1>2. Tool!NewPart \in ToolPart /\ Tool!NewPart.args = <<>> /\ ~ Tool!NewPart.initial
  BY NewPartTyped DEF Tool!NewPart
<1> QED BY <1>1, <1>2, Introduced

\* content_block_start keeps the invariant.
LEMMA BlockStartStep ==
  ASSUME ToolInv, NEW l \in Tool!ToolCall, Tool!BlockStart(l)
  PROVE  ToolInv'
<1>1. /\ wire = "anthropic" /\ Tool!Begins(l)
      /\ Tool!Frame(l, <<Tool!U("id", l), Tool!U("name", l), Tool!U("start", Tool!Braces)>>, 0)
  BY DEF Tool!BlockStart
<1>2. ~ Gemini /\ wire \in Placeholder /\ wire # "gemini_idless" /\ toolSent[l] = Tool!NotBegun
  BY <1>1 DEF Gemini, Placeholder, Tool!Begins
<1>3. PICK a \in ToolUpdate, b \in ToolUpdate, c \in ToolUpdate :
        a = Tool!U("id", l) /\ b = Tool!U("name", l) /\ c = Tool!U("start", Tool!Braces)
  BY CallIs, UTyped, TextTyped
<1>4. PICK ups : ups = <<a, b, c>>
  OBVIOUS
<1>5. Updates(ups) /\ \A p : Result(p, ups) = Tool!Assigned(Tool!Assigned(Tool!Assigned(p, a), b), c)
  BY <1>4, Result3
<1>6. ASSUME toolEnded = "no", layout[l] \notin emitted
      PROVE  PartAs(Result(PartAt(Tool!Now, Tool!KeyOf(l)), ups), l, 0)
  <2>1. PICK q : q = Tool!Assigned(Tool!Assigned(PartAt(Tool!Now, Tool!KeyOf(l)), a), b)
    OBVIOUS
  <2>2. Named(q, l)
    BY <1>2, <1>3, <1>6, <2>1, FirstOf
  <2>3. PartAs(Tool!Assigned(q, c), l, 0)
    BY <1>2, <1>3, <2>2, Held, CallIs
  <2> QED BY <1>5, <2>1, <2>3
<1>7. Tool!Frame(l, ups, 0) /\ 0 \in 0..3
  BY <1>1, <1>3, <1>4
<1> QED BY <1>1, <1>2, <1>5, <1>6, <1>7, OwnFrame

\* One more fragment of a call that is being written.
LEMMA FragmentStep ==
  ASSUME ToolInv, NEW l \in Tool!ToolCall, ~ Gemini, Tool!Writing(l),
         Tool!Frame(l, <<Tool!U("fragment", Tool!Fragment(l))>>, toolSent[l] + 1)
  PROVE  ToolInv'
<1>1. PICK n \in {0, 1} : n = toolSent[l]
  BY DEF Tool!Writing
<1>2. toolSent[l] # Tool!NotBegun /\ n + 1 \in 0..3 /\ l \in Nat
  BY <1>1, CallIs DEF Tool!NotBegun
<1>3. PICK v \in ToolArgs : v = <<Tool!Whole(l)[n + 1]>>
  <2>1. n + 1 = 1 \/ n + 1 = 2
    OBVIOUS
  <2> QED BY <1>2, <2>1, TextTyped
<1>4. Tool!Fragment(l) = v
  BY <1>1, <1>3 DEF Tool!Fragment
<1>5. PICK a \in ToolUpdate : a = Tool!U("fragment", v)
  BY UTyped
<1>6. PICK ups : ups = <<a>>
  OBVIOUS
<1>7. Updates(ups) /\ \A p : Result(p, ups) = Tool!Assigned(p, a)
  BY <1>6, Result1
<1>8. ASSUME toolEnded = "no", layout[l] \notin emitted
      PROVE  PartAs(Result(PartAt(Tool!Now, Tool!KeyOf(l)), ups), l, n + 1)
  <2>1. PICK p : p = PartAt(Tool!Now, Tool!KeyOf(l))
    OBVIOUS
  <2>2. PartAs(p, l, n)
    BY <1>1, <1>2, <1>8, <2>1, AtKey
  <2>3. PartAs(Tool!Assigned(p, a), l, n + 1)
    BY <1>2, <1>3, <1>5, <2>2, Grows
  <2> QED BY <1>7, <2>1, <2>3
<1>9. Tool!Frame(l, ups, n + 1)
  BY <1>1, <1>4, <1>5, <1>6
<1> QED BY <1>2, <1>7, <1>8, <1>9, OwnFrame

\* content_block_stop keeps the invariant.
LEMMA BlockStopStep ==
  ASSUME ToolInv, NEW l \in Tool!ToolCall, Tool!BlockStop(l)
  PROVE  ToolInv'
<1>1. /\ wire = "anthropic" /\ Tool!KeyOf(l) \in DOMAIN parts
      /\ Tool!Frame(l, <<Tool!U("end", 0)>>, toolSent[l])
  BY DEF Tool!BlockStop
<1>2. ~ Gemini /\ toolEnded = "no"
  BY <1>1 DEF Gemini, Tool!Frame, Tool!Pushed
<1>3. PICK n \in 0..3 : n = toolSent[l]
  <2>1. toolSent[l] # Tool!NotBegun /\ toolSent[l] \in -1..3
    BY <1>1, <1>2, BegunAt, CallIs
  <2> QED BY <2>1 DEF Tool!NotBegun
<1>4. PICK a \in ToolUpdate : a = Tool!U("end", 0)
  BY UTyped
<1>5. PICK ups : ups = <<a>>
  OBVIOUS
<1>6. Updates(ups) /\ \A p : Result(p, ups) = Tool!Assigned(p, a)
  BY <1>5, Result1
<1>7. toolSent[l] # Tool!NotBegun
  BY <1>1, <1>2, BegunAt
<1>8. ASSUME toolEnded = "no", layout[l] \notin emitted
      PROVE  PartAs(Result(PartAt(Tool!Now, Tool!KeyOf(l)), ups), l, n)
  <2>1. PICK p : p = PartAt(Tool!Now, Tool!KeyOf(l))
    OBVIOUS
  <2>2. PartAs(p, l, n)
    BY <1>3, <1>7, <1>8, <2>1, AtKey
  <2>3. PartAs(Tool!Assigned(p, a), l, n)
    BY <1>4, <2>2, Closes, CallIs
  <2> QED BY <1>6, <2>1, <2>3
<1>9. Tool!Frame(l, ups, n)
  BY <1>1, <1>3, <1>4, <1>5
<1> QED BY <1>2, <1>6, <1>7, <1>8, <1>9, OwnFrame

\* The updates of an item, added and done.
LEMMA ItemIs ==
  ASSUME NEW l, NEW text
  PROVE  /\ Tool!ItemUpdates(l, text, FALSE)
               = <<Tool!U("id", l), Tool!U("name", l), Tool!U("start", text)>>
         /\ Tool!ItemUpdates(l, text, TRUE)
               = <<Tool!U("id", l), Tool!U("name", l), Tool!U("whole", text), Tool!U("end", 0)>>
<1>1. Tool!ItemUpdates(l, text, FALSE)
        = <<Tool!U("id", l), Tool!U("name", l), Tool!U("start", text)>> \o <<>>
  BY DEF Tool!ItemUpdates
<1>2. Tool!ItemUpdates(l, text, TRUE)
        = <<Tool!U("id", l), Tool!U("name", l), Tool!U("whole", text)>> \o <<Tool!U("end", 0)>>
  BY DEF Tool!ItemUpdates
<1> QED BY <1>1, <1>2, Joined31, JoinedNone

\* response.output_item.added keeps the invariant.
LEMMA ItemAddedStep ==
  ASSUME ToolInv, NEW l \in Tool!ToolCall, Tool!ItemAdded(l)
  PROVE  ToolInv'
<1>1. /\ wire = "responses" /\ Tool!Begins(l)
      /\ Tool!Frame(l, Tool!ItemUpdates(l, <<>>, FALSE), 0)
  BY DEF Tool!ItemAdded
<1>2. ~ Gemini /\ wire \notin Placeholder /\ wire # "gemini_idless" /\ toolSent[l] = Tool!NotBegun
  BY <1>1 DEF Gemini, Placeholder, Tool!Begins
<1>a. <<>> \in ToolArgs
  BY EmptySeq DEF ToolArgs
<1>3. PICK a \in ToolUpdate, b \in ToolUpdate, c \in ToolUpdate :
        a = Tool!U("id", l) /\ b = Tool!U("name", l) /\ c = Tool!U("start", <<>>)
  BY <1>a, CallIs, UTyped
<1>4. PICK ups : ups = <<a, b, c>>
  OBVIOUS
<1>5. Updates(ups) /\ \A p : Result(p, ups) = Tool!Assigned(Tool!Assigned(Tool!Assigned(p, a), b), c)
  BY <1>4, Result3
<1>6. ASSUME toolEnded = "no", layout[l] \notin emitted
      PROVE  PartAs(Result(PartAt(Tool!Now, Tool!KeyOf(l)), ups), l, 0)
  <2>1. PICK q : q = Tool!Assigned(Tool!Assigned(PartAt(Tool!Now, Tool!KeyOf(l)), a), b)
    OBVIOUS
  <2>2. Named(q, l)
    BY <1>2, <1>3, <1>6, <2>1, FirstOf
  <2>3. PartAs(Tool!Assigned(q, c), l, 0)
    BY <1>2, <1>3, <2>2, Held, CallIs
  <2> QED BY <1>5, <2>1, <2>3
<1>7. Tool!Frame(l, ups, 0) /\ 0 \in 0..3
  <2>1. Tool!ItemUpdates(l, <<>>, FALSE)
          = <<Tool!U("id", l), Tool!U("name", l), Tool!U("start", <<>>)>>
    BY ItemIs, Zenon
  <2>2. Tool!ItemUpdates(l, <<>>, FALSE) = ups
    BY <1>3, <1>4, <2>1, Zenon
  <2>3. Tool!Frame(l, ups, 0)
    BY <1>1, <2>2, Zenon
  <2> QED BY <2>3
<1> QED BY <1>1, <1>2, <1>5, <1>6, <1>7, OwnFrame

\* response.function_call_arguments.done keeps the invariant.
LEMMA ArgumentsDoneStep ==
  ASSUME ToolInv, NEW l \in Tool!ToolCall, Tool!ArgumentsDone(l)
  PROVE  ToolInv'
<1>1. /\ wire = "responses" /\ toolSent[l] # Tool!NotBegun
      /\ Tool!Frame(l, <<Tool!U("whole", Tool!Whole(l))>>, 2)
  BY DEF Tool!ArgumentsDone
<1>2. ~ Gemini /\ l \in Nat
  BY <1>1, CallIs DEF Gemini
<1>3. PICK a \in ToolUpdate : a = Tool!U("whole", Tool!Text(l, 2)) /\ a = Tool!U("whole", Tool!Whole(l))
  BY <1>2, TextTyped, UTyped
<1>4. PICK ups : ups = <<a>>
  OBVIOUS
<1>5. Updates(ups) /\ \A p : Result(p, ups) = Tool!Assigned(p, a)
  BY <1>4, Result1
<1>6. ASSUME toolEnded = "no", layout[l] \notin emitted
      PROVE  PartAs(Result(PartAt(Tool!Now, Tool!KeyOf(l)), ups), l, 2)
  <2>1. PICK p : p = PartAt(Tool!Now, Tool!KeyOf(l))
    OBVIOUS
  <2>2. Named(p, l)
    BY <1>1, <1>6, <2>1, AtKey, PartAsNamed
  <2>3. PartAs(Tool!Assigned(p, a), l, 2)
    BY <1>2, <1>3, <2>2, Wholly
  <2> QED BY <1>5, <2>1, <2>3
<1>7. Tool!Frame(l, ups, 2) /\ 2 \in 0..3
  BY <1>1, <1>3, <1>4
<1> QED BY <1>1, <1>2, <1>5, <1>6, <1>7, OwnFrame

\* An item repeated whole, whatever there was of it.
LEMMA ItemResult ==
  ASSUME NEW l \in Nat, NEW p, Named(p, l), wire = "responses", NEW n \in 0..3
  PROVE  LET ups == Tool!ItemUpdates(l, Tool!Text(l, n), TRUE) IN
         Updates(ups) /\ PartAs(Result(p, ups), l, n)
<1>1. PICK a \in ToolUpdate, b \in ToolUpdate, c \in ToolUpdate, d \in ToolUpdate :
        /\ a = Tool!U("id", l) /\ b = Tool!U("name", l) /\ c = Tool!U("whole", Tool!Text(l, n))
        /\ d = Tool!U("end", 0)
  BY TextTyped, UTyped
<1>2. PICK ups : ups = <<a, b, c, d>>
  OBVIOUS
<1>3. ups = Tool!ItemUpdates(l, Tool!Text(l, n), TRUE)
  BY <1>1, <1>2, ItemIs
<1>4. Updates(ups)
      /\ Result(p, ups) = Tool!Assigned(Tool!Assigned(Tool!Assigned(Tool!Assigned(p, a), b), c), d)
  BY <1>2, Result4
<1>5. PICK q : q = Tool!Assigned(Tool!Assigned(p, a), b)
  OBVIOUS
<1>6. Named(q, l)
  BY <1>1, <1>5, Introduced DEF Named
<1>7. PartAs(Tool!Assigned(q, c), l, n)
  BY <1>1, <1>6, Wholly DEF Placeholder
<1>8. PartAs(Tool!Assigned(Tool!Assigned(q, c), d), l, n)
  BY <1>1, <1>7, Closes
<1> QED BY <1>3, <1>4, <1>5, <1>8

\* response.output_item.done keeps the invariant.
LEMMA ItemDoneStep ==
  ASSUME ToolInv, NEW l \in Tool!ToolCall, Tool!ItemDone(l)
  PROVE  ToolInv'
<1>1. /\ wire = "responses" /\ toolSent[l] # Tool!NotBegun
      /\ Tool!Frame(l, Tool!ItemUpdates(l, Tool!Whole(l), TRUE), 2)
  BY DEF Tool!ItemDone
<1>2. ~ Gemini /\ l \in Nat
  BY <1>1, CallIs DEF Gemini
<1>3. PICK ups : ups = Tool!ItemUpdates(l, Tool!Text(l, 2), TRUE)
  OBVIOUS
<1>4. Tool!Text(l, 2) = Tool!Whole(l) /\ 2 \in 0..3
  BY DEF Tool!Text
<1>5. Updates(ups)
  <2>1. PICK p : Named(p, l)
    <3>1. Named(Part(l, IdOf(l), <<>>, FALSE, FALSE), l)
      BY <1>2, CallIs, PartMade, EmptySeq DEF Named, Part, ToolArgs
    <3> QED BY <3>1
  <2> QED BY <1>1, <1>2, <1>3, <1>4, <2>1, ItemResult
<1>6. ASSUME toolEnded = "no", layout[l] \notin emitted
      PROVE  PartAs(Result(PartAt(Tool!Now, Tool!KeyOf(l)), ups), l, 2)
  <2>1. Named(PartAt(Tool!Now, Tool!KeyOf(l)), l)
    BY <1>1, <1>6, AtKey, PartAsNamed
  <2> QED BY <1>1, <1>2, <1>3, <1>4, <2>1, ItemResult
<1>7. Tool!Frame(l, ups, 2)
  BY <1>1, <1>3, <1>4
<1> QED BY <1>1, <1>2, <1>4, <1>5, <1>6, <1>7, OwnFrame

\* A chat piece with its index keeps the invariant.
LEMMA PieceIndexedStep ==
  ASSUME ToolInv, NEW l \in Tool!ToolCall, Tool!PieceIndexed(l)
  PROVE  ToolInv'
<1>1. wire = "chat"
  BY DEF Tool!PieceIndexed
<1>2. ~ Gemini /\ wire \notin Placeholder /\ wire # "gemini_idless"
  BY <1>1 DEF Gemini, Placeholder
<1>3. CASE Tool!Writing(l) /\ Tool!Frame(l, <<Tool!U("fragment", Tool!Fragment(l))>>, toolSent[l] + 1)
  BY <1>2, <1>3, FragmentStep
<1>4. CASE /\ Tool!Begins(l)
           /\ Tool!Frame(l, <<Tool!U("id", l), Tool!U("nameFragment", l), Tool!U("fragment", <<>>)>>, 0)
  <2>0. toolSent[l] = Tool!NotBegun /\ l \in Nat
    BY <1>4, CallIs DEF Tool!Begins
  <2>a. <<>> \in ToolArgs
    BY EmptySeq DEF ToolArgs
  <2>3. PICK a \in ToolUpdate, b \in ToolUpdate, c \in ToolUpdate :
          a = Tool!U("id", l) /\ b = Tool!U("nameFragment", l) /\ c = Tool!U("fragment", <<>>)
    BY <2>a, CallIs, UTyped
  <2>4. PICK ups : ups = <<a, b, c>>
    OBVIOUS
  <2>5. Updates(ups) /\ \A p : Result(p, ups) = Tool!Assigned(Tool!Assigned(Tool!Assigned(p, a), b), c)
    BY <2>4, Result3
  <2>6. ASSUME toolEnded = "no", layout[l] \notin emitted
        PROVE  PartAs(Result(PartAt(Tool!Now, Tool!KeyOf(l)), ups), l, 0)
    <3>1. PICK q : q = Tool!Assigned(Tool!Assigned(PartAt(Tool!Now, Tool!KeyOf(l)), a), b)
      OBVIOUS
    <3>2. Named(q, l) /\ q.args = <<>> /\ ~ q.initial
      BY <1>2, <2>0, <2>3, <2>6, <3>1, FirstOf
    <3>3. PICK x : x = Tool!Assigned(q, c)
      OBVIOUS
    <3>4. Tool!Visible(q) \o <<>> = <<>>
      BY <2>0, <3>2, TextTyped DEF Tool!Visible
    <3>5. x \in ToolPart /\ x.name = l /\ x.id = IdOf(l) /\ x.args = <<>>
      BY <2>a, <2>3, <3>2, <3>3, <3>4, ExtendedBy DEF Named
    <3>6. PartAs(x, l, 0)
      BY <1>2, <3>5 DEF PartAs
    <3> QED BY <2>5, <3>1, <3>3, <3>6
  <2>7. Tool!Frame(l, ups, 0) /\ 0 \in 0..3
    BY <1>4, <2>3, <2>4
  <2> QED BY <1>2, <1>4, <2>5, <2>6, <2>7, OwnFrame
<1> QED BY <1>3, <1>4 DEF Tool!PieceIndexed

\* What the invariant says while the stream goes on.
LEMMA Running ==
  ASSUME ToolInv, toolEnded = "no"
  PROVE  /\ layout \in Seq(Nat) /\ toolSent \in [Tool!ToolCall -> -1..3]
         /\ Sound(Tool!Now, toolSent) /\ Downward(toolSent) /\ Fine(Tool!Now) /\ Tool!Now.ok
         /\ OutAs(out, toolSent) /\ emitted = DOMAIN out
  BY NowFields DEF ToolInv, ToolInvAt, Sound

\* The end of a choice keeps the invariant.
LEMMA FinishesStep ==
  ASSUME ToolInv, NEW c, Tool!Finishes(c)
  PROVE  ToolInv'
<1>1. Tool!Pushed(Tool!CompleteChoice(Tool!Now, c), {c}) /\ toolSent' = toolSent
  BY DEF Tool!Finishes
<1>2. toolEnded = "no"
  BY <1>1 DEF Tool!Pushed
<1>3. PICK snt : snt = toolSent
  OBVIOUS
<1>4. PICK s : s = Tool!Now
  OBVIOUS
<1>5. PICK r : r = Tool!CompleteChoice(s, c)
  OBVIOUS
<1>6. /\ layout \in Seq(Nat) /\ snt \in [Tool!ToolCall -> -1..3] /\ Sound(s, snt) /\ Downward(snt)
      /\ s.ok /\ OutAs(s.out, snt)
  BY <1>2, <1>3, <1>4, Running DEF Sound
<1>7. Fine(r) /\ (r.ok => Sound(r, snt)) /\ (~ r.ok => r.out = s.out)
  BY <1>5, <1>6, CompleteKeeps
<1>8. Tool!Pushed(r, {c}) /\ toolSent' = snt
  BY <1>1, <1>3, <1>4, <1>5
<1> QED BY <1>6, <1>7, <1>8, PushedStep

\* A frame that is an error from the start.
LEMMA ErrorStep ==
  ASSUME ToolInv, Tool!Pushed(Tool!Err(Tool!Now), {}), NEW snt \in [Tool!ToolCall -> -1..3],
         toolSent' = snt, OutAs(out, snt)
  PROVE  ToolInv'
<1>1. toolEnded = "no"
  BY DEF Tool!Pushed
<1>2. PICK s : s = Tool!Now
  OBVIOUS
<1>3. PICK r : r = Tool!Err(s)
  OBVIOUS
<1>4. Fine(r) /\ SameBut(s, r) /\ ~ r.ok
  BY <1>1, <1>2, <1>3, ErrFine, Running
<1>5. r.out = out
  BY <1>2, <1>4, NowFields DEF SameBut
<1>6. Tool!Pushed(r, {})
  BY <1>2, <1>3
<1> QED BY <1>4, <1>5, <1>6, PushedStep

\* A frame that cannot be parsed keeps the invariant.
LEMMA BadFrameStep ==
  ASSUME ToolInv, Tool!BadFrame
  PROVE  ToolInv'
<1>1. Tool!Pushed(Tool!Err(Tool!Now), {}) /\ toolSent' = toolSent
  BY DEF Tool!BadFrame
<1>2. toolEnded = "no"
  BY <1>1 DEF Tool!Pushed
<1>3. PICK snt : snt = toolSent
  OBVIOUS
<1>4. snt \in [Tool!ToolCall -> -1..3] /\ OutAs(out, snt) /\ toolSent' = snt
  BY <1>1, <1>2, <1>3, Running
<1> QED BY <1>1, <1>4, ErrorStep

\* The end of the stream, or its loss, keeps the invariant.
LEMMA OverStep ==
  ASSUME ToolInv, Tool!Finish \/ Tool!Abandon
  PROVE  ToolInv'
<1>1. /\ toolEnded = "no" /\ Tool!Becomes(Tool!Clear(Tool!Now))
      /\ layout' = layout /\ wire' = wire /\ toolSent' = toolSent
  BY DEF Tool!Finish, Tool!Abandon
<1>2. PICK snt : snt = toolSent
  OBVIOUS
<1>3. PICK s : s = Tool!Now
  OBVIOUS
<1>4. PICK e : /\ e = toolEnded' /\ e # "no"
               /\ e = "clean" => ~ (\E k \in DOMAIN parts : k[1] \notin emitted)
  BY DEF Tool!Finish, Tool!Abandon
<1>5. /\ Fine(s) /\ snt \in [Tool!ToolCall -> -1..3] /\ OutAs(s.out, snt) /\ Sound(s, snt)
      /\ layout \in Seq(Nat)
  BY <1>1, <1>2, <1>3, Running DEF Sound
<1>6. ASSUME e = "clean", NEW l \in Tool!ToolCall, snt[l] # Tool!NotBegun, layout[l] \notin DOMAIN s.out
      PROVE  FALSE
  <2>1. s.parts = parts /\ s.emitted = emitted
    BY <1>3, NowFields
  <2>2. l \in OpenOf(s.emitted, snt) /\ layout[l] \notin emitted
    BY <1>5, <1>6, <2>1 DEF Sound, OpenOf
  <2>3. Tool!KeyOf(l) \in DOMAIN parts
    BY <1>5, <2>1, <2>2 DEF Sound, Assembly
  <2>4. Tool!KeyOf(l)[1] = layout[l]
    BY CallIs
  <2> QED BY <1>4, <1>6, <2>2, <2>3, <2>4
<1>7. Tool!Becomes(Tool!Clear(s)) /\ toolEnded' = e /\ toolSent' = snt
  BY <1>1, <1>2, <1>3, <1>4
<1> QED BY <1>1, <1>4, <1>5, <1>6, <1>7, Over

\* Steps that leave the assembler alone.
LEMMA ToolQuiet ==
  ASSUME ToolInv,
         UNCHANGED <<wire, layout, parts, byId, last, next, emitted, toolHeld, started, shown,
                     toolSent, out, toolEnded>>
  PROVE  ToolInv'
<1>1. Tool!Now' = Tool!Now
  BY DEF Tool!Now
<1>2. PICK q : q = Tool!Now
  OBVIOUS
<1>3. PICK snt : snt = toolSent
  OBVIOUS
<1>4. PICK e : e = toolEnded
  OBVIOUS
<1>5. ToolInvAt(q, snt, e)
  BY <1>2, <1>3, <1>4 DEF ToolInv
<1> QED BY <1>1, <1>2, <1>3, <1>4, <1>5, Carry

\* The index guessed for a piece that has none is that of its call.
LEMMA GuessedRight ==
  ASSUME ToolInv, toolEnded = "no", wire = "chat_unindexed", NEW l \in Tool!ToolCall,
         layout[l] \notin emitted, NEW id \in {l, 0},
         toolSent[l] # Tool!NotBegun \/ (Tool!Begins(l) /\ id = l)
  PROVE  \A i \in Tool!GuessedIndex(layout[l], id) : <<layout[l], i>> = Tool!KeyOf(l)
<1> DEFINE c == layout[l]
           B == BegunOf(toolSent, c)
           n == Cardinality(B)
           found == {k \in Tool!KeysOf(parts, c) : id # Tool!NoId /\ parts[k].id = id}
           indices == Tool!IndicesOf(parts, c)
<1>1. layout \in Seq(Nat) /\ Sound(Tool!Now, toolSent) /\ Downward(toolSent)
  BY Running
<1>2. /\ Tool!KeysOf(parts, c) = {Tool!KeyOf(m) : m \in B}
      /\ indices = 0..(n - 1)
  <2>1. PICK s : s = Tool!Now
    OBVIOUS
  <2>2. PICK snt : snt = toolSent
    OBVIOUS
  <2>3. PICK d : d = c
    OBVIOUS
  <2>4. s.parts = parts /\ s.emitted = emitted
    BY <2>1, NowFields
  <2>5. Assembly(s, snt) /\ Downward(snt) /\ d \notin s.emitted
    BY <1>1, <2>1, <2>2, <2>3, <2>4 DEF Sound
  <2>6. /\ Tool!KeysOf(s.parts, d) = {Tool!KeyOf(m) : m \in BegunOf(snt, d)}
        /\ Tool!IndicesOf(s.parts, d) = 0..(Cardinality(BegunOf(snt, d)) - 1)
    BY <1>1, <2>5, IndicesAre
  <2> QED BY <2>2, <2>3, <2>4, <2>6
<1>3. n \in Nat /\ B \subseteq Tool!ToolCall /\ \A m \in B : layout[m] = c /\ toolSent[m] # Tool!NotBegun
  BY <1>1, BegunFinite DEF BegunOf
<1>4. \A m \in B : parts[Tool!KeyOf(m)].id = m
  <2> SUFFICES ASSUME NEW m \in B PROVE parts[Tool!KeyOf(m)].id = m
    OBVIOUS
  <2>1. PartAs(parts[Tool!KeyOf(m)], m, toolSent[m])
    BY <1>3, AtKey
  <2> QED BY <2>1 DEF PartAs, IdOf
<1>5. l \in Nat /\ l # 0
  BY CallIs
<1>6. l \in B <=> toolSent[l] # Tool!NotBegun
  BY DEF BegunOf
<1> HIDE DEF B, n
<1>7. Tool!GuessedIndex(c, id)
        = IF found # {} THEN {k[2] : k \in found}
          ELSE IF id # Tool!NoId THEN {IF indices = {} THEN 0 ELSE Tool!Max(indices) + 1}
          ELSE IF Cardinality(indices) = 1 THEN indices ELSE {}
  BY ToolCount DEF Tool!GuessedIndex
<1>8. CASE id = l /\ toolSent[l] # Tool!NotBegun
  <2>1. \A k \in found : k = Tool!KeyOf(l)
    BY <1>2, <1>4, <1>8
  <2>2. Tool!KeyOf(l) \in found
    BY <1>2, <1>4, <1>5, <1>6, <1>8 DEF Tool!NoId
  <2> HIDE DEF found
  <2>3. Tool!GuessedIndex(c, id) = {Tool!KeyOf(l)[2]}
    BY <1>7, <2>1, <2>2
  <2>4. Tool!KeyOf(l) = <<c, Tool!KeyOf(l)[2]>>
    BY <1>1, KeyIs
  <2> QED BY <2>3, <2>4
<1>9. CASE id = l /\ toolSent[l] = Tool!NotBegun
  <2>1. found = {}
    BY <1>2, <1>4, <1>6, <1>9
  <2>2. Tool!KeyOf(l) = <<c, n>>
    <3>1. PICK snt : snt = toolSent
      OBVIOUS
    <3>2. /\ Downward(snt) /\ snt[l] = Tool!NotBegun
          /\ \A m \in Tool!ToolCall : m < l => snt[m] # Tool!NotBegun
      BY <1>1, <1>9, <3>1 DEF Tool!Begins
    <3>3. Tool!KeyOf(l) = <<layout[l], Cardinality(BegunOf(snt, layout[l]))>>
      BY <1>1, <3>2, KeyNext
    <3> QED BY <3>1, <3>3 DEF n, B
  <2> HIDE DEF found, indices
  <2>3. Tool!GuessedIndex(c, id) = {IF indices = {} THEN 0 ELSE Tool!Max(indices) + 1}
    BY <1>5, <1>7, <1>9, <2>1 DEF Tool!NoId
  <2>4. CASE n = 0
    <3>1. indices = {}
      BY <1>2, <2>4
    <3> QED BY <2>2, <2>3, <2>4, <3>1
  <2>5. CASE n # 0
    <3>1. n - 1 \in indices /\ \A y \in indices : n - 1 >= y /\ y \in Int
      BY <1>2, <1>3, <2>5
    <3>2. PICK x : x = Tool!Max(indices)
      OBVIOUS
    <3>3. x \in indices /\ \A y \in indices : x >= y
      BY <3>1, <3>2 DEF Tool!Max
    <3>4. x = n - 1
      BY <1>3, <3>1, <3>3
    <3>5. x + 1 = n
      BY <1>3, <3>4
    <3> QED BY <2>2, <2>3, <3>1, <3>2, <3>5
  <2> QED BY <2>4, <2>5
<1>10. CASE id = 0
  <2>1. found = {} /\ l \in B /\ id = Tool!NoId
    BY <1>5, <1>6, <1>10 DEF Tool!NoId
  <2> HIDE DEF found
  <2>2. Tool!GuessedIndex(c, id) = IF Cardinality(indices) = 1 THEN indices ELSE {}
    BY <1>7, <2>1
  <2>3. ASSUME Cardinality(indices) = 1, NEW i \in indices PROVE <<c, i>> = Tool!KeyOf(l)
    <3>1. n = 1
      BY <1>2, <1>3, <2>3, OrderedInterval
    <3>2. PICK snt : snt = toolSent
      OBVIOUS
    <3>3. PICK d : d = c
      OBVIOUS
    <3>4. Downward(snt) /\ l \in BegunOf(snt, d)
      BY <1>1, <2>1, <3>2, <3>3 DEF B
    <3>5. /\ Tool!KeyOf(l) = <<d, Rank(BegunOf(snt, d), l)>>
          /\ Rank(BegunOf(snt, d), l) \in 0..(Cardinality(BegunOf(snt, d)) - 1)
      BY <1>1, <3>4, KeyRank
    <3>6. Cardinality(BegunOf(snt, d)) = 1
      BY <3>1, <3>2, <3>3 DEF n, B
    <3>7. i = 0 /\ Rank(BegunOf(snt, d), l) = 0
      BY <1>2, <2>3, <3>1, <3>5, <3>6
    <3> QED BY <3>3, <3>5, <3>7
  <2> QED BY <2>2, <2>3
<1> QED BY <1>8, <1>9, <1>10

\* A piece at the guessed index keeps the invariant, if its updates bring its
\* own call's part where the provider is.
LEMMA GuessedStep ==
  ASSUME ToolInv, wire = "chat_unindexed", NEW l \in Tool!ToolCall, NEW n \in 0..3,
         NEW id \in {l, 0}, toolSent[l] # Tool!NotBegun \/ (Tool!Begins(l) /\ id = l),
         NEW ups, NEW all, all = (IF id = 0 THEN <<>> ELSE <<Tool!U("id", id)>>) \o ups, Updates(all),
         toolEnded = "no" /\ layout[l] \notin emitted =>
            PartAs(Result(PartAt(Tool!Now, Tool!KeyOf(l)), all), l, n),
         Tool!PieceGuessed(l, id, ups, n)
  PROVE  ToolInv'
<1> DEFINE guess == Tool!GuessedIndex(layout[l], id)
<1>1. /\ Tool!Pushed(IF guess = {} THEN Tool!Err(Tool!Now)
                     ELSE Tool!Applied(Tool!Now, <<layout[l], CHOOSE i \in guess : TRUE>>, all), {})
      /\ Tool!Sends(l, n)
  BY Zenon DEF Tool!PieceGuessed, Tool!NoId
<1>2. toolEnded = "no" /\ ~ Gemini
  BY <1>1 DEF Tool!Pushed, Gemini
<1> HIDE DEF guess
<1>3. CASE guess = {}
  <2>1. Tool!Pushed(Tool!Err(Tool!Now), {})
    BY <1>1, <1>3
  <2>2. PICK snt : snt = SentWith(l, n)
    OBVIOUS
  <2>3. snt \in [Tool!ToolCall -> -1..3] /\ OutAs(out, snt)
    BY <1>2, <2>2, SentWithIs
  <2>4. toolSent' = snt
    BY <1>1, <2>2 DEF SentWith, Tool!Sends
  <2> QED BY <2>1, <2>3, <2>4, ErrorStep
<1>4. CASE guess # {}
  <2>1. PICK i : i = CHOOSE j \in guess : TRUE
    OBVIOUS
  <2>2. i \in guess
    BY <1>4, <2>1
  <2>3. PICK k : k = <<layout[l], i>>
    OBVIOUS
  <2>4. k[1] = layout[l]
    BY <2>3
  <2>5. layout[l] \notin emitted => k = Tool!KeyOf(l)
    BY <1>2, <2>2, <2>3, GuessedRight DEF guess
  <2>6. Tool!Pushed(Tool!Applied(Tool!Now, k, all), {})
    BY <1>1, <1>4, <2>1, <2>3, Zenon
  <2>7. toolSent[l] # Tool!NotBegun \/ Tool!Begins(l)
    OBVIOUS
  <2> QED BY <1>1, <1>2, <2>4, <2>5, <2>6, <2>7, NowFrame
<1> QED BY <1>3, <1>4

\* A chat piece without an index keeps the invariant.
LEMMA PieceUnindexedStep ==
  ASSUME ToolInv, NEW l \in Tool!ToolCall, Tool!PieceUnindexed(l)
  PROVE  ToolInv'
<1>1. wire = "chat_unindexed"
  BY DEF Tool!PieceUnindexed
<1>2. wire \notin Placeholder /\ wire # "gemini_idless" /\ IdOf(l) = l /\ l \in Nat /\ l # 0
  BY <1>1, CallIs DEF Placeholder, IdOf
<1>3. PICK a \in ToolUpdate : a = Tool!U("id", l)
  BY <1>2, UTyped
<1>4. l \in {l, 0} /\ (IF l = 0 THEN <<>> ELSE <<Tool!U("id", l)>>) = <<a>>
  BY <1>2, <1>3
<1>5. CASE (Tool!Begins(l) \/ toolSent[l] = 2) /\ \E n \in {2, 3} :
              Tool!PieceGuessed(l, l, <<Tool!U("name", l), Tool!U("whole", Tool!Text(l, n))>>, n)
  <2>1. PICK n \in {2, 3} :
          Tool!PieceGuessed(l, l, <<Tool!U("name", l), Tool!U("whole", Tool!Text(l, n))>>, n)
    BY <1>5
  <2>2. n \in 0..3 /\ n # 0
    OBVIOUS
  <2>3. PICK b \in ToolUpdate, c \in ToolUpdate :
          b = Tool!U("name", l) /\ c = Tool!U("whole", Tool!Text(l, n))
    BY <1>2, <2>2, TextTyped, UTyped
  <2>4. PICK ups : ups = <<b, c>>
    OBVIOUS
  <2>5. PICK all : all = <<a, b, c>>
    OBVIOUS
  <2>6. all = (IF l = 0 THEN <<>> ELSE <<Tool!U("id", l)>>) \o ups
    <3>1. <<a>> \o <<b, c>> = <<a, b, c>>
      BY Joined12
    <3> QED BY <1>4, <2>4, <2>5, <3>1, Zenon
  <2>7. Updates(all) /\ \A p : Result(p, all) = Tool!Assigned(Tool!Assigned(Tool!Assigned(p, a), b), c)
    BY <2>5, Result3
  <2>8. ASSUME toolEnded = "no", layout[l] \notin emitted
        PROVE  PartAs(Result(PartAt(Tool!Now, Tool!KeyOf(l)), all), l, n)
    <3>1. PICK p : p = PartAt(Tool!Now, Tool!KeyOf(l))
      OBVIOUS
    <3>2. p \in ToolPart
      BY <2>8, <3>1, Running, PartAtTyped
    <3>3. PICK q : q = Tool!Assigned(Tool!Assigned(p, a), b)
      OBVIOUS
    <3>4. Named(q, l)
      BY <1>2, <1>3, <2>3, <3>2, <3>3, Introduced
    <3>5. PartAs(Tool!Assigned(q, c), l, n)
      BY <1>2, <2>2, <2>3, <3>4, Wholly
    <3> QED BY <2>7, <3>1, <3>3, <3>5
  <2>9. Tool!PieceGuessed(l, l, ups, n)
    BY <2>1, <2>3, <2>4, Zenon
  <2>10. toolSent[l] # Tool!NotBegun \/ (Tool!Begins(l) /\ l = l)
    BY <1>5 DEF Tool!NotBegun
  <2> QED BY <1>1, <1>4, <2>2, <2>6, <2>7, <2>8, <2>9, <2>10, GuessedStep
<1>6. CASE /\ Tool!Begins(l)
           /\ Tool!PieceGuessed(l, l, <<Tool!U("nameFragment", l), Tool!U("fragment", <<Tool!Whole(l)[1]>>)>>, 1)
  <2>1. toolSent[l] = Tool!NotBegun
    BY <1>6 DEF Tool!Begins
  <2>2. PICK v \in ToolArgs : v = <<Tool!Whole(l)[1]>>
    BY <1>2, TextTyped
  <2>3. PICK b \in ToolUpdate, c \in ToolUpdate :
          b = Tool!U("nameFragment", l) /\ c = Tool!U("fragment", v)
    BY <1>2, UTyped
  <2>4. PICK ups : ups = <<b, c>>
    OBVIOUS
  <2>5. PICK all : all = <<a, b, c>>
    OBVIOUS
  <2>6. all = (IF l = 0 THEN <<>> ELSE <<Tool!U("id", l)>>) \o ups
    <3>1. <<a>> \o <<b, c>> = <<a, b, c>>
      BY Joined12
    <3> QED BY <1>4, <2>4, <2>5, <3>1, Zenon
  <2>7. Updates(all) /\ \A p : Result(p, all) = Tool!Assigned(Tool!Assigned(Tool!Assigned(p, a), b), c)
    BY <2>5, Result3
  <2>8. ASSUME toolEnded = "no", layout[l] \notin emitted
        PROVE  PartAs(Result(PartAt(Tool!Now, Tool!KeyOf(l)), all), l, 1)
    <3>1. PICK q : q = Tool!Assigned(Tool!Assigned(PartAt(Tool!Now, Tool!KeyOf(l)), a), b)
      OBVIOUS
    <3>2. Named(q, l) /\ q.args = <<>> /\ ~ q.initial
      BY <1>2, <1>3, <2>1, <2>3, <2>8, <3>1, FirstOf
    <3>3. PICK x : x = Tool!Assigned(q, c)
      OBVIOUS
    <3>4. Tool!Visible(q) = <<>>
      BY <3>2 DEF Tool!Visible
    <3>5. Tool!Visible(q) \o v = Tool!Text(l, 1)
      BY <1>2, <2>2, <3>4, TextTyped
    <3>6. x \in ToolPart /\ x.name = l /\ x.id = IdOf(l) /\ x.args = Tool!Text(l, 1) /\ ~ x.initial
      BY <2>3, <3>2, <3>3, <3>5, ExtendedBy DEF Named
    <3>7. PartAs(x, l, 1)
      BY <3>6 DEF PartAs
    <3> QED BY <2>7, <3>1, <3>3, <3>7
  <2>9. Tool!PieceGuessed(l, l, ups, 1)
    BY <1>6, <2>2, <2>3, <2>4, Zenon
  <2>10. 1 \in 0..3
    OBVIOUS
  <2> QED BY <1>1, <1>4, <1>6, <2>6, <2>7, <2>8, <2>9, <2>10, GuessedStep
<1>7. CASE /\ Tool!Writing(l) /\ \E id \in {l, Tool!NoId} :
              Tool!PieceGuessed(l, id, <<Tool!U("fragment", Tool!Fragment(l))>>, toolSent[l] + 1)
  <2>1. PICK n \in {0, 1} : n = toolSent[l]
    BY <1>7 DEF Tool!Writing
  <2>2. toolSent[l] # Tool!NotBegun /\ n + 1 \in 0..3
    BY <2>1 DEF Tool!NotBegun
  <2>3. PICK v \in ToolArgs : v = <<Tool!Whole(l)[n + 1]>>
    <3>1. n + 1 = 1 \/ n + 1 = 2
      OBVIOUS
    <3> QED BY <1>2, <3>1, TextTyped
  <2>4. Tool!Fragment(l) = v
    BY <2>1, <2>3 DEF Tool!Fragment
  <2>5. PICK c \in ToolUpdate : c = Tool!U("fragment", v)
    BY UTyped
  <2>6. PICK ups : ups = <<c>>
    OBVIOUS
  <2>7. PICK id \in {l, 0} : Tool!PieceGuessed(l, id, ups, n + 1)
    BY <1>7, <2>1, <2>4, <2>5, <2>6 DEF Tool!NoId
  <2>8. ASSUME toolEnded = "no", layout[l] \notin emitted
        PROVE  PartAs(PartAt(Tool!Now, Tool!KeyOf(l)), l, n)
    BY <2>1, <2>2, <2>8, AtKey
  <2>9. CASE id = 0
    <3>1. ups = (IF id = 0 THEN <<>> ELSE <<Tool!U("id", id)>>) \o ups
      BY <2>6, <2>9, JoinedNone
    <3>2. Updates(ups) /\ \A p : Result(p, ups) = Tool!Assigned(p, c)
      BY <2>6, Result1
    <3>3. ASSUME toolEnded = "no", layout[l] \notin emitted
          PROVE  PartAs(Result(PartAt(Tool!Now, Tool!KeyOf(l)), ups), l, n + 1)
      <4>1. PICK p : p = PartAt(Tool!Now, Tool!KeyOf(l))
        OBVIOUS
      <4>2. PartAs(p, l, n)
        BY <2>8, <3>3, <4>1
      <4>3. PartAs(Tool!Assigned(p, c), l, n + 1)
        BY <1>2, <2>3, <2>5, <4>2, Grows
      <4> QED BY <3>2, <4>1, <4>3
    <3> QED BY <1>1, <2>2, <2>7, <3>1, <3>2, <3>3, GuessedStep
  <2>10. CASE id = l
    <3>0. PICK all : all = <<a, c>>
      OBVIOUS
    <3>1. all = (IF id = 0 THEN <<>> ELSE <<Tool!U("id", id)>>) \o ups
      <4>1. <<a>> \o <<c>> = <<a, c>>
        BY Joined11
      <4>2. (IF id = 0 THEN <<>> ELSE <<Tool!U("id", id)>>) = <<a>>
        BY <1>4, <2>10, Zenon
      <4> QED BY <2>6, <3>0, <4>1, <4>2, Zenon
    <3>2. Updates(all) /\ \A p : Result(p, all) = Tool!Assigned(Tool!Assigned(p, a), c)
      BY <3>0, Result2
    <3>3. ASSUME toolEnded = "no", layout[l] \notin emitted
          PROVE  PartAs(Result(PartAt(Tool!Now, Tool!KeyOf(l)), all), l, n + 1)
      <4>1. PICK p : p = PartAt(Tool!Now, Tool!KeyOf(l))
        OBVIOUS
      <4>2. PartAs(p, l, n)
        BY <2>8, <3>3, <4>1
      <4>3. PICK q : q = Tool!Assigned(p, a)
        OBVIOUS
      <4>4. q \in ToolPart /\ q.name = p.name /\ q.id = l /\ q.args = p.args /\ q.initial = p.initial
        BY <1>2, <1>3, <4>2, <4>3, Identified DEF PartAs
      <4>5. PartAs(q, l, n)
        BY <1>2, <4>2, <4>4 DEF PartAs
      <4>6. PartAs(Tool!Assigned(q, c), l, n + 1)
        BY <1>2, <2>3, <2>5, <4>5, Grows
      <4> QED BY <3>2, <4>1, <4>3, <4>6
    <3> QED BY <1>1, <2>2, <2>7, <3>1, <3>2, <3>3, GuessedStep
  <2> QED BY <2>9, <2>10
<1> QED BY <1>5, <1>6, <1>7 DEF Tool!PieceUnindexed

\* An entry taken from the budget changes nothing but the budget.
KeptBy(s, r) == Fine(r) /\ r.ok /\ SameBut(s, r) /\ r.parts = s.parts

\* Reserving an entry changes no more than the count.
LEMMA Reserved ==
  ASSUME NEW s, Fine(s), s.ok, NEW n, Tool!Reserve(s, n).ok
  PROVE  KeptBy(s, Tool!Reserve(s, n))
<1> DEFINE r == Tool!Reserve(s, n)
<1>1. ~(s.held + n > MaxToolEntries)
  <2>1. ~ Tool!Err(s).ok
    BY ErrFine
  <2> QED BY <2>1 DEF Tool!Reserve
<1>2. s = StateOf(s.parts, s.byId, s.last, s.next, s.emitted, s.held, s.started, s.shown, s.out, s.ok)
  BY DEF Fine, IsToolState, StateOf
<1>3. r = [s EXCEPT !.held = @ + n]
  BY <1>1 DEF Tool!Reserve
<1> HIDE DEF r
<1>4. r = StateOf(s.parts, s.byId, s.last, s.next, s.emitted, s.held + n, s.started, s.shown, s.out, s.ok)
  BY <1>2, <1>3 DEF StateOf
<1>5. /\ r.parts = s.parts /\ r.byId = s.byId /\ r.last = s.last /\ r.next = s.next
      /\ r.emitted = s.emitted /\ r.started = s.started /\ r.shown = s.shown
      /\ r.out = s.out /\ r.ok = s.ok
      /\ r = StateOf(r.parts, r.byId, r.last, r.next, r.emitted, r.held, r.started, r.shown, r.out, r.ok)
  BY <1>4 DEF StateOf
<1>6. IsToolState(r)
  BY <1>5 DEF Fine, IsToolState, StateOf
<1>7. Progress(r)
  BY <1>5 DEF Fine, Progress
<1> QED BY <1>5, <1>6, <1>7 DEF KeptBy, Fine, SameBut, r

With(s, ne, bi, la) == [s EXCEPT !.next = ne, !.byId = bi, !.last = la]

\* Replacing the Gemini maps leaves parts and calls alone.
LEMMA Replaced ==
  ASSUME NEW s, Fine(s), s.ok, NEW ne, NEW bi, NEW la, NEW r, r = With(s, ne, bi, la)
  PROVE  /\ Fine(r) /\ r.ok /\ r.parts = s.parts /\ r.emitted = s.emitted /\ r.out = s.out
         /\ r.next = ne /\ r.byId = bi /\ r.last = la
<1>1. s = StateOf(s.parts, s.byId, s.last, s.next, s.emitted, s.held, s.started, s.shown, s.out, s.ok)
  BY DEF Fine, IsToolState, StateOf
<1>2. r = StateOf(s.parts, bi, la, ne, s.emitted, s.held, s.started, s.shown, s.out, s.ok)
  BY <1>1 DEF StateOf, With
<1>3. /\ r.parts = s.parts /\ r.byId = bi /\ r.last = la /\ r.next = ne
      /\ r.emitted = s.emitted /\ r.started = s.started /\ r.shown = s.shown
      /\ r.out = s.out /\ r.ok = s.ok
      /\ r = StateOf(r.parts, r.byId, r.last, r.next, r.emitted, r.held, r.started, r.shown, r.out, r.ok)
  BY <1>2 DEF StateOf
<1>4. IsToolState(r)
  BY <1>3 DEF Fine, IsToolState, StateOf
<1>5. Progress(r)
  BY <1>3 DEF Fine, Progress
<1> QED BY <1>3, <1>4, <1>5 DEF Fine

IndexAt(c) == IF c \in DOMAIN next THEN next[c] ELSE 0
KeyAt(c, found) == IF found # {} THEN CHOOSE k \in found : TRUE ELSE <<c, IndexAt(c)>>
NextWith(c, found) == IF found # {} THEN next ELSE Tool!Put(next, c, IndexAt(c) + 1)
ByIdWith(c, id, key) ==
    IF id = 0 THEN byId
    ELSE Tool!Put(byId, c, Tool!Put(IF c \in DOMAIN byId THEN byId[c] ELSE Tool!Nothing, id, key))

\* Placing a Gemini call fails, or only writes its key into the three maps.
LEMMA PlacedIs ==
  ASSUME ToolInv, toolEnded = "no", NEW c, NEW id, NEW found, NEW key, key = KeyAt(c, found)
  PROVE  LET r == Tool!GeminiPlaced(c, id, found) IN
         /\ r.key = key
         /\ \/ r.state = Tool!Err(Tool!Now)
            \/ /\ Fine(r.state) /\ r.state.ok
               /\ r.state.parts = parts /\ r.state.emitted = emitted /\ r.state.out = out
               /\ r.state.next = NextWith(c, found) /\ r.state.byId = ByIdWith(c, id, key)
               /\ r.state.last = Tool!Put(last, c, key)
<1> DEFINE r == Tool!GeminiPlaced(c, id, found)
           counted == IF found # {} \/ c \in DOMAIN next THEN Tool!Now ELSE Tool!Reserve(Tool!Now, 1)
           old == IF c \in DOMAIN byId THEN byId[c] ELSE Tool!Nothing
           new == (IF id = Tool!NoId THEN 0 ELSE (IF c \in DOMAIN byId THEN 0 ELSE 1)
                                         + (IF id \in DOMAIN old THEN 0 ELSE 1))
                  + (IF c \in DOMAIN last THEN 0 ELSE 1)
           s == Tool!Reserve(counted, new)
           t == [s EXCEPT !.next = IF found # {} THEN @ ELSE Tool!Put(@, c, IndexAt(c) + 1),
                          !.byId = IF id = Tool!NoId THEN @ ELSE Tool!Put(@, c, Tool!Put(old, id, key)),
                          !.last = Tool!Put(@, c, key)]
           x == IF ~ counted.ok \/ ~ s.ok THEN Tool!Err(Tool!Now) ELSE t
<1>1. r = [key |-> key, state |-> x]
  BY Zenon DEF Tool!GeminiPlaced, KeyAt, IndexAt
<1> HIDE DEF r, x
<1>2. r.key = key /\ r.state = x
  BY <1>1
<1>3. ASSUME counted.ok, s.ok PROVE x = t /\ KeptBy(Tool!Now, s)
  <2>1. PICK w : w = Tool!Now
    OBVIOUS
  <2>2. Fine(w) /\ w.ok
    BY <2>1, Running
  <2>3. PICK d : d = counted
    OBVIOUS
  <2>4. KeptBy(w, d)
    <3>1. CASE d = w
      BY <2>2, <3>1 DEF KeptBy, SameBut
    <3>2. CASE d = Tool!Reserve(w, 1)
      BY <1>3, <2>2, <2>3, <3>2, Reserved
    <3> QED BY <2>1, <2>3, <3>1, <3>2
  <2>5. PICK m : m = new
    OBVIOUS
  <2>6. s = Tool!Reserve(d, m)
    BY <2>3, <2>5
  <2> HIDE DEF s, counted, new
  <2>7. KeptBy(d, s)
    BY <1>3, <2>4, <2>6, Reserved DEF KeptBy
  <2>8. KeptBy(w, s)
    BY <2>4, <2>7 DEF KeptBy, SameBut
  <2>9. x = t
    BY <1>3 DEF x
  <2> QED BY <2>1, <2>8, <2>9
<1>4. CASE counted.ok /\ s.ok
  <2>1. x = t /\ KeptBy(Tool!Now, s)
    BY <1>3, <1>4
  <2> HIDE DEF s
  <2>2. /\ s.parts = parts /\ s.byId = byId /\ s.last = last /\ s.next = next /\ s.emitted = emitted
        /\ s.out = out /\ Fine(s) /\ s.ok
    BY <2>1, NowFields DEF KeptBy, SameBut
  <2>3. PICK ne : ne = NextWith(c, found)
    OBVIOUS
  <2>4. PICK bi : bi = ByIdWith(c, id, key)
    OBVIOUS
  <2>5. PICK la : la = Tool!Put(last, c, key)
    OBVIOUS
  <2>6. /\ (IF found # {} THEN s.next ELSE Tool!Put(s.next, c, IndexAt(c) + 1)) = ne
        /\ (IF id = Tool!NoId THEN s.byId ELSE Tool!Put(s.byId, c, Tool!Put(old, id, key))) = bi
        /\ Tool!Put(s.last, c, key) = la
    BY <2>2, <2>3, <2>4, <2>5, Zenon DEF NextWith, ByIdWith, Tool!NoId
  <2>7. t = [s EXCEPT !.next = ne, !.byId = bi, !.last = la]
    BY <2>6, Zenon
  <2> HIDE DEF t
  <2>8. PICK y : y = s
    OBVIOUS
  <2>z. PICK z : z = t
    OBVIOUS
  <2>a. Fine(y) /\ y.ok /\ z = With(y, ne, bi, la)
    BY <2>2, <2>7, <2>8, <2>z, Zenon DEF With
  <2>b. /\ Fine(z) /\ z.ok /\ z.parts = y.parts /\ z.emitted = y.emitted /\ z.out = y.out
        /\ z.next = ne /\ z.byId = bi /\ z.last = la
    BY <2>a, Replaced
  <2>9. /\ Fine(t) /\ t.ok /\ t.parts = s.parts /\ t.emitted = s.emitted /\ t.out = s.out
        /\ t.next = ne /\ t.byId = bi /\ t.last = la
    BY <2>8, <2>z, <2>b, Zenon
  <2>10. r.state = t
    BY <1>2, <2>1
  <2> HIDE DEF old
  <2> QED BY <1>2, <2>2, <2>3, <2>4, <2>5, <2>9, <2>10 DEF r
<1>5. CASE ~(counted.ok /\ s.ok)
  <2>1. x = Tool!Err(Tool!Now)
    BY <1>5 DEF x
  <2> QED BY <1>2, <2>1 DEF r
<1> QED BY <1>4, <1>5

\* Nothing is applied after an error.
LEMMA AppliedErr ==
  ASSUME NEW s, NEW k, NEW ups, ~ s.ok, Updates(ups)
  PROVE  Tool!Applied(s, k, ups) = s
<1>1. Len(ups) \in 1..4
  BY DEF Updates
<1>2. PICK g : /\ Tool!Applied(s, k, ups) = g[Len(ups)] /\ g[0] = s
               /\ \A n \in 1..Len(ups) : g[n] = Tool!Apply(g[n - 1], k, ups[n])
  BY <1>1, AppliedBy
<1>3. \A u : Tool!Apply(s, k, u) = s
  BY DEF Tool!Apply
<1>4. \A n \in 1..Len(ups) : g[n - 1] = s => g[n] = s
  BY <1>2, <1>3
<1>5. g[1] = s
  <2>1. 1 \in 1..Len(ups) /\ 1 - 1 = 0
    BY <1>1
  <2> QED BY <1>2, <1>4, <2>1
<1>6. Len(ups) >= 2 => g[2] = s
  <2>1. Len(ups) >= 2 => 2 \in 1..Len(ups) /\ 2 - 1 = 1
    BY <1>1
  <2> QED BY <1>4, <1>5, <2>1
<1>7. Len(ups) >= 3 => g[3] = s
  <2>1. Len(ups) >= 3 => 3 \in 1..Len(ups) /\ 3 - 1 = 2 /\ Len(ups) >= 2
    BY <1>1
  <2> QED BY <1>4, <1>6, <2>1
<1>8. Len(ups) = 4 => g[4] = s
  <2>1. Len(ups) = 4 => 4 \in 1..Len(ups) /\ 4 - 1 = 3 /\ Len(ups) >= 3
    BY <1>1
  <2> QED BY <1>4, <1>7, <2>1
<1>9. Len(ups) = 1 \/ Len(ups) = 2 \/ Len(ups) = 3 \/ Len(ups) = 4
  BY <1>1
<1> QED BY <1>2, <1>5, <1>6, <1>7, <1>8, <1>9

\* What the Gemini maps say of an open choice.
LEMMA PlacedNow ==
  ASSUME ToolInv, toolEnded = "no", Gemini, NEW c \in Tool!Choice, c \notin emitted
  PROVE  LET B == BegunOf(toolSent, c) IN
         /\ c \in DOMAIN next <=> B # {}
         /\ c \in DOMAIN last <=> B # {}
         /\ B # {} =>
              /\ next[c] = Cardinality(B)
              /\ \E l \in B : last[c] = Tool!KeyOf(l) /\ (wire = "gemini_idless" => \A m \in B : m <= l)
         /\ wire = "gemini_idless" => c \notin DOMAIN byId
         /\ wire = "gemini" =>
              /\ c \in DOMAIN byId <=> B # {}
              /\ B # {} => byId[c] = [l \in B |-> Tool!KeyOf(l)]
<1>1. Placed(Tool!Now, toolSent)
  BY Running DEF Sound
<1>2. PlacedAt(Tool!Now, toolSent, c)
  BY <1>1, NowFields DEF Placed
<1> QED BY <1>2, NowFields DEF PlacedAt

\* A call is in a choice of the layout.
LEMMA ChoiceOf ==
  ASSUME ToolInv, NEW l \in Tool!ToolCall
  PROVE  layout[l] \in Tool!Choice
  BY DEF Tool!Choice, Tool!Range, Tool!ToolCall

\* What a functionCall says of its call: that it is new, its id, or that it goes
\* on with the last one.
CallAt(l, named, joined) ==
    \/ Tool!Begins(l) /\ named
    \/ toolSent[l] # Tool!NotBegun /\ wire = "gemini"
    \/ /\ toolSent[l] # Tool!NotBegun /\ ~ joined /\ ~ named
       /\ \A m \in Tool!ToolCall : m > l /\ layout[m] = layout[l] => toolSent[m] = Tool!NotBegun

\* A call that begins is found under no key and gets its own.
LEMMA GeminiNew ==
  ASSUME ToolInv, toolEnded = "no", Gemini, NEW l \in Tool!ToolCall, layout[l] \notin emitted,
         NEW joined, Tool!Begins(l), NEW id, id = IF wire = "gemini" THEN l ELSE 0
  PROVE  /\ Tool!GeminiKey(layout[l], id, TRUE, joined) = {}
         /\ Tool!KeyOf(l) = <<layout[l], IndexAt(layout[l])>>
         /\ IndexAt(layout[l]) = Cardinality(BegunOf(toolSent, layout[l]))
         /\ \A m \in BegunOf(toolSent, layout[l]) : m < l
<1> DEFINE c == layout[l]
           B == BegunOf(toolSent, c)
<1>1. layout \in Seq(Nat) /\ Downward(toolSent) /\ c \in Tool!Choice
  BY Running, ChoiceOf
<1>2. toolSent[l] = Tool!NotBegun /\ \A m \in Tool!ToolCall : m < l => toolSent[m] # Tool!NotBegun
  BY DEF Tool!Begins
<1>3. B \subseteq Tool!ToolCall /\ \A m \in B : layout[m] = c /\ toolSent[m] # Tool!NotBegun
  BY DEF BegunOf
<1>4. \A m \in B : m < l
  <2> SUFFICES ASSUME NEW m \in B PROVE m < l
    OBVIOUS
  <2>1. m \in Tool!ToolCall /\ toolSent[m] # Tool!NotBegun /\ m # l
    BY <1>2, <1>3
  <2>2. m \in Nat /\ l \in Nat
    BY <2>1, CallIs
  <2>3. ~(l < m)
    BY <1>1, <1>2, <2>1 DEF Downward
  <2> QED BY <2>1, <2>2, <2>3
<1>5. /\ c \in DOMAIN next <=> B # {}
      /\ B # {} => next[c] = Cardinality(B)
      /\ c \in DOMAIN last => \E m \in B : last[c] = Tool!KeyOf(m)
      /\ c \in DOMAIN byId => wire = "gemini" /\ byId[c] = [m \in B |-> Tool!KeyOf(m)]
  BY <1>1, PlacedNow DEF Gemini
<1>6. Tool!KeyOf(l) = <<c, Cardinality(B)>>
  <2>1. PICK snt : snt = toolSent
    OBVIOUS
  <2>2. /\ Downward(snt) /\ snt[l] = Tool!NotBegun
        /\ \A m \in Tool!ToolCall : m < l => snt[m] # Tool!NotBegun
    BY <1>1, <1>2, <2>1
  <2>3. Tool!KeyOf(l) = <<layout[l], Cardinality(BegunOf(snt, layout[l]))>>
    BY <1>1, <2>2, KeyNext
  <2> QED BY <2>1, <2>3
<1>7. IndexAt(c) = Cardinality(B)
  <2>1. Cardinality({}) = 0
    BY FS_EmptySet
  <2> HIDE DEF B
  <2> QED BY <1>5, <2>1 DEF IndexAt
<1>8. ~(c \in DOMAIN byId /\ id \in DOMAIN byId[c])
  <2>1. l \notin B
    BY <1>2, <1>3
  <2> HIDE DEF B
  <2> QED BY <1>5, <2>1
<1>9. ~(c \in DOMAIN last /\ parts[last[c]].name = 0)
  <2> SUFFICES ASSUME c \in DOMAIN last PROVE parts[last[c]].name # 0
    OBVIOUS
  <2>1. PICK m \in B : last[c] = Tool!KeyOf(m)
    BY <1>5
  <2>2. m \in Tool!ToolCall /\ layout[m] \notin emitted /\ toolSent[m] # Tool!NotBegun
    BY <1>3
  <2>3. PartAs(parts[Tool!KeyOf(m)], m, toolSent[m])
    BY <2>2, AtKey
  <2>4. m # 0
    BY <2>2, CallIs
  <2> QED BY <2>1, <2>3, <2>4 DEF PartAs
<1>10. Tool!GeminiKey(c, id, TRUE, joined) = {}
  BY <1>8, <1>9 DEF Tool!GeminiKey
<1> QED BY <1>4, <1>6, <1>7, <1>10

\* A call that has begun is found under its own key.
LEMMA GeminiOld ==
  ASSUME ToolInv, toolEnded = "no", Gemini, NEW l \in Tool!ToolCall, layout[l] \notin emitted,
         NEW named, NEW joined, CallAt(l, named, joined), toolSent[l] # Tool!NotBegun,
         NEW id, id = IF wire = "gemini" THEN l ELSE 0
  PROVE  /\ Tool!GeminiKey(layout[l], id, named, joined) = {Tool!KeyOf(l)}
         /\ wire = "gemini_idless" => \A m \in BegunOf(toolSent, layout[l]) : m <= l
<1> DEFINE c == layout[l]
           B == BegunOf(toolSent, c)
<1>1. layout \in Seq(Nat) /\ c \in Tool!Choice
  BY Running, ChoiceOf
<1>2. l \in B
  BY DEF BegunOf
<1>3. CASE wire = "gemini"
  <2>1. c \in DOMAIN byId /\ byId[c] = [m \in B |-> Tool!KeyOf(m)] /\ id = l
    BY <1>1, <1>2, <1>3, PlacedNow
  <2>2. id \in DOMAIN byId[c] /\ byId[c][id] = Tool!KeyOf(l)
    BY <1>2, <2>1
  <2> QED BY <1>3, <2>1, <2>2 DEF Tool!GeminiKey
<1>4. CASE wire = "gemini_idless"
  <2>1. PICK x \in B : last[c] = Tool!KeyOf(x) /\ \A m \in B : m <= x
    BY <1>1, <1>2, <1>4, PlacedNow
  <2>2. c \in DOMAIN last /\ c \notin DOMAIN byId
    BY <1>1, <1>2, <1>4, PlacedNow
  <2>3. /\ ~ joined /\ ~ named
        /\ \A m \in Tool!ToolCall : m > l /\ layout[m] = layout[l] => toolSent[m] = Tool!NotBegun
    BY <1>4 DEF CallAt, Tool!Begins
  <2>4. x \in Tool!ToolCall /\ layout[x] = layout[l] /\ toolSent[x] # Tool!NotBegun
    BY DEF BegunOf
  <2>5. x \in Nat /\ l \in Nat
    BY <2>4, CallIs
  <2>6. x = l
    BY <1>2, <2>1, <2>3, <2>4, <2>5
  <2>7. Tool!GeminiKey(c, id, named, joined) = {last[c]}
    BY <2>2, <2>3 DEF Tool!GeminiKey
  <2> QED BY <2>1, <2>6, <2>7
<1> QED BY <1>3, <1>4 DEF Gemini

\* Begun or not, a Gemini call is placed at its own key.
LEMMA GeminiAt ==
  ASSUME ToolInv, toolEnded = "no", Gemini, NEW l \in Tool!ToolCall, layout[l] \notin emitted,
         NEW named \in BOOLEAN, NEW joined, CallAt(l, named, joined),
         NEW id, id = IF wire = "gemini" THEN l ELSE 0,
         NEW found, found = Tool!GeminiKey(layout[l], id, named, joined)
  PROVE  /\ KeyAt(layout[l], found) = Tool!KeyOf(l)
         /\ found # {} => toolSent[l] # Tool!NotBegun
         /\ found = {} => /\ toolSent[l] = Tool!NotBegun
                          /\ IndexAt(layout[l]) = Cardinality(BegunOf(toolSent, layout[l]))
         /\ wire = "gemini_idless" => \A m \in BegunOf(toolSent, layout[l]) : m <= l
<1>1. CASE toolSent[l] # Tool!NotBegun
  <2>1. /\ found = {Tool!KeyOf(l)}
        /\ wire = "gemini_idless" => \A m \in BegunOf(toolSent, layout[l]) : m <= l
    BY <1>1, GeminiOld
  <2>2. KeyAt(layout[l], found) = Tool!KeyOf(l)
    BY <2>1 DEF KeyAt
  <2> QED BY <1>1, <2>1, <2>2
<1>2. CASE toolSent[l] = Tool!NotBegun
  <2>1. Tool!Begins(l) /\ named = TRUE
    BY <1>2 DEF CallAt
  <2>2. found = Tool!GeminiKey(layout[l], id, TRUE, joined)
    BY <2>1
  <2>3. /\ found = {} /\ Tool!KeyOf(l) = <<layout[l], IndexAt(layout[l])>>
        /\ IndexAt(layout[l]) = Cardinality(BegunOf(toolSent, layout[l]))
        /\ \A m \in BegunOf(toolSent, layout[l]) : m < l
    BY <2>1, <2>2, GeminiNew
  <2>4. KeyAt(layout[l], found) = Tool!KeyOf(l)
    BY <2>3 DEF KeyAt
  <2>5. \A m \in BegunOf(toolSent, layout[l]) : m <= l
    <3> SUFFICES ASSUME NEW m \in BegunOf(toolSent, layout[l]) PROVE m <= l
      OBVIOUS
    <3>1. m \in Tool!ToolCall
      BY DEF BegunOf
    <3>2. m \in Nat /\ l \in Nat
      BY <3>1, CallIs
    <3> QED BY <2>3, <3>2
  <2> QED BY <1>2, <2>3, <2>4, <2>5
<1> QED BY <1>1, <1>2

\* The parser's maps after a functionCall.
GeminiMaps(s, c, id, found, key) ==
    /\ s.emitted = emitted /\ s.next = NextWith(c, found) /\ s.byId = ByIdWith(c, id, key)
    /\ s.last = Tool!Put(last, c, key)

\* The maps that placing a call leaves are right for what is sent then.
LEMMA GeminiState ==
  ASSUME ToolInv, toolEnded = "no", Gemini, NEW l \in Tool!ToolCall, layout[l] \notin emitted,
         NEW named \in BOOLEAN, NEW joined, CallAt(l, named, joined),
         NEW id, id = IF wire = "gemini" THEN l ELSE 0,
         NEW found, found = Tool!GeminiKey(layout[l], id, named, joined),
         NEW n \in 0..3, NEW s, GeminiMaps(s, layout[l], id, found, Tool!KeyOf(l))
  PROVE  Placed(s, SentWith(l, n)) /\ Gone(s)
<1> DEFINE c == layout[l]
           B == BegunOf(toolSent, c)
           C == B \cup {l}
<1>1. PICK snt : snt = SentWith(l, n)
  OBVIOUS
<1>2. /\ layout \in Seq(Nat) /\ toolSent \in [Tool!ToolCall -> -1..3]
      /\ c \in Tool!Choice /\ l \in Nat /\ l # 0
  BY Running, ChoiceOf, CallIs
<1>3. snt[l] = n /\ n # Tool!NotBegun /\ \A m \in Tool!ToolCall : m # l => snt[m] = toolSent[m]
  BY <1>1, <1>2 DEF SentWith, Tool!NotBegun
<1>4. BegunOf(snt, c) = C
  BY <1>3 DEF BegunOf
<1>5. \A d : d # c => BegunOf(snt, d) = BegunOf(toolSent, d)
  BY <1>3 DEF BegunOf
<1>6. l \in B <=> toolSent[l] # Tool!NotBegun
  BY DEF BegunOf
<1>7. IsFiniteSet(B)
  BY <1>2, BegunFinite
<1>8. /\ found # {} => l \in B
      /\ found = {} => l \notin B /\ IndexAt(c) = Cardinality(B)
      /\ wire = "gemini_idless" => \A m \in B : m <= l
  BY <1>6, GeminiAt
<1>9. /\ s.emitted = emitted /\ s.next = NextWith(c, found) /\ s.byId = ByIdWith(c, id, Tool!KeyOf(l))
      /\ s.last = Tool!Put(last, c, Tool!KeyOf(l))
  BY DEF GeminiMaps
<1>10. /\ DOMAIN s.last = DOMAIN last \cup {c} /\ s.last[c] = Tool!KeyOf(l)
       /\ \A d \in DOMAIN last : d # c => s.last[d] = last[d]
  BY <1>9 DEF Tool!Put
<1>11. /\ c \in DOMAIN next <=> B # {}
       /\ B # {} => next[c] = Cardinality(B)
       /\ wire = "gemini_idless" => c \notin DOMAIN byId
       /\ wire = "gemini" => (c \in DOMAIN byId <=> B # {})
       /\ wire = "gemini" /\ B # {} => byId[c] = [m \in B |-> Tool!KeyOf(m)]
  BY <1>2, PlacedNow
<1>12. /\ DOMAIN s.next = DOMAIN next \cup {c} /\ s.next[c] = Cardinality(C)
       /\ \A d \in DOMAIN next : d # c => s.next[d] = next[d]
  <2> HIDE DEF B
  <2>1. CASE found # {}
    <3>1. C = B /\ B # {}
      BY <1>8, <2>1
    <3> QED BY <1>9, <1>11, <2>1, <3>1 DEF NextWith
  <2>2. CASE found = {}
    <3>1. Cardinality(C) = Cardinality(B) + 1
      BY <1>7, <1>8, <2>2, FS_AddElement
    <3>2. s.next = Tool!Put(next, c, Cardinality(C))
      BY <1>8, <1>9, <2>2, <3>1 DEF NextWith
    <3> HIDE DEF C
    <3> QED BY <3>2 DEF Tool!Put
  <2> QED BY <2>1, <2>2
<1>13. wire = "gemini_idless" => s.byId = byId
  BY <1>9 DEF ByIdWith
<1>14. ASSUME wire = "gemini"
       PROVE  /\ DOMAIN s.byId = DOMAIN byId \cup {c} /\ s.byId[c] = [m \in C |-> Tool!KeyOf(m)]
              /\ \A d \in DOMAIN byId : d # c => s.byId[d] = byId[d]
  <2> DEFINE old == IF c \in DOMAIN byId THEN byId[c] ELSE Tool!Nothing
  <2>1. s.byId = Tool!Put(byId, c, Tool!Put(old, l, Tool!KeyOf(l)))
    BY <1>2, <1>9, <1>14 DEF ByIdWith
  <2>2. old = [m \in B |-> Tool!KeyOf(m)]
    <3> HIDE DEF B
    <3> QED BY <1>11, <1>14 DEF Tool!Nothing
  <2> HIDE DEF old, B
  <2>3. Tool!Put(old, l, Tool!KeyOf(l)) = [m \in C |-> Tool!KeyOf(m)]
    BY <2>2 DEF Tool!Put
  <2> QED BY <2>1, <2>3 DEF Tool!Put
<1>15. ASSUME NEW d \in Tool!Choice, d \notin s.emitted PROVE PlacedAt(s, snt, d)
  <2>1. CASE d = c
    <3>1. wire = "gemini_idless" => \A m \in C : m <= l
      BY <1>2, <1>8
    <3>2. l \in C
      OBVIOUS
    <3> HIDE DEF B, C
    <3>3. wire = "gemini_idless" => c \notin DOMAIN s.byId
      BY <1>11, <1>13
    <3>4. wire = "gemini" => c \in DOMAIN s.byId /\ s.byId[c] = [m \in C |-> Tool!KeyOf(m)]
      BY <1>14
    <3>5. c \in DOMAIN s.next /\ c \in DOMAIN s.last /\ C # {}
      BY <1>10, <1>12, <3>2
    <3> QED BY <1>4, <1>10, <1>12, <2>1, <3>1, <3>2, <3>3, <3>4, <3>5 DEF PlacedAt
  <2>2. CASE d # c
    <3>1. PlacedAt(Tool!Now, toolSent, d)
      BY <1>9, <1>15, NowFields, Running DEF Sound, Placed
    <3>2. /\ d \in DOMAIN s.next <=> d \in DOMAIN next
          /\ d \in DOMAIN s.last <=> d \in DOMAIN last
          /\ d \in DOMAIN s.byId <=> d \in DOMAIN byId
          /\ d \in DOMAIN next => s.next[d] = next[d]
          /\ d \in DOMAIN last => s.last[d] = last[d]
          /\ d \in DOMAIN byId => s.byId[d] = byId[d]
      <4> HIDE DEF B, C
      <4> QED BY <1>10, <1>12, <1>13, <1>14, <2>2 DEF Gemini
    <3>3. BegunOf(snt, d) = BegunOf(toolSent, d)
      BY <1>5, <2>2
    <3> QED BY <3>1, <3>2, <3>3, NowFields DEF PlacedAt
  <2> QED BY <2>1, <2>2
<1>16. Placed(s, snt)
  BY <1>15 DEF Placed
<1>17. Gone(s)
  <2> SUFFICES ASSUME NEW d \in s.emitted
               PROVE  d \notin DOMAIN s.byId /\ d \notin DOMAIN s.last /\ d \notin DOMAIN s.next
    BY DEF Gone
  <2>1. d \in emitted /\ d # c
    BY <1>9
  <2>2. d \notin DOMAIN byId /\ d \notin DOMAIN last /\ d \notin DOMAIN next
    BY <2>1, NowFields, Running DEF Sound, Gone
  <2> HIDE DEF B, C
  <2> QED BY <1>10, <1>12, <1>13, <1>14, <2>1, <2>2 DEF Gemini
<1> QED BY <1>1, <1>16, <1>17

\* The updates of a functionCall: its id, its name, its arguments.
FunctionUps(l, id, named, w) ==
    (IF id = 0 THEN <<>> ELSE <<Tool!U("id", id)>>)
    \o (IF named THEN <<Tool!U("name", l)>> ELSE <<>>) \o <<w>>

\* The updates of a function call bring its own part where the provider is.
LEMMA FunctionUpdates ==
  ASSUME NEW l \in Nat, l # 0, Gemini, NEW id, id = IF wire = "gemini" THEN l ELSE 0,
         NEW named \in BOOLEAN, NEW w \in ToolUpdate, NEW n,
         \A q : Named(q, l) => PartAs(Tool!Assigned(q, w), l, n),
         NEW ups, ups = FunctionUps(l, id, named, w)
  PROVE  /\ Updates(ups)
         /\ \A p \in ToolPart : (named \/ Named(p, l)) /\ (wire = "gemini_idless" => p.id = 0)
                                   => PartAs(Result(p, ups), l, n)
<1>1. PICK a \in ToolUpdate, b \in ToolUpdate : a = Tool!U("id", l) /\ b = Tool!U("name", l)
  BY UTyped
<1>2. /\ <<a>> \o <<b>> = <<a, b>> /\ <<a, b>> \o <<w>> = <<a, b, w>> /\ <<a>> \o <<>> = <<a>>
      /\ <<a>> \o <<w>> = <<a, w>> /\ <<>> \o <<b>> = <<b>> /\ <<b>> \o <<w>> = <<b, w>>
      /\ <<>> \o <<>> = <<>> /\ <<>> \o <<w>> = <<w>>
  <2>1. <<a>> \o <<b>> = <<a, b>> /\ <<a>> \o <<w>> = <<a, w>> /\ <<b>> \o <<w>> = <<b, w>>
    BY Joined11
  <2>2. <<a, b>> \o <<w>> = <<a, b, w>>
    BY Joined21
  <2>3. /\ <<a>> \o <<>> = <<a>> /\ <<>> \o <<b>> = <<b>> /\ <<>> \o <<>> = <<>>
        /\ <<>> \o <<w>> = <<w>>
    BY JoinedNone
  <2> QED BY <2>1, <2>2, <2>3, Zenon
<1>3. CASE wire = "gemini" /\ named
  <2>1. ups = <<a, b, w>>
    <3>1. id = l /\ id # 0
      BY <1>3
    <3> QED BY <1>1, <1>2, <1>3, <3>1, Zenon DEF FunctionUps
  <2>2. Updates(ups) /\ \A p : Result(p, ups) = Tool!Assigned(Tool!Assigned(Tool!Assigned(p, a), b), w)
    BY <2>1, Result3
  <2>3. ASSUME NEW p \in ToolPart PROVE PartAs(Result(p, ups), l, n)
    <3>1. PICK q : q = Tool!Assigned(Tool!Assigned(p, a), b)
      OBVIOUS
    <3>2. Named(q, l)
      BY <1>1, <1>3, <3>1, Introduced
    <3> QED BY <2>2, <3>1, <3>2
  <2> QED BY <2>2, <2>3
<1>4. CASE wire = "gemini" /\ ~ named
  <2>1. ups = <<a, w>>
    <3>1. id = l /\ id # 0
      BY <1>4
    <3> QED BY <1>1, <1>2, <1>4, <3>1, Zenon DEF FunctionUps
  <2>2. Updates(ups) /\ \A p : Result(p, ups) = Tool!Assigned(Tool!Assigned(p, a), w)
    BY <2>1, Result2
  <2>3. ASSUME NEW p \in ToolPart, Named(p, l) PROVE PartAs(Result(p, ups), l, n)
    <3>1. PICK q : q = Tool!Assigned(p, a)
      OBVIOUS
    <3>2. q \in ToolPart /\ q.name = p.name /\ q.id = l
      BY <1>1, <3>1, Identified
    <3>3. Named(q, l)
      BY <1>4, <2>3, <3>2 DEF Named, IdOf
    <3> QED BY <2>2, <3>1, <3>3
  <2> QED BY <1>4, <2>2, <2>3
<1>5. CASE wire = "gemini_idless" /\ named
  <2>1. ups = <<b, w>>
    <3>1. id = 0
      BY <1>5
    <3> QED BY <1>1, <1>2, <1>5, <3>1, Zenon DEF FunctionUps
  <2>2. Updates(ups) /\ \A p : Result(p, ups) = Tool!Assigned(Tool!Assigned(p, b), w)
    BY <2>1, Result2
  <2>3. ASSUME NEW p \in ToolPart, p.id = 0 PROVE PartAs(Result(p, ups), l, n)
    <3>1. PICK q : q = Tool!Assigned(p, b)
      OBVIOUS
    <3>2. q \in ToolPart /\ q.name = l /\ q.id = p.id
      BY <1>1, <3>1, NamedBy
    <3>3. Named(q, l)
      BY <1>5, <2>3, <3>2 DEF Named, IdOf
    <3> QED BY <2>2, <3>1, <3>3
  <2> QED BY <1>5, <2>2, <2>3
<1>6. CASE wire = "gemini_idless" /\ ~ named
  <2>1. ups = <<w>>
    <3>1. id = 0
      BY <1>6
    <3> QED BY <1>2, <1>6, <3>1, Zenon DEF FunctionUps
  <2>2. Updates(ups) /\ \A p : Result(p, ups) = Tool!Assigned(p, w)
    BY <2>1, Result1
  <2> QED BY <1>6, <2>2
<1> QED BY <1>3, <1>4, <1>5, <1>6 DEF Gemini

\* A function call that is placed and applied keeps the invariant.
LEMMA FunctionStep ==
  ASSUME ToolInv, NEW l \in Tool!ToolCall, NEW named \in BOOLEAN, NEW joined \in BOOLEAN,
         NEW n \in {0, 2, 3}, n = 0 => named, CallAt(l, named, joined),
         Tool!FunctionCall(l, named, n, joined)
  PROVE  ToolInv'
<1> DEFINE c == layout[l]
<1>1. Gemini /\ l \in Nat /\ l # 0
  BY CallIs DEF Tool!FunctionCall, Gemini
<1>2. PICK id : id = IF wire = "gemini" THEN l ELSE 0
  OBVIOUS
<1>3. PICK found : found = Tool!GeminiKey(c, id, named, joined)
  OBVIOUS
<1>4. PICK x : x = Tool!GeminiPlaced(c, id, found)
  OBVIOUS
<1>5. PICK w \in ToolUpdate :
        w = IF n > 0 THEN Tool!U("whole", Tool!Text(l, n)) ELSE Tool!U("start", Tool!Braces)
  <2>1. n \in 0..3
    OBVIOUS
  <2> QED BY <1>1, <2>1, TextTyped, UTyped
<1>6. PICK ups : ups = FunctionUps(l, id, named, w)
  OBVIOUS
<1>7. Tool!Pushed(Tool!Applied(x.state, x.key, ups), {}) /\ Tool!Sends(l, n)
  <2>1. (IF n > 0 THEN <<Tool!U("whole", Tool!Text(l, n))>>
         ELSE IF named \/ x.key \notin DOMAIN parts THEN <<Tool!U("start", Tool!Braces)>> ELSE <<>>)
          = <<w>>
    <3>1. CASE n > 0
      BY <1>5, <3>1, Zenon
    <3>2. CASE ~(n > 0)
      <4>1. named
        BY <3>2
      <4> QED BY <1>5, <3>2, <4>1, Zenon
    <3> QED BY <3>1, <3>2
  <2> QED BY <1>2, <1>3, <1>4, <1>6, <2>1, Zenon DEF Tool!FunctionCall, FunctionUps, Tool!NoId
<1>8. toolEnded = "no" /\ n \in 0..3
  BY <1>7 DEF Tool!Pushed
<1>9. \A q : Named(q, l) => PartAs(Tool!Assigned(q, w), l, n)
  <2> SUFFICES ASSUME NEW q, Named(q, l) PROVE PartAs(Tool!Assigned(q, w), l, n)
    OBVIOUS
  <2>1. CASE n = 0
    <3>1. w = Tool!U("start", Tool!Braces) /\ wire \in Placeholder
      BY <1>1, <1>5, <2>1 DEF Gemini, Placeholder
    <3> QED BY <1>1, <2>1, <3>1, Held
  <2>2. CASE n # 0
    <3>1. w = Tool!U("whole", Tool!Text(l, n))
      BY <1>5, <2>2
    <3> QED BY <1>1, <1>8, <2>2, <3>1, Wholly
  <2> QED BY <2>1, <2>2
<1>10. /\ Updates(ups)
       /\ \A p \in ToolPart : (named \/ Named(p, l)) /\ (wire = "gemini_idless" => p.id = 0)
                                 => PartAs(Result(p, ups), l, n)
  BY <1>1, <1>2, <1>5, <1>6, <1>9, FunctionUpdates
<1>11. PICK key : key = KeyAt(c, found)
  OBVIOUS
<1>12. /\ x.key = key
       /\ \/ x.state = Tool!Err(Tool!Now)
          \/ /\ Fine(x.state) /\ x.state.ok
             /\ x.state.parts = parts /\ x.state.emitted = emitted /\ x.state.out = out
             /\ x.state.next = NextWith(c, found) /\ x.state.byId = ByIdWith(c, id, key)
             /\ x.state.last = Tool!Put(last, c, key)
  <2>1. PICK d : d = c
    OBVIOUS
  <2>2. key = KeyAt(d, found) /\ x = Tool!GeminiPlaced(d, id, found)
    BY <1>4, <1>11, <2>1
  <2>3. /\ x.key = key
       /\ \/ x.state = Tool!Err(Tool!Now)
          \/ /\ Fine(x.state) /\ x.state.ok
             /\ x.state.parts = parts /\ x.state.emitted = emitted /\ x.state.out = out
             /\ x.state.next = NextWith(d, found) /\ x.state.byId = ByIdWith(d, id, key)
             /\ x.state.last = Tool!Put(last, d, key)
    BY <1>8, <2>2, PlacedIs
  <2> QED BY <2>1, <2>3
<1>13. CASE x.state = Tool!Err(Tool!Now)
  <2>1. PICK t : t = x.state
    OBVIOUS
  <2>2. ~ t.ok
    <3>1. PICK m : m = Tool!Now
      OBVIOUS
    <3>2. Fine(m) /\ t = Tool!Err(m)
      BY <1>8, <1>13, <2>1, <3>1, Running
    <3> QED BY <3>2, ErrFine
  <2>3. Tool!Applied(t, x.key, ups) = t
    BY <1>10, <2>2, AppliedErr
  <2>4. Tool!Pushed(Tool!Err(Tool!Now), {})
    BY <1>7, <1>13, <2>1, <2>3
  <2>5. PICK snt : snt = SentWith(l, n)
    OBVIOUS
  <2>6. snt \in [Tool!ToolCall -> -1..3] /\ OutAs(out, snt)
    BY <1>8, <2>5, SentWithIs
  <2>7. toolSent' = snt
    BY <1>7, <2>5 DEF SentWith, Tool!Sends
  <2> QED BY <2>4, <2>6, <2>7, ErrorStep
<1>14. CASE x.state # Tool!Err(Tool!Now)
  <2>1. PICK s : s = x.state
    OBVIOUS
  <2>2. /\ Fine(s) /\ s.ok /\ s.parts = parts /\ s.emitted = emitted /\ s.out = out
        /\ s.next = NextWith(c, found) /\ s.byId = ByIdWith(c, id, key)
        /\ s.last = Tool!Put(last, c, key) /\ x.key = key
    BY <1>12, <1>14, <2>1
  <2>3. PICK r : r = Tool!Applied(s, key, ups)
    OBVIOUS
  <2>4. PICK p : p = Result(PartAt(s, key), ups)
    OBVIOUS
  <2>5. PartStep(s, r, key, p)
    BY <1>10, <2>2, <2>3, <2>4, PieceResult
  <2>6. Tool!Pushed(r, {})
    BY <1>7, <2>1, <2>2, <2>3
  <2>7. layout[l] \notin emitted => key = Tool!KeyOf(l)
    BY <1>1, <1>2, <1>3, <1>8, <1>11, GeminiAt
  <2>8. key[1] = layout[l]
    <3>1. CASE c \notin emitted
      BY <2>7, <3>1, CallIs
    <3>2. CASE c \in emitted
      <4>1. c \notin DOMAIN byId /\ c \notin DOMAIN last
        BY <1>8, <3>2, Running, NowFields DEF Sound, Gone
      <4>2. found = {}
        BY <1>3, <4>1 DEF Tool!GeminiKey
      <4>3. key = <<c, IndexAt(c)>>
        BY <1>11, <4>2 DEF KeyAt
      <4> QED BY <4>3
    <3> QED BY <3>1, <3>2
  <2>9. ASSUME c \notin emitted
        PROVE  key = Tool!KeyOf(l) /\ PartAs(p, l, n) /\ Placed(s, SentWith(l, n)) /\ Gone(s)
    <3>1. key = Tool!KeyOf(l)
      BY <2>7, <2>9
    <3>2. GeminiMaps(s, c, id, found, Tool!KeyOf(l))
      BY <2>2, <3>1 DEF GeminiMaps
    <3>3. Placed(s, SentWith(l, n)) /\ Gone(s)
      BY <1>1, <1>2, <1>3, <1>8, <2>9, <3>2, GeminiState
    <3>4. PartAt(s, key) = PartAt(Tool!Now, Tool!KeyOf(l))
      BY <2>2, <3>1, NowFields DEF PartAt
    <3>5. PICK z : z = PartAt(s, key)
      OBVIOUS
    <3>6. z \in ToolPart
      BY <2>2, <3>5, PartAtTyped
    <3>7. (named \/ Named(z, l)) /\ (wire = "gemini_idless" => z.id = 0)
      <4>1. CASE toolSent[l] # Tool!NotBegun
        <5>1. PartAs(z, l, toolSent[l])
          BY <1>8, <2>9, <3>4, <3>5, <4>1, AtKey
        <5>2. Named(z, l)
          BY <5>1, PartAsNamed
        <5> QED BY <5>2 DEF Named, IdOf
      <4>2. CASE toolSent[l] = Tool!NotBegun
        <5>1. z = Tool!NewPart
          BY <1>8, <2>9, <3>4, <3>5, <4>2, AtKey
        <5>2. named
          BY <4>2 DEF CallAt
        <5>3. Tool!NewPart.id = 0
          BY DEF Tool!NewPart, Tool!NoId
        <5> QED BY <5>1, <5>2, <5>3
      <4> QED BY <4>1, <4>2
    <3>8. PartAs(p, l, n)
      BY <1>10, <2>4, <3>5, <3>6, <3>7
    <3> QED BY <3>1, <3>3, <3>8
  <2>10. toolSent[l] # Tool!NotBegun \/ Tool!Begins(l)
    BY DEF CallAt
  <2> QED BY <1>7, <1>8, <2>2, <2>5, <2>6, <2>8, <2>9, <2>10, FrameStep
<1> QED BY <1>13, <1>14

\* A Gemini functionCall part keeps the invariant.
LEMMA FunctionCallPartStep ==
  ASSUME ToolInv, NEW l \in Tool!ToolCall, NEW joined \in BOOLEAN, Tool!FunctionCallPart(l, joined)
  PROVE  ToolInv'
<1>1. CASE Tool!Begins(l) /\ \E n \in {0, 2} : Tool!FunctionCall(l, TRUE, n, joined)
  <2>1. PICK n \in {0, 2} : Tool!FunctionCall(l, TRUE, n, joined)
    BY <1>1
  <2>2. PICK named \in BOOLEAN : named = TRUE
    OBVIOUS
  <2>3. CallAt(l, named, joined) /\ Tool!FunctionCall(l, named, n, joined) /\ (n = 0 => named)
    BY <1>1, <2>1, <2>2 DEF CallAt
  <2>4. n \in {0, 2, 3}
    OBVIOUS
  <2> QED BY <2>3, <2>4, FunctionStep
<1>2. CASE /\ toolSent[l] # Tool!NotBegun /\ wire = "gemini"
           /\ \E named \in BOOLEAN, n \in {0, 2, 3} :
                (n = 0 => named) /\ Tool!FunctionCall(l, named, n, joined)
  <2>1. PICK named \in BOOLEAN, n \in {0, 2, 3} :
          (n = 0 => named) /\ Tool!FunctionCall(l, named, n, joined)
    BY <1>2
  <2>2. CallAt(l, named, joined)
    BY <1>2 DEF CallAt
  <2> QED BY <2>1, <2>2, FunctionStep
<1>3. CASE /\ toolSent[l] # Tool!NotBegun /\ ~ joined
           /\ \A m \in Tool!ToolCall : m > l /\ layout[m] = layout[l] => toolSent[m] = Tool!NotBegun
           /\ Tool!FunctionCall(l, FALSE, 2, joined)
  <2>1. PICK named \in BOOLEAN : named = FALSE
    OBVIOUS
  <2>2. PICK n \in {0, 2, 3} : n = 2
    OBVIOUS
  <2>3. CallAt(l, named, joined)
    BY <1>3, <2>1 DEF CallAt
  <2>4. n = 0 => named
    BY <2>2
  <2>5. Tool!FunctionCall(l, named, n, joined)
    BY <1>3, <2>1, <2>2, Zenon
  <2> QED BY <2>3, <2>4, <2>5, FunctionStep
<1> QED BY <1>1, <1>2, <1>3 DEF Tool!FunctionCallPart

\* response.completed: the items one by one, each with what it repeats.
RepeatedTo(cut, l) == IF cut THEN toolSent[l] ELSE 2
RepeatItem(s, l, cut) ==
    Tool!Applied(s, Tool!KeyOf(l), Tool!ItemUpdates(l, Tool!Text(l, RepeatedTo(cut, l)), TRUE))

IsRepeated(g, items, cut, m) ==
    g = [n \in 0..m |-> IF n = 0 THEN Tool!Now ELSE RepeatItem(g[n - 1], items[n], cut)]

\* The states over a list of repeated items exist, up to any length.
LEMMA RepeatedExists ==
  ASSUME NEW items, NEW cut
  PROVE  \A m \in Nat : \E g : IsRepeated(g, items, cut, m)
<1> DEFINE S == {m \in Nat : \E g : IsRepeated(g, items, cut, m)}
<1>1. 0 \in S
  <2>1. IsRepeated([n \in 0..0 |-> Tool!Now], items, cut, 0)
    BY DEF IsRepeated
  <2> QED BY <2>1
<1>2. ASSUME NEW m \in S PROVE m + 1 \in S
  <2>1. PICK g : IsRepeated(g, items, cut, m)
    OBVIOUS
  <2> DEFINE h == [n \in 0..m + 1 |-> IF n = m + 1 THEN RepeatItem(g[m], items[m + 1], cut) ELSE g[n]]
  <2>2. \A n \in 0..m : g[n] = IF n = 0 THEN Tool!Now ELSE RepeatItem(g[n - 1], items[n], cut)
    BY <2>1 DEF IsRepeated
  <2>3. \A n \in 0..m + 1 : h[n] = IF n = 0 THEN Tool!Now ELSE RepeatItem(h[n - 1], items[n], cut)
    BY <2>2
  <2>4. IsRepeated(h, items, cut, m + 1)
    BY <2>3 DEF IsRepeated
  <2> QED BY <2>4
<1> HIDE DEF S
<1>3. S = Nat
  BY <1>1, <1>2, Induct DEF S
<1> QED BY <1>3 DEF S

\* Repeating the items is repeating them one by one.
LEMMA RepeatedBy ==
  ASSUME NEW items, Len(items) \in Nat, NEW cut
  PROVE  \E g : /\ Tool!Repeated(items, cut) = g[Len(items)] /\ g[0] = Tool!Now
                /\ \A n \in 1..Len(items) : g[n] = RepeatItem(g[n - 1], items[n], cut)
<1>1. PICK g : IsRepeated(g, items, cut, Len(items)) /\ Tool!Repeated(items, cut) = g[Len(items)]
  <2>1. \E g : IsRepeated(g, items, cut, Len(items))
    BY RepeatedExists
  <2> QED BY <2>1 DEF Tool!Repeated, IsRepeated, RepeatItem, RepeatedTo
<1>2. \A n \in 0..Len(items) : g[n] = IF n = 0 THEN Tool!Now ELSE RepeatItem(g[n - 1], items[n], cut)
  BY <1>1 DEF IsRepeated
<1>3. g[0] = Tool!Now /\ \A n \in 1..Len(items) : g[n] = RepeatItem(g[n - 1], items[n], cut)
  BY <1>2
<1> QED BY <1>1, <1>3

\* After the first n items: an error, or these as repeated and the others as sent.
RepeatedSoFar(s, items, cut, n) ==
    /\ Fine(s) /\ SameBut(Tool!Now, s)
    /\ s.ok =>
          /\ DOMAIN s.parts = DOMAIN parts
          /\ 0 \notin emitted =>
                \A i \in 1..Len(items) :
                    PartAs(s.parts[Tool!KeyOf(items[i])], items[i],
                           IF i <= n THEN RepeatedTo(cut, items[i]) ELSE toolSent[items[i]])

\* One more repeated item leaves its call's part with the item's text.
LEMMA RepeatItemStep ==
  ASSUME ToolInv, toolEnded = "no", wire = "responses", NEW cut \in BOOLEAN,
         NEW items, Len(items) \in Nat,
         \A i \in 1..Len(items) : items[i] \in Tool!ToolCall /\ toolSent[items[i]] # Tool!NotBegun,
         \A i, j \in 1..Len(items) : items[i] = items[j] => i = j,
         NEW n \in Nat, n + 1 \in 1..Len(items), NEW s, RepeatedSoFar(s, items, cut, n)
  PROVE  RepeatedSoFar(RepeatItem(s, items[n + 1], cut), items, cut, n + 1)
<1>1. PICK l : l = items[n + 1]
  OBVIOUS
<1>2. l \in Tool!ToolCall /\ toolSent[l] # Tool!NotBegun
  BY <1>1
<1>3. l \in Nat /\ toolSent[l] \in 0..3 /\ layout[l] = 0 /\ Tool!KeyOf(l)[1] = 0 /\ layout \in Seq(Nat)
  <2>1. l \in Nat /\ toolSent[l] \in -1..3 /\ Tool!KeyOf(l)[1] = layout[l]
    BY <1>2, CallIs
  <2>2. layout[l] = 0 /\ layout \in Seq(Nat)
    BY <1>2 DEF ToolInv, ToolInvAt
  <2> QED BY <1>2, <2>1, <2>2 DEF Tool!NotBegun
<1>4. PICK x \in 0..3 : x = RepeatedTo(cut, l)
  BY <1>3 DEF RepeatedTo
<1>5. PICK ups : ups = Tool!ItemUpdates(l, Tool!Text(l, x), TRUE)
  OBVIOUS
<1>6. \A p : Named(p, l) => Updates(ups) /\ PartAs(Result(p, ups), l, x)
  BY <1>3, <1>5, ItemResult
<1>7. Updates(ups)
  <2>1. Named(Part(l, IdOf(l), <<>>, FALSE, FALSE), l)
    BY <1>2, <1>3, CallIs, PartMade, EmptySeq DEF Named, Part, ToolArgs
  <2> QED BY <1>6, <2>1
<1>8. PICK k : k = Tool!KeyOf(l)
  OBVIOUS
<1>9. PICK r : r = Tool!Applied(s, k, ups)
  OBVIOUS
<1>10. r = RepeatItem(s, items[n + 1], cut)
  BY <1>1, <1>4, <1>5, <1>8, <1>9 DEF RepeatItem
<1>11. CASE ~ s.ok
  <2>1. r = s
    BY <1>7, <1>9, <1>11, AppliedErr
  <2>2. RepeatedSoFar(s, items, cut, n + 1)
    BY <1>11 DEF RepeatedSoFar
  <2> QED BY <1>10, <2>1, <2>2
<1>12. CASE s.ok
  <2>1. /\ Fine(s) /\ SameBut(Tool!Now, s) /\ DOMAIN s.parts = DOMAIN parts
        /\ 0 \notin emitted =>
                \A i \in 1..Len(items) :
                    PartAs(s.parts[Tool!KeyOf(items[i])], items[i],
                           IF i <= n THEN RepeatedTo(cut, items[i]) ELSE toolSent[items[i]])
    BY <1>12 DEF RepeatedSoFar
  <2>2. PartStep(s, r, k, Result(PartAt(s, k), ups))
    BY <1>7, <1>9, <1>12, <2>1, PieceResult
  <2>3. Fine(r) /\ SameBut(Tool!Now, r)
    BY <2>1, <2>2 DEF PartStep, SameBut
  <2>4. ASSUME r.ok
        PROVE  /\ DOMAIN r.parts = DOMAIN parts
               /\ \A i \in 1..Len(items) :
                    PartAs(r.parts[Tool!KeyOf(items[i])], items[i],
                           IF i <= n + 1 THEN RepeatedTo(cut, items[i]) ELSE toolSent[items[i]])
    <3>1. s.emitted = emitted
      BY <2>1, NowFields DEF SameBut
    <3>2. /\ 0 \notin emitted /\ DOMAIN r.parts = DOMAIN s.parts \cup {k}
          /\ r.parts[k] = Result(PartAt(s, k), ups)
          /\ \A y \in DOMAIN s.parts : y # k => r.parts[y] = s.parts[y]
      BY <1>3, <1>8, <2>2, <2>4, <3>1 DEF PartStep
    <3>3. ASSUME NEW i \in 1..Len(items)
          PROVE  Tool!KeyOf(items[i]) \in DOMAIN parts
      <4>1. items[i] \in Tool!ToolCall /\ toolSent[items[i]] # Tool!NotBegun
        OBVIOUS
      <4>2. layout[items[i]] = 0
        BY <4>1 DEF ToolInv, ToolInvAt
      <4> QED BY <3>2, <4>1, <4>2, AtKey
    <3>4. k \in DOMAIN parts
      BY <1>1, <1>8, <3>3
    <3>5. PartAs(r.parts[k], l, x)
      <4>1. PartAt(s, k) = s.parts[k]
        BY <2>1, <3>4 DEF PartAt
      <4>2. Named(s.parts[k], l)
        BY <1>1, <1>8, <2>1, <3>2, PartAsNamed
      <4> QED BY <1>6, <3>2, <4>1, <4>2
    <3>6. ASSUME NEW i \in 1..Len(items)
          PROVE  PartAs(r.parts[Tool!KeyOf(items[i])], items[i],
                        IF i <= n + 1 THEN RepeatedTo(cut, items[i]) ELSE toolSent[items[i]])
      <4>1. CASE i = n + 1
        BY <1>1, <1>4, <1>8, <3>5, <4>1
      <4>2. CASE i # n + 1
        <5>1. Tool!KeyOf(items[i]) # k
          <6>1. items[i] # l /\ items[i] \in Tool!ToolCall
            BY <1>1, <4>2
          <6> QED BY <1>2, <1>3, <1>8, <6>1, KeyInjective
        <5>2. r.parts[Tool!KeyOf(items[i])] = s.parts[Tool!KeyOf(items[i])]
          BY <2>1, <3>2, <3>3, <5>1
        <5>3. i <= n + 1 <=> i <= n
          BY <4>2
        <5> QED BY <2>1, <3>2, <5>2, <5>3
      <4> QED BY <4>1, <4>2
    <3>7. DOMAIN r.parts = DOMAIN parts
      BY <2>1, <3>2, <3>4
    <3> QED BY <3>6, <3>7
  <2>5. RepeatedSoFar(r, items, cut, n + 1)
    BY <2>3, <2>4 DEF RepeatedSoFar
  <2> QED BY <1>10, <2>5
<1> QED BY <1>11, <1>12

\* After all items are repeated, each part has its item's text.
LEMMA RepeatedAll ==
  ASSUME ToolInv, toolEnded = "no", wire = "responses", NEW cut \in BOOLEAN,
         NEW items, Len(items) \in Nat,
         \A i \in 1..Len(items) : items[i] \in Tool!ToolCall /\ toolSent[items[i]] # Tool!NotBegun,
         \A i, j \in 1..Len(items) : items[i] = items[j] => i = j
  PROVE  RepeatedSoFar(Tool!Repeated(items, cut), items, cut, Len(items))
<1>1. PICK g : /\ Tool!Repeated(items, cut) = g[Len(items)] /\ g[0] = Tool!Now
               /\ \A n \in 1..Len(items) : g[n] = RepeatItem(g[n - 1], items[n], cut)
  BY RepeatedBy
<1> DEFINE S == {n \in Nat : n <= Len(items) => RepeatedSoFar(g[n], items, cut, n)}
<1>2. RepeatedSoFar(Tool!Now, items, cut, 0)
  <2>1. Fine(Tool!Now) /\ SameBut(Tool!Now, Tool!Now) /\ Tool!Now.parts = parts
    BY Running, NowFields DEF SameBut
  <2>2. ASSUME 0 \notin emitted, NEW i \in 1..Len(items)
        PROVE  PartAs(parts[Tool!KeyOf(items[i])], items[i], toolSent[items[i]])
    <3>1. items[i] \in Tool!ToolCall /\ toolSent[items[i]] # Tool!NotBegun
      OBVIOUS
    <3>2. layout[items[i]] = 0
      BY <3>1 DEF ToolInv, ToolInvAt
    <3> QED BY <2>2, <3>1, <3>2, AtKey
  <2>3. \A i \in 1..Len(items) : ~(i <= 0)
    OBVIOUS
  <2> QED BY <2>1, <2>2, <2>3 DEF RepeatedSoFar
<1>3. 0 \in S
  BY <1>1, <1>2
<1>4. ASSUME NEW n \in S PROVE n + 1 \in S
  <2> SUFFICES ASSUME n + 1 <= Len(items) PROVE RepeatedSoFar(g[n + 1], items, cut, n + 1)
    OBVIOUS
  <2>1. n \in Nat /\ n <= Len(items) /\ n + 1 \in 1..Len(items) /\ (n + 1) - 1 = n
    OBVIOUS
  <2>2. RepeatedSoFar(g[n], items, cut, n)
    BY <2>1
  <2>3. g[n + 1] = RepeatItem(g[n], items[n + 1], cut)
    BY <1>1, <2>1
  <2> HIDE DEF S
  <2> QED BY <2>1, <2>2, <2>3, RepeatItemStep
<1>5. Len(items) \in S
  <2> HIDE DEF S
  <2>1. S \in SUBSET Nat
    BY DEF S
  <2>2. S = Nat
    BY <1>3, <1>4, <2>1, Induct
  <2> QED BY <2>2
<1>6. Len(items) <= Len(items)
  OBVIOUS
<1> QED BY <1>1, <1>5, <1>6

\* response.completed and response.incomplete keep the invariant.
LEMMA ResponseCompletedStep ==
  ASSUME ToolInv, NEW cut \in BOOLEAN, Tool!ResponseCompleted(cut)
  PROVE  ToolInv'
<1> DEFINE begun == {l \in Tool!ToolCall : toolSent[l] # Tool!NotBegun}
<1>1. /\ wire = "responses"
      /\ Tool!Pushed(Tool!CompleteChoice(Tool!Repeated(Tool!InOrder(begun), cut), 0), {0})
      /\ toolSent' = IF 0 \in emitted \/ cut THEN toolSent
                     ELSE [l \in Tool!ToolCall |-> IF l \in begun THEN 2 ELSE toolSent[l]]
  BY DEF Tool!ResponseCompleted
<1>2. toolEnded = "no"
  BY <1>1 DEF Tool!Pushed
<1>3. /\ layout \in Seq(Nat) /\ toolSent \in [Tool!ToolCall -> -1..3]
      /\ Sound(Tool!Now, toolSent) /\ Downward(toolSent) /\ OutAs(out, toolSent) /\ emitted = DOMAIN out
      /\ \A l \in Tool!ToolCall : layout[l] = 0
  BY <1>1, <1>2, Running DEF ToolInv, ToolInvAt
<1>4. PICK items : items = Tool!InOrder(begun)
  OBVIOUS
<1>5. PICK N : N = Cardinality(begun)
  OBVIOUS
<1>6. begun \in SUBSET Tool!ToolCall /\ begun \in SUBSET Nat /\ IsFiniteSet(begun)
  <2>1. begun \in SUBSET Tool!ToolCall
    OBVIOUS
  <2> HIDE DEF begun
  <2> QED BY <1>3, <2>1, CallsFinite
<1>7. /\ N \in Nat /\ items \in [1..N -> begun]
      /\ \A i \in 1..N : Rank(begun, items[i]) = i - 1
      /\ \A l \in begun : Rank(begun, l) + 1 \in 1..N /\ items[Rank(begun, l) + 1] = l
  <2> HIDE DEF begun
  <2> QED BY <1>4, <1>5, <1>6, Ordered, FS_CardinalityType
<1>8. Len(items) = N
  <2> HIDE DEF begun
  <2> QED BY <1>7
<1>9. \A i \in 1..N : items[i] \in Tool!ToolCall /\ toolSent[items[i]] # Tool!NotBegun
  <2>1. \A i \in 1..N : items[i] \in begun
    <3> HIDE DEF begun
    <3> QED BY <1>7
  <2> QED BY <2>1
<1>10. \A i, j \in 1..N : items[i] = items[j] => i = j
  <2> SUFFICES ASSUME NEW i \in 1..N, NEW j \in 1..N, items[i] = items[j] PROVE i = j
    OBVIOUS
  <2>0. Rank(begun, items[i]) = i - 1 /\ Rank(begun, items[j]) = j - 1
    <3> HIDE DEF begun
    <3> QED BY <1>7
  <2> HIDE DEF begun
  <2>1. i - 1 = j - 1 /\ i \in Int /\ j \in Int
    BY <2>0
  <2> QED BY <2>1
<1>11. PICK s : s = Tool!Repeated(items, cut)
  OBVIOUS
<1>12. RepeatedSoFar(s, items, cut, N)
  BY <1>1, <1>2, <1>7, <1>8, <1>9, <1>10, <1>11, RepeatedAll
<1>13. Fine(s) /\ SameBut(Tool!Now, s)
  BY <1>12 DEF RepeatedSoFar
<1>14. s.out = out /\ s.emitted = emitted
  BY <1>13, NowFields DEF SameBut
<1>15. PICK snt : snt = toolSent'
  OBVIOUS
<1>16. /\ snt \in [Tool!ToolCall -> -1..3]
       /\ \A l \in Tool!ToolCall : snt[l] # Tool!NotBegun <=> toolSent[l] # Tool!NotBegun
       /\ 0 \in emitted => snt = toolSent
       /\ 0 \notin emitted => \A l \in begun : snt[l] = RepeatedTo(cut, l)
  <2>1. CASE 0 \in emitted \/ cut
    BY <1>1, <1>3, <1>15, <2>1 DEF RepeatedTo
  <2>2. CASE ~(0 \in emitted \/ cut)
    <3>1. snt = [l \in Tool!ToolCall |-> IF l \in begun THEN 2 ELSE toolSent[l]]
      BY <1>1, <1>15, <2>2
    <3>2. 2 # Tool!NotBegun /\ 2 \in -1..3
      BY DEF Tool!NotBegun
    <3> QED BY <1>3, <2>2, <3>1, <3>2 DEF RepeatedTo
  <2> QED BY <2>1, <2>2
<1>17. OutAs(out, snt)
  <2>1. \A l \in Tool!ToolCall : layout[l] \in DOMAIN out => snt[l] = toolSent[l]
    <3> HIDE DEF begun
    <3> QED BY <1>3, <1>16
  <2> QED BY <1>3, <2>1, OutKept
<1>18. Downward(snt)
  BY <1>3, <1>16 DEF Downward
<1>19. ASSUME s.ok PROVE Sound(s, snt)
  <2>1. /\ DOMAIN s.parts = DOMAIN parts
        /\ 0 \notin emitted =>
             \A i \in 1..N : PartAs(s.parts[Tool!KeyOf(items[i])], items[i],
                                    IF i <= N THEN RepeatedTo(cut, items[i]) ELSE toolSent[items[i]])
    BY <1>8, <1>12, <1>19 DEF RepeatedSoFar
  <2>2. OpenOf(emitted, snt) = OpenOf(emitted, toolSent)
    BY <1>16 DEF OpenOf
  <2>3. DOMAIN s.parts = {Tool!KeyOf(l) : l \in OpenOf(s.emitted, snt)}
    BY <1>3, <1>14, <2>1, <2>2, NowFields DEF Sound, Assembly
  <2>4. ASSUME NEW l \in OpenOf(emitted, snt) PROVE PartAs(s.parts[Tool!KeyOf(l)], l, snt[l])
    <3>1. l \in Tool!ToolCall /\ toolSent[l] # Tool!NotBegun /\ layout[l] \notin emitted
      BY <2>2 DEF OpenOf
    <3>2. 0 \notin emitted /\ l \in begun
      BY <1>3, <3>1
    <3>3. PICK i \in 1..N : items[i] = l
      <4> HIDE DEF begun
      <4> QED BY <1>7, <3>2
    <3>4. i <= N
      OBVIOUS
    <3>5. PartAs(s.parts[Tool!KeyOf(l)], l, RepeatedTo(cut, l))
      BY <2>1, <3>2, <3>3, <3>4
    <3>6. snt[l] = RepeatedTo(cut, l)
      <4> HIDE DEF begun
      <4> QED BY <1>16, <3>2
    <3> QED BY <3>5, <3>6
  <2>5. Assembly(s, snt)
    BY <1>14, <2>3, <2>4 DEF Assembly
  <2>6. Placed(s, snt)
    BY <1>1 DEF Placed, Gemini
  <2>7. Gone(s)
    BY <1>3, <1>13 DEF Sound, Gone, SameBut
  <2> QED BY <1>3, <1>13, <1>14, <1>17, <2>5, <2>6, <2>7 DEF Sound
<1>20. PICK r : r = Tool!CompleteChoice(s, 0)
  OBVIOUS
<1>21. Fine(r) /\ (r.ok => Sound(r, snt)) /\ (~ r.ok => r.out = out)
  <2>1. CASE s.ok
    BY <1>3, <1>14, <1>18, <1>19, <1>20, <2>1, CompleteKeeps
  <2>2. CASE ~ s.ok
    <3>1. r = s
      BY <1>20, <2>2 DEF Tool!CompleteChoice
    <3> QED BY <1>13, <1>14, <2>2, <3>1
  <2> QED BY <2>1, <2>2
<1>22. Tool!Pushed(r, {0})
  BY <1>1, <1>4, <1>11, <1>20
<1>23. ~ r.ok => OutAs(r.out, snt)
  BY <1>17, <1>21
<1>24. toolSent' = snt
  BY <1>15
<1> HIDE DEF begun
<1> QED BY <1>16, <1>18, <1>21, <1>22, <1>23, <1>24, PushedStep

\* The invariant holds of an empty stream.
LEMMA InitTool ==
  ASSUME Tool!Init
  PROVE  ToolInv
<1>1. /\ parts = Tool!Nothing /\ byId = Tool!Nothing /\ last = Tool!Nothing /\ next = Tool!Nothing
      /\ emitted = {} /\ started = {} /\ shown = Tool!Nothing
      /\ toolSent = [l \in Tool!ToolCall |-> Tool!NotBegun] /\ out = Tool!Nothing /\ toolEnded = "no"
      /\ layout \in Layouts /\ (wire = "responses" => Tool!Range(layout) = {0})
  BY DEF Tool!Init
<1>2. layout \in Seq(Nat)
  BY <1>1, ComponentsAssumption
<1>3. DOMAIN Tool!Nothing = {} /\ Tool!Nothing = [k \in DOMAIN Tool!Nothing |-> Tool!Nothing[k]]
  BY DEF Tool!Nothing
<1>4. wire = "responses" => \A l \in Tool!ToolCall : layout[l] = 0
  BY <1>1 DEF Tool!Range, Tool!ToolCall
<1>5. toolSent \in [Tool!ToolCall -> -1..3] /\ \A l \in Tool!ToolCall : toolSent[l] = Tool!NotBegun
  BY <1>1 DEF Tool!NotBegun
<1>6. PICK s : s = Tool!Now
  OBVIOUS
<1>7. /\ s.parts = Tool!Nothing /\ s.byId = Tool!Nothing /\ s.last = Tool!Nothing
      /\ s.next = Tool!Nothing /\ s.emitted = {} /\ s.started = {} /\ s.shown = Tool!Nothing
      /\ s.out = Tool!Nothing /\ s.ok = TRUE
  BY <1>1, <1>6, NowFields DEF Tool!Now
<1>8. s = StateOf(s.parts, s.byId, s.last, s.next, s.emitted, s.held, s.started, s.shown, s.out, s.ok)
  <2>1. PICK yes : yes = TRUE
    OBVIOUS
  <2>2. s = StateOf(parts, byId, last, next, emitted, toolHeld, started, shown, out, yes)
    BY <1>6, <2>1, Zenon DEF Tool!Now, StateOf
  <2> QED BY <2>2 DEF StateOf
<1>9. IsToolState(s)
  BY <1>3, <1>7, <1>8 DEF IsToolState, StateOf
<1>10. Progress(s)
  BY <1>3, <1>7 DEF Progress
<1>11. Assembly(s, toolSent)
  <2>1. OpenOf(s.emitted, toolSent) = {}
    BY <1>5 DEF OpenOf
  <2> QED BY <1>3, <1>7, <2>1 DEF Assembly
<1>12. OutAs(s.out, toolSent)
  BY <1>3, <1>7 DEF OutAs
<1>13. Placed(s, toolSent) /\ Gone(s)
  <2>1. \A c : BegunOf(toolSent, c) = {}
    BY <1>5 DEF BegunOf
  <2>2. \A c : c \notin DOMAIN s.next /\ c \notin DOMAIN s.last /\ c \notin DOMAIN s.byId
    BY <1>3, <1>7
  <2> QED BY <1>7, <2>1, <2>2 DEF Placed, PlacedAt, Gone
<1>14. Downward(toolSent)
  BY <1>5 DEF Downward
<1>15. Sound(s, toolSent)
  BY <1>3, <1>7, <1>9, <1>10, <1>11, <1>12, <1>13 DEF Sound, Fine
<1>16. ToolInvAt(s, toolSent, toolEnded)
  BY <1>1, <1>2, <1>4, <1>5, <1>14, <1>15 DEF ToolInvAt, Sound
<1> QED BY <1>6, <1>16 DEF ToolInv

\* Every step of the stream keeps the invariant.
LEMMA ToolNext ==
  ASSUME ToolInv, [Tool!Next]_(Tool!vars)
  PROVE  ToolInv'
<1>1. ASSUME NEW l \in Tool!ToolCall, Tool!BlockDelta(l) PROVE ToolInv'
  <2>1. ~ Gemini
    BY <1>1 DEF Tool!BlockDelta, Gemini
  <2> QED BY <1>1, <2>1, FragmentStep DEF Tool!BlockDelta
<1>2. ASSUME NEW l \in Tool!ToolCall, Tool!ArgumentsDelta(l) PROVE ToolInv'
  <2>1. ~ Gemini
    BY <1>2 DEF Tool!ArgumentsDelta, Gemini
  <2> QED BY <1>2, <2>1, FragmentStep DEF Tool!ArgumentsDelta
<1>3. ASSUME NEW c, Tool!Content(c) PROVE ToolInv'
  BY <1>3, ToolQuiet DEF Tool!Content
<1>4. ASSUME UNCHANGED Tool!vars PROVE ToolInv'
  BY <1>4, ToolQuiet DEF Tool!vars
<1>5. ASSUME NEW l \in Tool!ToolCall,
             \/ Tool!BlockStart(l) \/ Tool!BlockDelta(l) \/ Tool!BlockStop(l)
             \/ Tool!ItemAdded(l) \/ Tool!ArgumentsDelta(l) \/ Tool!ArgumentsDone(l) \/ Tool!ItemDone(l)
             \/ Tool!PieceIndexed(l) \/ Tool!PieceUnindexed(l)
             \/ \E joined \in BOOLEAN : Tool!FunctionCallPart(l, joined)
      PROVE  ToolInv'
  BY <1>1, <1>2, <1>5, BlockStartStep, BlockStopStep, ItemAddedStep, ArgumentsDoneStep, ItemDoneStep,
     PieceIndexedStep, PieceUnindexedStep, FunctionCallPartStep
<1>6. ASSUME \/ \E cut \in BOOLEAN : Tool!ResponseCompleted(cut)
             \/ \E c \in Tool!Choice : Tool!Content(c) \/ Tool!Finishes(c)
             \/ Tool!BadFrame \/ Tool!Finish \/ Tool!Abandon
      PROVE  ToolInv'
  BY <1>3, <1>6, ResponseCompletedStep, FinishesStep, BadFrameStep, OverStep
<1>7. Tool!Next \/ UNCHANGED Tool!vars
  OBVIOUS
<1> QED BY <1>4, <1>5, <1>6, <1>7 DEF Tool!Next

\* Every step of Components keeps the invariant.
LEMMA ToolSteps ==
  ASSUME component = "tool" => ToolInv, [Next]_vars, component' = "tool"
  PROVE  ToolInv'
<1>1. component = "tool"
  BY DEF Next, vars
<1>2. [Tool!Next]_(Tool!vars)
  BY <1>1 DEF Next, vars, toolVars, Tool!vars
<1> QED BY <1>1, <1>2, ToolNext

\* The invariant implies AssembledAsSent.
LEMMA ToolAssembles ==
  ASSUME ToolInv
  PROVE  Tool!AssembledAsSent
<1>1. OutAs(out, toolSent)
  BY NowFields DEF ToolInv, ToolInvAt
<1>2. toolEnded = "clean" => \A l \in Tool!ToolCall : toolSent[l] # Tool!NotBegun => layout[l] \in DOMAIN out
  BY NowFields DEF ToolInv, ToolInvAt
<1>3. \A l : Tool!Written(l) = WrittenOf(toolSent, l)
  BY DEF Tool!Written, WrittenOf, IdOf, Tool!NoId
<1>4. ASSUME NEW c \in DOMAIN out
      PROVE  LET begun == {l \in Tool!ToolCall : layout[l] = c /\ toolSent[l] # Tool!NotBegun}
                 calls == Tool!InOrder(begun)
             IN  out[c] = [i \in DOMAIN calls |-> Tool!Written(calls[i])]
  <2>1. out[c] = CallsAs(toolSent, c)
    BY <1>1 DEF OutAs
  <2> QED BY <1>3, <2>1 DEF CallsAs, BegunOf
<1> QED BY <1>2, <1>4 DEF Tool!AssembledAsSent

\* The invariant implies ProgressHonest.
LEMMA ToolProgress ==
  ASSUME ToolInv
  PROVE  Tool!ProgressHonest
<1>1. Progress(Tool!Now)
  BY DEF ToolInv, ToolInvAt, Fine
<1>2. toolEnded # "no" => started = {}
  BY NowFields DEF ToolInv, ToolInvAt
<1>3. /\ started \subseteq DOMAIN parts /\ started \subseteq DOMAIN shown
      /\ \A k \in started : shown[k] = [step |-> "started", text |-> Tool!Visible(parts[k])]
      /\ \A k \in DOMAIN shown :
            /\ shown[k].step = "started" => k \in started
            /\ shown[k].step = "ended" =>
                  /\ k[1] \in DOMAIN out
                  /\ shown[k].text \in {<<>>, out[k[1]][k[2] + 1].args}
  BY <1>1, NowFields DEF Progress
<1>4. ASSUME NEW k \in started
      PROVE  shown[k].step = "started" /\ shown[k].text = Tool!Visible(parts[k])
  <2>1. PICK t : t = Tool!Visible(parts[k])
    OBVIOUS
  <2>2. shown[k] = [step |-> "started", text |-> t]
    BY <1>3, <2>1, Zenon
  <2> QED BY <2>1, <2>2
<1> QED BY <1>2, <1>3, <1>4 DEF Tool!ProgressHonest

\* Whatever wire names a call, and in whatever order the fragments of several
\* calls and choices arrive, a completed choice carries exactly the calls the
\* provider wrote, whole and in order, and a stream that ends cleanly has
\* completed every call it began (ToolStream::push, complete, finish).
THEOREM AssembledAsSentHolds == Spec => []AssembledAsSent
<1> DEFINE Inv == component = "tool" => ToolInv
<1>1. Init => Inv
  BY InitTool DEF Init
<1>2. Inv /\ [Next]_vars => Inv'
  BY ToolSteps
<1>3. Inv => AssembledAsSent
  BY ToolAssembles DEF AssembledAsSent
<1> QED BY <1>1, <1>2, <1>3, PTL DEF Spec

\* A reader of the progress events always has the text assembled so far, sees no
\* call ended before its choice was completed, and is left with none open when the
\* stream is over (ProgressReporter::updated, ended, abandon_open).
THEOREM ProgressHonestHolds == Spec => []ProgressHonest
<1> DEFINE Inv == component = "tool" => ToolInv
<1>1. Init => Inv
  BY InitTool DEF Init
<1>2. Inv /\ [Next]_vars => Inv'
  BY ToolSteps
<1>3. Inv => ProgressHonest
  BY ToolProgress DEF ProgressHonest
<1> QED BY <1>1, <1>2, <1>3, PTL DEF Spec
=============================================================================
