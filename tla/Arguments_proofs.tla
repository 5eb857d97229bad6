--------------------------- MODULE Arguments_proofs ---------------------------
(***************************************************************************)
(* The parser reads every parameter text as its quotes say, for texts of   *)
(* any length and an argv of any size.  The induction over a text is the   *)
(* one over the numbers, as a fact about sets: what holds of 0 and of the  *)
(* successor of every number it holds of, holds of all.                    *)
(***************************************************************************)
EXTENDS Arguments, FiniteSetTheorems, SequenceTheorems, WellFoundedInduction,
        TLAPS

-----------------------------------------------------------------------------
(* Induction.                                                               *)

(* A set of numbers has a least one.                                        *)
LEMMA LeastNumber ==
    ASSUME NEW S \in SUBSET Nat, S # {}
    PROVE  \E m \in S : \A n \in S : m <= n
<1> DEFINE R == OpToRel(<, Nat)
<1>1. IsWellFoundedOn(R, Nat)
  BY NatLessThanWellFounded
<1>2. \A x, y \in Nat : <<x, y>> \in R <=> x < y
  BY DEF OpToRel
<1>. HIDE DEF R
<1>3. PICK m \in S : \A n \in S : <<n, m>> \notin R
  BY <1>1, WFMin
<1>4. ASSUME NEW n \in S PROVE m <= n
  <2>1. m \in Nat /\ n \in Nat /\ ~ (n < m)
    BY <1>2, <1>3
  <2>. QED  BY <2>1
<1>. QED  BY <1>4

(* A set that holds 0 and with every number up to n the next one, holds all *)
(* of them.                                                                 *)
LEMMA UpTo ==
    ASSUME NEW n \in Nat, NEW S, 0 \in S,
           \A i \in 0 .. n - 1 : i \in S => i + 1 \in S
    PROVE  \A i \in 0 .. n : i \in S
<1> DEFINE T == {i \in 0 .. n : i \notin S}
<1>. SUFFICES ASSUME T # {} PROVE FALSE
  OBVIOUS
<1>1. T \in SUBSET Nat
  OBVIOUS
<1>2. PICK m \in T : \A i \in T : m <= i
  <2>. HIDE DEF T
  <2>. QED  BY <1>1, LeastNumber
<1>3. m # 0 /\ m \in 1 .. n /\ m \notin S
  BY <1>2
<1>4. m - 1 \in 0 .. n - 1 /\ m - 1 \notin T
  BY <1>2, <1>3
<1>5. m - 1 \in S
  BY <1>4
<1>6. (m - 1) + 1 \in S
  BY <1>4, <1>5
<1>. QED  BY <1>3, <1>6

(* Numbers up to n have a largest one.                                      *)
LEMMA LargestOf ==
    ASSUME NEW n \in Nat, NEW S \in SUBSET (1 .. n), S # {}
    PROVE  Max(S) \in S /\ \A y \in S : Max(S) >= y
<1> DEFINE T == {n - x : x \in S}
<1>1. T \in SUBSET Nat /\ T # {}
  <2>1. \A x \in S : x \in 1 .. n
    OBVIOUS
  <2>2. \A x \in 1 .. n : n - x \in Nat
    OBVIOUS
  <2>. QED  BY <2>1, <2>2
<1>2. PICK m \in T : \A y \in T : m <= y
  <2>. HIDE DEF T
  <2>. QED  BY <1>1, LeastNumber
<1>3. PICK x \in S : m = n - x
  BY <1>2
<1>4. ASSUME NEW y \in S PROVE x >= y
  <2>1. n - y \in T
    OBVIOUS
  <2>2. n - x <= n - y /\ x \in 1 .. n /\ y \in 1 .. n
    BY <1>2, <1>3, <2>1
  <2>. QED  BY <2>2
<1>5. \E z \in S : \A y \in S : z >= y
  BY <1>4
<1>. QED  BY <1>5 DEF Max

-----------------------------------------------------------------------------
(* Folds.  FoldLeft takes the last position of a set of positions, and      *)
(* folds the others first.                                                  *)

(* The positions up to i are a set of positions whose last is i.            *)
LEMMA Prefix ==
    ASSUME NEW n \in Nat, NEW i \in 1 .. n
    PROVE  /\ 1 .. i \in SUBSET (1 .. n) /\ 1 .. i # {}
           /\ Max(1 .. i) = i /\ (1 .. i) \ {i} = 1 .. i - 1
<1>1. 1 .. i \in SUBSET (1 .. n) /\ i \in 1 .. i
  OBVIOUS
<1>2. Max(1 .. i) \in 1 .. i /\ \A y \in 1 .. i : Max(1 .. i) >= y
  BY <1>1, LargestOf
<1>3. Max(1 .. i) = i
  BY <1>1, <1>2
<1>. QED  BY <1>1, <1>3

(* The fold of the steps F over sets of positions up to n.                  *)
FoldOf(it, base, n, F) ==
    \A s \in SUBSET (1 .. n) :
       it[s] = IF s = {} THEN base ELSE F[<<it[s \ {Max(s)}], Max(s)>>]

(* A fold exists whose steps are taken from F, and stays in F's domain.     *)
LEMMA FoldExists ==
    ASSUME NEW D, NEW base \in D, NEW n \in Nat,
           NEW F \in [D \X (1 .. n) -> D]
    PROVE  \E it \in [SUBSET (1 .. n) -> D] : FoldOf(it, base, n, F)
<1> DEFINE Solves(it, k) ==
              /\ it \in [SUBSET (1 .. k) -> D]
              /\ \A s \in SUBSET (1 .. k) :
                    it[s] = IF s = {} THEN base
                            ELSE F[<<it[s \ {Max(s)}], Max(s)>>]
           S == {k \in 0 .. n : \E it : Solves(it, k)}
<1>1. 0 \in S
  <2> DEFINE none == [s \in SUBSET (1 .. 0) |-> base]
  <2>1. Solves(none, 0)
    <3>1. \A s \in SUBSET (1 .. 0) : s = {}
      OBVIOUS
    <3>2. /\ none \in [SUBSET (1 .. 0) -> D]
          /\ \A s \in SUBSET (1 .. 0) : none[s] = base
      OBVIOUS
    <3>. HIDE DEF none
    <3>. QED  BY <3>1, <3>2
  <2>. HIDE DEF none, Solves
  <2>. QED  BY <2>1
<1>2. ASSUME NEW k \in 0 .. n - 1, k \in S PROVE k + 1 \in S
  <2>1. PICK it : Solves(it, k)
    BY <1>2
  <2> DEFINE more == [s \in SUBSET (1 .. k + 1) |->
                         IF s = {} THEN base
                         ELSE F[<<it[s \ {Max(s)}], Max(s)>>]]
  <2>2. ASSUME NEW s \in SUBSET (1 .. k + 1), s # {}
        PROVE  /\ Max(s) \in 1 .. k + 1 /\ s \ {Max(s)} \in SUBSET (1 .. k)
               /\ Max(s) \in 1 .. n
    <3>1. k + 1 \in Nat
      OBVIOUS
    <3>2. Max(s) \in s /\ \A y \in s : Max(s) >= y
      BY <2>2, <3>1, LargestOf
    <3>3. PICK m : m = Max(s)
      OBVIOUS
    <3>4. ASSUME NEW y \in s \ {m} PROVE y \in 1 .. k
      <4>1. y \in 1 .. k + 1 /\ m \in 1 .. k + 1 /\ m >= y /\ y # m
        BY <3>2, <3>3
      <4>. QED  BY <4>1
    <3>5. m \in 1 .. k + 1
      BY <3>2, <3>3
    <3>6. m \in 1 .. n
      BY <3>5
    <3>. QED  BY <3>3, <3>4, <3>5, <3>6
  <2>3. more \in [SUBSET (1 .. k + 1) -> D]
    <3>1. ASSUME NEW s \in SUBSET (1 .. k + 1), s # {}
          PROVE  F[<<it[s \ {Max(s)}], Max(s)>>] \in D
      <4>1. it[s \ {Max(s)}] \in D /\ Max(s) \in 1 .. n
        BY <2>1, <2>2, <3>1
      <4>. QED  BY <4>1
    <3>. QED  BY <3>1
  <2>4. ASSUME NEW s \in SUBSET (1 .. k) PROVE more[s] = it[s]
    <3>1. s \in SUBSET (1 .. k + 1)
      OBVIOUS
    <3>. QED  BY <2>1, <3>1
  <2>5. ASSUME NEW s \in SUBSET (1 .. k + 1), s # {}
        PROVE  more[s] = F[<<more[s \ {Max(s)}], Max(s)>>]
    <3>1. more[s \ {Max(s)}] = it[s \ {Max(s)}]
      BY <2>2, <2>4, <2>5
    <3>. QED  BY <2>5, <3>1
  <2>6. more[{}] = base
    OBVIOUS
  <2>7. Solves(more, k + 1)
    <3>. HIDE DEF more
    <3>. QED  BY <2>3, <2>5, <2>6
  <2>. HIDE DEF more, Solves
  <2>. QED  BY <2>7
<1>3. n \in S
  <2>. HIDE DEF S
  <2>. QED  BY <1>1, <1>2, UpTo
<1>4. PICK it : Solves(it, n)
  BY <1>3
<1>. QED  BY <1>4 DEF FoldOf

-----------------------------------------------------------------------------
(* The two passes over the text, as runs from their first to their last     *)
(* state.                                                                   *)

Marked == Characters \cup {"kept"}
Quoting == [quoted : BOOLEAN, out : Seq(Marked)]
Open == [quoted |-> FALSE, out |-> <<>>]

(* A step of the first pass adds one character.                             *)
Mark(st, c) ==
    CASE c = "quote" -> " " [] c = " " /\ st.quoted -> "kept" [] OTHER -> c

LEMMA ProtectedType ==
    ASSUME NEW st \in Quoting, NEW c \in Characters
    PROVE  /\ Protected(st, c) \in Quoting
           /\ Protected(st, c).out = Append(st.out, Mark(st, c))
           /\ Mark(st, c) \in Marked
           /\ c = "quote" => (Protected(st, c).quoted <=> ~st.quoted)
           /\ c # "quote" => (Protected(st, c).quoted <=> st.quoted)
<1>1. Mark(st, c) \in Marked
  BY DEF Mark, Marked, Characters
<1>2. /\ Protected(st, c).out = Append(st.out, Mark(st, c))
      /\ Protected(st, c).quoted \in BOOLEAN
      /\ Protected(st, c) = [quoted |-> Protected(st, c).quoted,
                             out |-> Protected(st, c).out]
  BY DEF Protected, Mark, Quoting
<1>3. Append(st.out, Mark(st, c)) \in Seq(Marked)
  BY <1>1 DEF Quoting
<1>4. st.quoted \in BOOLEAN
  BY DEF Quoting
<1>5. c = "quote" => (Protected(st, c).quoted <=> ~st.quoted)
  BY <1>4 DEF Protected
<1>6. c # "quote" => (Protected(st, c).quoted <=> st.quoted)
  BY <1>4 DEF Protected
<1>. QED  BY <1>1, <1>2, <1>3, <1>5, <1>6 DEF Quoting

LEMMA ProtectRuns ==
    ASSUME NEW text \in Seq(Characters)
    PROVE  \E g : /\ g[0] = Open /\ Protect(text) = g[Len(text)].out
                  /\ \A i \in 1 .. Len(text) :
                        g[i] = Protected(g[i - 1], text[i])
<1> DEFINE Solves(it) ==
              it = [s \in SUBSET DOMAIN text |->
                       IF s = {} THEN Open
                       ELSE Protected(it[s \ {Max(s)}], text[Max(s)])]
           iter == CHOOSE it : Solves(it)
<1>1. Protect(text) = iter[DOMAIN text].out
  BY DEF Protect, FoldLeft, MapThenFoldSet, Open
<1>2. PICK n \in Nat : n = Len(text) /\ DOMAIN text = 1 .. n
  OBVIOUS
<1>3. \A i \in 1 .. n : text[i] \in Characters
  BY <1>2
<1>4. \E it : Solves(it)
  <2> DEFINE F == [p \in Quoting \X (1 .. n) |-> Protected(p[1], text[p[2]])]
  <2>1. Open \in Quoting
    BY DEF Open, Quoting
  <2>2. F \in [Quoting \X (1 .. n) -> Quoting]
    BY <1>3, ProtectedType
  <2>. HIDE DEF F, Solves, iter
  <2>3. PICK it \in [SUBSET (1 .. n) -> Quoting] : FoldOf(it, Open, n, F)
    BY <2>1, <2>2, FoldExists
  <2>4. ASSUME NEW s \in SUBSET (1 .. n), s # {}
        PROVE  F[<<it[s \ {Max(s)}], Max(s)>>]
                  = Protected(it[s \ {Max(s)}], text[Max(s)])
    <3>1. it[s \ {Max(s)}] \in Quoting
      OBVIOUS
    <3>2. Max(s) \in 1 .. n
      BY <2>4, LargestOf
    <3>. QED  BY <3>1, <3>2 DEF F
  <2>5. it = [s \in SUBSET (1 .. n) |->
                 IF s = {} THEN Open
                 ELSE Protected(it[s \ {Max(s)}], text[Max(s)])]
    BY <2>3, <2>4 DEF FoldOf
  <2>. QED  BY <1>2, <2>5 DEF Solves
<1>5. Solves(iter)
  <2>. HIDE DEF Solves
  <2>. QED  BY <1>4
<1>6. iter[{}] = Open
  BY <1>5
<1>7. ASSUME NEW i \in 1 .. n
      PROVE  iter[1 .. i] = Protected(iter[1 .. i - 1], text[i])
  <2>1. /\ 1 .. i \in SUBSET DOMAIN text /\ 1 .. i # {}
        /\ Max(1 .. i) = i /\ (1 .. i) \ {i} = 1 .. i - 1
    BY <1>2, Prefix
  <2>2. iter[1 .. i] = IF 1 .. i = {} THEN Open
                       ELSE Protected(iter[(1 .. i) \ {Max(1 .. i)}],
                                      text[Max(1 .. i)])
    <3>. HIDE DEF iter
    <3>. QED  BY <1>5, <2>1
  <2>. HIDE DEF iter
  <2>. QED  BY <2>1, <2>2
<1>. HIDE DEF iter
<1> DEFINE g == [i \in 0 .. n |-> iter[1 .. i]]
<1>8. g[0] = Open /\ Protect(text) = g[n].out
  <2>1. 1 .. 0 = {}
    OBVIOUS
  <2>. QED  BY <1>1, <1>2, <1>6, <2>1
<1>9. ASSUME NEW i \in 1 .. n PROVE g[i] = Protected(g[i - 1], text[i])
  BY <1>7
<1>. HIDE DEF g
<1>. QED  BY <1>2, <1>8, <1>9

(* The quotes before a place, and how many they are.                        *)
QuotesBefore(text, i) == {j \in 1 .. i - 1 : text[j] = "quote"}

LEMMA QuotesCount ==
    ASSUME NEW text, NEW i \in Nat \ {0}
    PROVE  /\ ~Quoted(text, 1)
           /\ text[i] = "quote" => (Quoted(text, i + 1) <=> ~Quoted(text, i))
           /\ text[i] # "quote" => (Quoted(text, i + 1) <=> Quoted(text, i))
<1> DEFINE Q(k) == QuotesBefore(text, k)
<1>1. IsFiniteSet(Q(i)) /\ Cardinality(Q(i)) \in Nat
  <2>1. Q(i) \in SUBSET (1 .. i - 1) /\ IsFiniteSet(1 .. i - 1)
    BY FS_Interval DEF QuotesBefore
  <2>. QED  BY <2>1, FS_Subset, FS_CardinalityType
<1>2. Q(1) = {} /\ Cardinality(Q(1)) = 0
  BY FS_EmptySet DEF QuotesBefore
<1>3. Cardinality(Q(i + 1))
         = Cardinality(Q(i)) + IF text[i] = "quote" THEN 1 ELSE 0
  <2>1. CASE text[i] = "quote"
    <3>1. Q(i + 1) = Q(i) \cup {i} /\ i \notin Q(i)
      BY <2>1 DEF QuotesBefore
    <3>. HIDE DEF Q
    <3>2. Cardinality(Q(i + 1)) = Cardinality(Q(i)) + 1
      BY <1>1, <3>1, FS_AddElement
    <3>. QED  BY <2>1, <3>2
  <2>2. CASE text[i] # "quote"
    <3>1. Q(i + 1) = Q(i)
      BY <2>2 DEF QuotesBefore
    <3>. HIDE DEF Q
    <3>. QED  BY <1>1, <2>2, <3>1
  <2>. QED  BY <2>1, <2>2
<1>4. \A k \in {1, i, i + 1} : Quoted(text, k) <=> Cardinality(Q(k)) % 2 = 1
  BY DEF Quoted, QuotesBefore
<1>. HIDE DEF Q
<1>5. \A c \in Nat : (c + 1) % 2 = 1 <=> ~(c % 2 = 1)
  OBVIOUS
<1>6. ~Quoted(text, 1)
  BY <1>2, <1>4
<1>7. text[i] = "quote" => (Quoted(text, i + 1) <=> ~Quoted(text, i))
  BY <1>1, <1>3, <1>4, <1>5
<1>8. text[i] # "quote" => (Quoted(text, i + 1) <=> Quoted(text, i))
  BY <1>1, <1>3, <1>4
<1>. QED  BY <1>6, <1>7, <1>8

(* What the first pass makes of a character.                                *)
MarkOf(text, i) ==
    CASE text[i] = "quote" -> " "
      [] text[i] = " " /\ Quoted(text, i) -> "kept"
      [] OTHER -> text[i]

LEMMA ProtectMarks ==
    ASSUME NEW text \in Seq(Characters)
    PROVE  /\ Protect(text) \in Seq(Marked)
           /\ Len(Protect(text)) = Len(text)
           /\ \A i \in 1 .. Len(text) : Protect(text)[i] = MarkOf(text, i)
<1>1. PICK n \in Nat : n = Len(text) /\ \A i \in 1 .. n : text[i] \in Characters
  OBVIOUS
<1>2. PICK g : /\ g[0] = Open /\ Protect(text) = g[n].out
               /\ \A i \in 1 .. n : g[i] = Protected(g[i - 1], text[i])
  BY <1>1, ProtectRuns
<1> DEFINE Good(i) ==
              /\ g[i] \in Quoting
              /\ g[i].quoted <=> Quoted(text, i + 1)
              /\ Len(g[i].out) = i
              /\ \A j \in 1 .. i : g[i].out[j] = MarkOf(text, j)
           S == {i \in 0 .. n : Good(i)}
<1>3. 0 \in S
  <2>1. g[0] \in Quoting /\ g[0].quoted = FALSE /\ Len(g[0].out) = 0
    BY <1>2 DEF Open, Quoting
  <2>2. ~Quoted(text, 0 + 1)
    <3>1. 0 + 1 = 1 /\ 1 \in Nat \ {0}
      OBVIOUS
    <3>. QED  BY <3>1, QuotesCount
  <2>3. Good(0)
    BY <2>1, <2>2
  <2>. QED  BY <2>3
<1>4. ASSUME NEW i \in 0 .. n - 1, i \in S PROVE i + 1 \in S
  <2>1. Good(i) /\ i + 1 \in 1 .. n /\ i + 1 \in Nat \ {0}
    BY <1>4
  <2>2. g[i + 1] = Protected(g[i], text[i + 1]) /\ text[i + 1] \in Characters
    <3>1. (i + 1) - 1 = i
      OBVIOUS
    <3>. QED  BY <1>1, <1>2, <2>1, <3>1
  <2>3. /\ g[i + 1] \in Quoting
        /\ g[i + 1].out = Append(g[i].out, Mark(g[i], text[i + 1]))
        /\ Mark(g[i], text[i + 1]) \in Marked
        /\ text[i + 1] = "quote" => (g[i + 1].quoted <=> ~g[i].quoted)
        /\ text[i + 1] # "quote" => (g[i + 1].quoted <=> g[i].quoted)
    <3>1. PICK st \in Quoting : st = g[i]
      BY <2>1
    <3>2. PICK c \in Characters : c = text[i + 1]
      BY <2>2
    <3>3. g[i + 1] = Protected(st, c)
      BY <2>2, <3>1, <3>2
    <3>4. /\ g[i + 1] \in Quoting
          /\ g[i + 1].out = Append(st.out, Mark(st, c))
          /\ Mark(st, c) \in Marked
          /\ c = "quote" => (g[i + 1].quoted <=> ~st.quoted)
          /\ c # "quote" => (g[i + 1].quoted <=> st.quoted)
      BY <3>3, ProtectedType
    <3>. QED  BY <3>1, <3>2, <3>4
  <2>4. Mark(g[i], text[i + 1]) = MarkOf(text, i + 1)
    BY <2>1 DEF Mark, MarkOf
  <2>5. g[i].out \in Seq(Marked) /\ Len(g[i].out) = i
    BY <2>1 DEF Quoting
  <2>6. /\ Len(g[i + 1].out) = i + 1
        /\ \A j \in 1 .. i : g[i + 1].out[j] = g[i].out[j]
        /\ g[i + 1].out[i + 1] = MarkOf(text, i + 1)
    BY <2>3, <2>4, <2>5, AppendProperties
  <2>7. g[i + 1].quoted <=> Quoted(text, (i + 1) + 1)
    <3>1. CASE text[i + 1] = "quote"
      BY <2>1, <2>3, <3>1, QuotesCount
    <3>2. CASE text[i + 1] # "quote"
      BY <2>1, <2>3, <3>2, QuotesCount
    <3>. QED  BY <3>1, <3>2
  <2>8. \A j \in 1 .. i + 1 : g[i + 1].out[j] = MarkOf(text, j)
    BY <2>1, <2>6
  <2>9. Good(i + 1)
    BY <2>3, <2>6, <2>7, <2>8
  <2>. HIDE DEF Good
  <2>. QED  BY <2>1, <2>9
<1>5. n \in S
  <2>. HIDE DEF S, Good
  <2>1. \A i \in 0 .. n - 1 : i \in S => i + 1 \in S
    BY <1>4
  <2>2. \A i \in 0 .. n : i \in S
    BY <1>3, <2>1, UpTo
  <2>. QED  BY <2>2
<1>6. Good(n)
  BY <1>5
<1>. QED  BY <1>1, <1>2, <1>6 DEF Quoting

(* In terms of the blanks and quotes that separate words.                   *)
LEMMA MarksSeparate ==
    ASSUME NEW text \in Seq(Characters), NEW i \in 1 .. Len(text)
    PROVE  /\ MarkOf(text, i) = " " <=> Separates(text, i)
           /\ ~Separates(text, i) =>
                 (IF MarkOf(text, i) = "kept" THEN " " ELSE MarkOf(text, i))
                    = text[i]
           /\ (IF MarkOf(text, i) = "kept" THEN " " ELSE MarkOf(text, i))
                 = IF text[i] = "quote" THEN " " ELSE text[i]
<1>1. text[i] \in Characters
  OBVIOUS
<1>2. CASE text[i] = "x"
  BY <1>2 DEF MarkOf, Separates
<1>3. CASE text[i] = " "
  <2>1. CASE Quoted(text, i)
    BY <1>3, <2>1 DEF MarkOf, Separates
  <2>2. CASE ~Quoted(text, i)
    BY <1>3, <2>2 DEF MarkOf, Separates
  <2>. QED  BY <2>1, <2>2
<1>4. CASE text[i] = "quote"
  BY <1>4 DEF MarkOf, Separates
<1>. QED  BY <1>1, <1>2, <1>3, <1>4 DEF Characters

-----------------------------------------------------------------------------
(* The second pass.                                                         *)
Splitting == [args : Seq(Seq(Marked)) \ {<<>>}, blank : BOOLEAN]
Whole == [args |-> << <<>> >>, blank |-> FALSE]
Cuts(st, c) == c = " " /\ Len(st.args) < MaxArgs

(* A step cuts, starts a new argument after a cut, or makes the last one    *)
(* longer.                                                                  *)
LEMMA SplitStep ==
    ASSUME NEW st \in Splitting, NEW c \in Marked
    PROVE  /\ Split(st, c) \in Splitting
           /\ Cuts(st, c) => Split(st, c).args = st.args /\ Split(st, c).blank
           /\ ~Cuts(st, c) => ~Split(st, c).blank
           /\ ~Cuts(st, c) /\ st.blank =>
                 Split(st, c).args = Append(st.args, <<c>>)
           /\ ~Cuts(st, c) /\ ~st.blank =>
                 Split(st, c).args
                    = [st.args EXCEPT ![Len(st.args)] = Append(@, c)]
<1>1. /\ st.args \in Seq(Seq(Marked)) /\ st.args # <<>> /\ st.blank \in BOOLEAN
      /\ st = [args |-> st.args, blank |-> st.blank]
  BY DEF Splitting
<1>2. Len(st.args) \in 1 .. Len(st.args) /\ Len(st.args) \in Nat
  BY <1>1, EmptySeq
<1>3. CASE Cuts(st, c)
  <2>1. Split(st, c) = [args |-> st.args, blank |-> TRUE]
    BY <1>1, <1>3 DEF Split, Cuts, MayStillSplit
  <2>. QED  BY <1>1, <1>3, <2>1 DEF Splitting
<1>4. CASE ~Cuts(st, c) /\ st.blank
  <2>1. Split(st, c) = [args |-> Append(st.args, <<c>>), blank |-> FALSE]
    BY <1>1, <1>4 DEF Split, Cuts, MayStillSplit
  <2>2. <<c>> \in Seq(Marked)
    OBVIOUS
  <2>3. Append(st.args, <<c>>) \in Seq(Seq(Marked)) \ {<<>>}
    <3>1. PICK args \in Seq(Seq(Marked)) : args = st.args
      BY <1>1
    <3>2. PICK arg \in Seq(Marked) : arg = <<c>>
      BY <2>2
    <3>3. Append(args, arg) \in Seq(Seq(Marked)) \ {<<>>}
      BY AppendProperties
    <3>. QED  BY <3>1, <3>2, <3>3
  <2>. QED  BY <1>4, <2>1, <2>3 DEF Splitting
<1>5. CASE ~Cuts(st, c) /\ ~st.blank
  <2> DEFINE more == [st.args EXCEPT ![Len(st.args)] = Append(@, c)]
  <2>1. Split(st, c) = [args |-> more, blank |-> FALSE]
    BY <1>1, <1>5 DEF Split, Cuts, MayStillSplit
  <2>2. Append(st.args[Len(st.args)], c) \in Seq(Marked)
    <3>1. st.args[Len(st.args)] \in Seq(Marked)
      BY <1>1, <1>2, ElementOfSeq
    <3>. QED  BY <3>1, AppendProperties
  <2>3. more \in Seq(Seq(Marked)) /\ Len(more) = Len(st.args)
    BY <1>1, <1>2, <2>2, ExceptSeq
  <2>4. more # <<>>
    BY <1>2, <2>3
  <2>. HIDE DEF more
  <2>5. Split(st, c) \in Splitting /\ ~Split(st, c).blank
    BY <2>1, <2>3, <2>4 DEF Splitting
  <2>6. Split(st, c).args = more
    BY <2>1
  <2>. QED  BY <1>5, <2>5, <2>6 DEF more
<1>. QED  BY <1>1, <1>3, <1>4, <1>5

LEMMA SplitRuns ==
    ASSUME NEW line \in Seq(Marked)
    PROVE  \E g : /\ g[0] = Whole /\ SplitAll(line) = g[Len(line)].args
                  /\ \A i \in 1 .. Len(line) : g[i] = Split(g[i - 1], line[i])
<1> DEFINE Solves(it) ==
              it = [s \in SUBSET DOMAIN line |->
                       IF s = {} THEN Whole
                       ELSE Split(it[s \ {Max(s)}], line[Max(s)])]
           iter == CHOOSE it : Solves(it)
<1>1. SplitAll(line) = iter[DOMAIN line].args
  BY DEF SplitAll, FoldLeft, MapThenFoldSet, Whole
<1>2. PICK n \in Nat : n = Len(line) /\ DOMAIN line = 1 .. n
  OBVIOUS
<1>3. \A i \in 1 .. n : line[i] \in Marked
  BY <1>2
<1>4. \E it : Solves(it)
  <2> DEFINE F == [p \in Splitting \X (1 .. n) |-> Split(p[1], line[p[2]])]
  <2>1. Whole \in Splitting
    <3>1. << <<>> >> \in Seq(Seq(Marked)) /\ << <<>> >> # <<>>
      OBVIOUS
    <3>. QED  BY <3>1 DEF Whole, Splitting
  <2>2. F \in [Splitting \X (1 .. n) -> Splitting]
    BY <1>3, SplitStep
  <2>. HIDE DEF F, Solves, iter
  <2>3. PICK it \in [SUBSET (1 .. n) -> Splitting] : FoldOf(it, Whole, n, F)
    BY <2>1, <2>2, FoldExists
  <2>4. ASSUME NEW s \in SUBSET (1 .. n), s # {}
        PROVE  F[<<it[s \ {Max(s)}], Max(s)>>]
                  = Split(it[s \ {Max(s)}], line[Max(s)])
    <3>1. it[s \ {Max(s)}] \in Splitting
      OBVIOUS
    <3>2. Max(s) \in 1 .. n
      BY <2>4, LargestOf
    <3>. QED  BY <3>1, <3>2 DEF F
  <2>5. it = [s \in SUBSET (1 .. n) |->
                 IF s = {} THEN Whole
                 ELSE Split(it[s \ {Max(s)}], line[Max(s)])]
    BY <2>3, <2>4 DEF FoldOf
  <2>. QED  BY <1>2, <2>5 DEF Solves
<1>5. Solves(iter)
  <2>. HIDE DEF Solves
  <2>. QED  BY <1>4
<1>6. iter[{}] = Whole
  BY <1>5
<1>7. ASSUME NEW i \in 1 .. n
      PROVE  iter[1 .. i] = Split(iter[1 .. i - 1], line[i])
  <2>1. /\ 1 .. i \in SUBSET DOMAIN line /\ 1 .. i # {}
        /\ Max(1 .. i) = i /\ (1 .. i) \ {i} = 1 .. i - 1
    BY <1>2, Prefix
  <2>2. iter[1 .. i] = IF 1 .. i = {} THEN Whole
                       ELSE Split(iter[(1 .. i) \ {Max(1 .. i)}],
                                  line[Max(1 .. i)])
    <3>. HIDE DEF iter
    <3>. QED  BY <1>5, <2>1
  <2>. HIDE DEF iter
  <2>. QED  BY <2>1, <2>2
<1>. HIDE DEF iter
<1> DEFINE g == [i \in 0 .. n |-> iter[1 .. i]]
<1>8. g[0] = Whole /\ SplitAll(line) = g[n].args
  <2>1. 1 .. 0 = {}
    OBVIOUS
  <2>. QED  BY <1>1, <1>2, <1>6, <2>1
<1>9. ASSUME NEW i \in 1 .. n PROVE g[i] = Split(g[i - 1], line[i])
  BY <1>7
<1>. HIDE DEF g
<1>. QED  BY <1>2, <1>8, <1>9

-----------------------------------------------------------------------------
(* The words of a text, as a reader of its quotes sees them.                *)

(* A word ends before the next place that separates, or with the text.      *)
LEMMA WordEnds ==
    ASSUME NEW text \in Seq(Characters), NEW j \in WordStarts(text)
    PROVE  /\ j \in 1 .. Len(text) /\ ~Separates(text, j)
           /\ WordEnd(text, j) \in j .. Len(text)
           /\ \A i \in j .. WordEnd(text, j) : ~Separates(text, i)
           /\ WordEnd(text, j) < Len(text) => Separates(text, WordEnd(text, j) + 1)
<1> DEFINE n == Len(text)
           E == {e \in j .. n + 1 : e > n \/ Separates(text, e)}
<1>1. n \in Nat /\ DOMAIN text = 1 .. n
  OBVIOUS
<1>2. j \in 1 .. n /\ ~Separates(text, j)
  BY <1>1 DEF WordStarts
<1>3. E \in SUBSET Nat /\ n + 1 \in E
  BY <1>1, <1>2
<1>4. PICK m \in E : \A e \in E : m <= e
  <2>. HIDE DEF E
  <2>. QED  BY <1>3, LeastNumber
<1>5. Min(E) = m
  <2>1. \A x \in E : (\A e \in E : x <= e) => x = m
    <3>1. \A x \in E : x \in Nat
      BY <1>3
    <3>. HIDE DEF E
    <3>. QED  BY <1>4, <3>1
  <2>. HIDE DEF E
  <2>. QED  BY <1>4, <2>1 DEF Min
<1>6. WordEnd(text, j) = m - 1
  BY <1>5 DEF WordEnd
<1>7. m # j /\ m \in j .. n + 1 /\ (m > n \/ Separates(text, m))
  BY <1>1, <1>2, <1>4
<1>8. ASSUME NEW i \in j .. m - 1 PROVE ~Separates(text, i)
  <2>1. i \notin E /\ i \in j .. n + 1
    BY <1>1, <1>2, <1>4, <1>7
  <2>. QED  BY <2>1
<1>9. m - 1 \in j .. n /\ (m - 1) + 1 = m
  BY <1>1, <1>2, <1>7
<1>. QED  BY <1>1, <1>2, <1>6, <1>7, <1>8, <1>9

(* The words that start before a place, and how many they are.              *)
StartsUpTo(text, i) == {w \in WordStarts(text) : w <= i}
Before(text, j) == {w \in WordStarts(text) : w < j}

LEMMA StartsCount ==
    ASSUME NEW text \in Seq(Characters), NEW i \in Nat
    PROVE  /\ IsFiniteSet(StartsUpTo(text, i))
           /\ Cardinality(StartsUpTo(text, i)) \in Nat
           /\ StartsUpTo(text, 0) = {}
           /\ StartsUpTo(text, Len(text)) = WordStarts(text)
           /\ i + 1 \in WordStarts(text) =>
                 /\ Before(text, i + 1) = StartsUpTo(text, i)
                 /\ Cardinality(StartsUpTo(text, i + 1))
                       = Cardinality(StartsUpTo(text, i)) + 1
           /\ i + 1 \notin WordStarts(text) =>
                 StartsUpTo(text, i + 1) = StartsUpTo(text, i)
<1>1. WordStarts(text) \in SUBSET (1 .. Len(text)) /\ Len(text) \in Nat
  BY DEF WordStarts
<1>2. IsFiniteSet(StartsUpTo(text, i)) /\ Cardinality(StartsUpTo(text, i)) \in Nat
  <2>1. StartsUpTo(text, i) \in SUBSET (1 .. Len(text))
    BY <1>1 DEF StartsUpTo
  <2>2. IsFiniteSet(1 .. Len(text))
    BY <1>1, FS_Interval
  <2>. QED  BY <2>1, <2>2, FS_Subset, FS_CardinalityType
<1>3. /\ StartsUpTo(text, 0) = {}
      /\ StartsUpTo(text, Len(text)) = WordStarts(text)
  BY <1>1 DEF StartsUpTo
<1>4. ASSUME i + 1 \in WordStarts(text)
      PROVE  /\ Before(text, i + 1) = StartsUpTo(text, i)
             /\ Cardinality(StartsUpTo(text, i + 1))
                   = Cardinality(StartsUpTo(text, i)) + 1
  <2>1. /\ StartsUpTo(text, i + 1) = StartsUpTo(text, i) \cup {i + 1}
        /\ i + 1 \notin StartsUpTo(text, i)
    BY <1>1, <1>4 DEF StartsUpTo
  <2>2. Before(text, i + 1) = StartsUpTo(text, i)
    BY <1>1 DEF StartsUpTo, Before
  <2>. QED  BY <1>2, <2>1, <2>2, FS_AddElement
<1>5. i + 1 \notin WordStarts(text) => StartsUpTo(text, i + 1) = StartsUpTo(text, i)
  BY <1>1 DEF StartsUpTo
<1>. QED  BY <1>2, <1>3, <1>4, <1>5

(* No two words have as many words before them.                             *)
LEMMA RanksDiffer ==
    ASSUME NEW text \in Seq(Characters),
           NEW j \in WordStarts(text), NEW k \in WordStarts(text),
           Cardinality(Before(text, j)) = Cardinality(Before(text, k))
    PROVE  j = k
<1>1. WordStarts(text) \in SUBSET (1 .. Len(text)) /\ Len(text) \in Nat
  BY DEF WordStarts
<1>2. ASSUME NEW a \in WordStarts(text), NEW b \in WordStarts(text), a < b
      PROVE  Cardinality(Before(text, a)) # Cardinality(Before(text, b))
  <2>1. Before(text, b) \in SUBSET (1 .. Len(text)) /\ IsFiniteSet(1 .. Len(text))
    BY <1>1, FS_Interval DEF Before
  <2>2. IsFiniteSet(Before(text, b))
    BY <2>1, FS_Subset
  <2>3. Before(text, a) \in SUBSET Before(text, b)
    BY <1>1, <1>2 DEF Before
  <2>4. a \in Before(text, b) /\ a \notin Before(text, a)
    BY <1>1, <1>2 DEF Before
  <2>. QED  BY <2>2, <2>3, <2>4, FS_Subset
<1>3. j \in Nat /\ k \in Nat
  BY <1>1
<1>. QED  BY <1>2, <1>3

-----------------------------------------------------------------------------
(* The arguments hold the words.                                            *)

LEMMA OneMoreCharacter ==
    ASSUME NEW line \in Seq(Marked), NEW j \in 1 .. Len(line)
    PROVE  /\ SubSeq(line, j, j) = <<line[j]>>
           /\ \A i \in j .. Len(line) - 1 :
                 Append(SubSeq(line, j, i), line[i + 1]) = SubSeq(line, j, i + 1)
<1>1. Len(line) \in Nat /\ \A i \in 1 .. Len(line) : line[i] \in Marked
  OBVIOUS
<1>2. ASSUME NEW i \in j .. Len(line)
      PROVE  /\ SubSeq(line, j, i) \in Seq(Marked)
             /\ Len(SubSeq(line, j, i)) = i - j + 1
             /\ \A k \in 1 .. i - j + 1 : SubSeq(line, j, i)[k] = line[j + k - 1]
  <2>1. \A k \in j .. i : line[k] \in Marked
    BY <1>1
  <2>2. j \in Int /\ i \in Int /\ j <= i
    BY <1>1
  <2>. QED  BY <2>1, <2>2, SubSeqProperties
<1>3. SubSeq(line, j, j) = <<line[j]>>
  <2> DEFINE s == SubSeq(line, j, j)
             t == <<line[j]>>
  <2>1. j - j + 1 = 1 /\ j + 1 - 1 = j /\ j \in j .. Len(line)
    BY <1>1
  <2>2. /\ s \in Seq(Marked) /\ Len(s) = j - j + 1
        /\ \A k \in 1 .. j - j + 1 : s[k] = line[j + k - 1]
    BY <1>2, <2>1
  <2>3. t \in Seq(Marked) /\ Len(t) = 1 /\ t[1] = line[j]
    BY <1>1
  <2>. HIDE DEF s, t
  <2>4. Len(s) = 1 /\ s[1] = line[j]
    <3>1. 1 \in 1 .. j - j + 1
      BY <2>1
    <3>2. s[1] = line[j + 1 - 1]
      BY <2>2, <3>1
    <3>. QED  BY <2>1, <2>2, <3>2
  <2>5. s = t
    BY <2>2, <2>3, <2>4, SeqEqual
  <2>. QED  BY <2>5 DEF s, t
<1>4. ASSUME NEW i \in j .. Len(line) - 1
      PROVE  Append(SubSeq(line, j, i), line[i + 1]) = SubSeq(line, j, i + 1)
  <2>1. i \in j .. Len(line) /\ i + 1 \in j .. Len(line) /\ line[i + 1] \in Marked
    BY <1>1
  <2>2. PICK s \in Seq(Marked) : s = SubSeq(line, j, i)
    BY <1>2, <2>1
  <2>3. PICK t \in Seq(Marked) : t = SubSeq(line, j, i + 1)
    BY <1>2, <2>1
  <2>4. PICK c \in Marked : c = line[i + 1]
    BY <2>1
  <2>5. PICK m \in Nat : m = i - j + 1
    BY <1>1
  <2>6. Len(s) = m /\ \A k \in 1 .. m : s[k] = line[j + k - 1]
    BY <1>2, <2>1, <2>2, <2>5
  <2>7. Len(t) = m + 1 /\ \A k \in 1 .. m + 1 : t[k] = line[j + k - 1]
    <3>1. (i + 1) - j + 1 = m + 1
      BY <2>5
    <3>. QED  BY <1>2, <2>1, <2>3, <3>1
  <2>8. /\ Append(s, c) \in Seq(Marked) /\ Len(Append(s, c)) = m + 1
        /\ \A k \in 1 .. m : Append(s, c)[k] = s[k]
        /\ Append(s, c)[m + 1] = c
    BY <2>6, AppendProperties
  <2>9. t[m + 1] = c
    <3>1. j + (m + 1) - 1 = i + 1 /\ m + 1 \in 1 .. m + 1
      BY <2>5
    <3>. QED  BY <2>4, <2>7, <3>1
  <2>10. \A k \in 1 .. m + 1 : Append(s, c)[k] = t[k]
    <3>1. \A k \in 1 .. m : k \in 1 .. m + 1
      OBVIOUS
    <3>2. \A k \in 1 .. m : Append(s, c)[k] = t[k]
      BY <2>6, <2>7, <2>8, <3>1
    <3>. QED  BY <2>8, <2>9, <3>2
  <2>11. Append(s, c) = t
    BY <2>7, <2>8, <2>10, SeqEqual
  <2>. QED  BY <2>2, <2>3, <2>4, <2>11
<1>. QED  BY <1>3, <1>4

Lead(text) == IF 1 \in WordStarts(text) THEN 0 ELSE 1
Number(text, i) == Cardinality(StartsUpTo(text, i)) + Lead(text)

(* Argument k, when the line was read up to i, is the word that starts at   *)
(* j, as far as it goes; the last argument that fits does not end with it.  *)
Holds(text, line, args, k, j, i) ==
    /\ j \in StartsUpTo(text, i) /\ Cardinality(Before(text, j)) = k - 1 - Lead(text)
    /\ k = MaxArgs => args[k] = SubSeq(line, j, i)
    /\ k < MaxArgs =>
         args[k] = SubSeq(line, j, IF WordEnd(text, j) < i
                                   THEN WordEnd(text, j) ELSE i)
    /\ k < Len(args) => WordEnd(text, j) < i
    /\ k < MaxArgs /\ k = Len(args) /\ ~Separates(text, i) => WordEnd(text, j) >= i

Read(text, line, st, i) ==
    /\ st \in Splitting
    /\ Len(st.args) = IF Number(text, i) < MaxArgs THEN Number(text, i) ELSE MaxArgs
    /\ st.blank <=> Separates(text, i) /\ Number(text, i) < MaxArgs
    /\ ~Separates(text, i) => Number(text, i) > Lead(text)
    /\ Lead(text) = 1 => st.args[1] = <<>>
    /\ \A k \in 1 + Lead(text) .. Len(st.args) :
          \E j : Holds(text, line, st.args, k, j, i)

(* What the invariant needs of the line: its blanks separate.               *)
LineOf(line, text) ==
    /\ line \in Seq(Marked) /\ Len(line) = Len(text)
    /\ \A i \in 1 .. Len(text) : line[i] = " " <=> Separates(text, i)

LEMMA StartsAt ==
    ASSUME NEW text \in Seq(Characters), NEW i \in 1 .. Len(text)
    PROVE  i \in WordStarts(text) <=>
               ~Separates(text, i) /\ (i = 1 \/ Separates(text, i - 1))
<1>1. DOMAIN text = 1 .. Len(text)
  OBVIOUS
<1>. QED  BY <1>1 DEF WordStarts

LEMMA LeadIs ==
    ASSUME NEW text
    PROVE  Lead(text) \in {0, 1} /\ (Lead(text) = 0 <=> 1 \in WordStarts(text))
  BY DEF Lead

(* The first character starts the first word, or leaves the first argument  *)
(* empty.                                                                   *)
LEMMA FirstRead ==
    ASSUME NEW text \in Seq(Characters), NEW line, LineOf(line, text),
           1 <= Len(text), NEW new, new = Split(Whole, line[1])
    PROVE  Read(text, line, new, 1)
<1>1. MaxArgs \in Nat /\ MaxArgs >= 2
  BY ArgumentsConstants
<1>2. /\ Whole \in Splitting /\ Whole.args = << <<>> >> /\ ~Whole.blank
      /\ Len(Whole.args) = 1
  <2>1. << <<>> >> \in Seq(Seq(Marked)) /\ << <<>> >> # <<>>
    OBVIOUS
  <2>. QED  BY <2>1 DEF Whole, Splitting
<1>3. /\ line \in Seq(Marked) /\ Len(line) = Len(text) /\ 1 \in 1 .. Len(text)
      /\ line[1] = " " <=> Separates(text, 1)
  <2>1. Len(text) \in Nat
    OBVIOUS
  <2>2. 1 \in 1 .. Len(text)
    BY <2>1
  <2>3. line \in Seq(Marked) /\ Len(line) = Len(text)
    BY DEF LineOf
  <2>4. line[1] = " " <=> Separates(text, 1)
    BY <2>2 DEF LineOf
  <2>. QED  BY <2>2, <2>3, <2>4
<1>4. PICK c \in Marked : c = line[1]
  <2>1. 1 \in 1 .. Len(line)
    BY <1>3
  <2>. QED  BY <1>3, <2>1, ElementOfSeq
<1>5. PICK w \in Splitting : w = Whole
  BY <1>2
<1>6. new = Split(w, c)
  BY <1>4, <1>5
<1>7. 1 \in WordStarts(text) <=> ~Separates(text, 1)
  BY <1>3, StartsAt
<1>8. /\ StartsUpTo(text, 0) = {} /\ Cardinality(StartsUpTo(text, 0)) = 0
      /\ 0 + 1 = 1 /\ 0 \in Nat
  BY StartsCount, FS_EmptySet
<1>9. CASE Separates(text, 1)
  <2>1. Cuts(w, c)
    <3>1. c = " "
      BY <1>3, <1>4, <1>9
    <3>2. Len(w.args) < MaxArgs
      <4>1. Len(w.args) = 1
        BY <1>2, <1>5
      <4>. QED  BY <1>1, <4>1
    <3>. QED  BY <3>1, <3>2 DEF Cuts
  <2>2. new \in Splitting /\ new.args = w.args /\ new.blank
    BY <1>6, <2>1, SplitStep, ZenonT(30)
  <2>3. Lead(text) = 1 /\ Number(text, 1) = 1
    <3>1. 1 \notin WordStarts(text)
      BY <1>7, <1>9
    <3>2. StartsUpTo(text, 1) = {}
      BY <1>8, <3>1, StartsCount
    <3>. QED  BY <1>8, <3>1, <3>2 DEF Lead, Number
  <2>4. Len(new.args) = 1 /\ new.args[1] = <<>>
    BY <1>2, <1>5, <2>2
  <2>5. \A k \in 1 + Lead(text) .. Len(new.args) : FALSE
    BY <2>3, <2>4
  <2>. QED  BY <1>1, <1>9, <2>2, <2>3, <2>4, <2>5 DEF Read
<1>10. CASE ~Separates(text, 1)
  <2>1. 1 \in WordStarts(text)
    BY <1>7, <1>10
  <2>2. Lead(text) = 0 /\ Number(text, 1) = 1 /\ Before(text, 1) = {}
    <3>1. Before(text, 1) = {} /\ Cardinality(StartsUpTo(text, 1)) = 1
      BY <1>8, <2>1, StartsCount
    <3>. QED  BY <2>1, <3>1 DEF Lead, Number
  <2>3. ~Cuts(w, c)
    BY <1>3, <1>4, <1>10 DEF Cuts
  <2>4. /\ new \in Splitting /\ ~new.blank
        /\ new.args = [w.args EXCEPT ![Len(w.args)] = Append(@, c)]
    BY <1>2, <1>5, <1>6, <2>3, SplitStep
  <2>5. Append(<<>>, c) = <<c>>
    <3>1. PICK e \in Seq(Marked) : e = <<>>
      BY EmptySeq
    <3>2. PICK one \in Seq(Marked) : one = <<c>>
      <4>1. <<c>> \in Seq(Marked)
        OBVIOUS
      <4>. QED  BY <4>1
    <3>3. Len(e) = 0 /\ Len(one) = 1 /\ one[1] = c
      BY <3>1, <3>2
    <3>4. /\ Append(e, c) \in Seq(Marked) /\ Len(Append(e, c)) = 1
          /\ Append(e, c)[1] = c
      BY <3>3, AppendProperties
    <3>5. Append(e, c) = one
      BY <3>3, <3>4, SeqEqual
    <3>. QED  BY <3>1, <3>2, <3>5
  <2>6. Len(new.args) = 1 /\ new.args[1] = <<c>>
    <3>1. PICK a \in Seq(Seq(Marked)) : a = w.args
      BY DEF Splitting
    <3>2. Len(a) = 1 /\ a[1] = <<>> /\ DOMAIN a = 1 .. 1
      BY <1>2, <1>5, <3>1
    <3>3. new.args = [a EXCEPT ![1] = Append(@, c)]
      BY <2>4, <3>1, <3>2
    <3>4. new.args[1] = Append(<<>>, c)
      BY <3>2, <3>3
    <3>5. <<c>> \in Seq(Marked)
      OBVIOUS
    <3>6. PICK one \in Seq(Marked) : one = <<c>>
      BY <3>5
    <3>7. new.args = [a EXCEPT ![1] = one]
      BY <2>5, <3>2, <3>3, <3>6
    <3>8. Len(new.args) = 1
      BY <3>2, <3>7, ExceptSeq
    <3>. QED  BY <2>5, <3>4, <3>8
  <2>7. SubSeq(line, 1, 1) = <<c>>
    <3>1. 1 \in 1 .. Len(line)
      BY <1>3
    <3>. QED  BY <1>3, <1>4, <3>1, OneMoreCharacter
  <2>8. Holds(text, line, new.args, 1, 1, 1)
    <3>0. Cardinality({}) = 0
      BY <1>8
    <3>1. 1 \in StartsUpTo(text, 1) /\ Cardinality(Before(text, 1)) = 0
      <4>1. 1 \in StartsUpTo(text, 1)
        BY <2>1 DEF StartsUpTo
      <4>. QED  BY <2>2, <3>0, <4>1
    <3>2. WordEnd(text, 1) \in 1 .. Len(text)
      BY <2>1, WordEnds
    <3>3. /\ ~(WordEnd(text, 1) < 1) /\ WordEnd(text, 1) >= 1
          /\ ~(1 < Len(new.args)) /\ 1 = 1 + 0
      BY <2>6, <3>2
    <3>4. new.args[1] = SubSeq(line, 1, 1)
      BY <2>6, <2>7
    <3>5. 0 = 1 - 1 - Lead(text)
      BY <2>2
    <3>. QED  BY <3>1, <3>3, <3>4, <3>5 DEF Holds
  <2>9. \A k \in 1 + Lead(text) .. Len(new.args) : k = 1
    BY <2>2, <2>6
  <2>10. Len(new.args) = IF Number(text, 1) < MaxArgs THEN Number(text, 1)
                         ELSE MaxArgs
    BY <1>1, <2>2, <2>6
  <2>11. new.blank <=> Separates(text, 1) /\ Number(text, 1) < MaxArgs
    BY <1>10, <2>4
  <2>12. Number(text, 1) > Lead(text) /\ Lead(text) # 1
    BY <2>2
  <2>. QED  BY <2>4, <2>8, <2>9, <2>10, <2>11, <2>12 DEF Read
<1>. QED  BY <1>9, <1>10

(* An argument whose word has ended stays as it is.                         *)
LEMMA KeptArgument ==
    ASSUME NEW text \in Seq(Characters), NEW line, NEW args, NEW more,
           NEW i \in 1 .. Len(text) - 1, NEW k \in Nat, NEW j,
           Holds(text, line, args, k, j, i),
           WordEnd(text, j) <= i, k < MaxArgs, more[k] = args[k],
           Separates(text, i + 1) \/ k # Len(more)
    PROVE  Holds(text, line, more, k, j, i + 1)
<1>1. MaxArgs \in Nat
  BY ArgumentsConstants
<1>2. /\ j \in WordStarts(text) /\ j <= i
      /\ Cardinality(Before(text, j)) = k - 1 - Lead(text)
      /\ args[k] = SubSeq(line, j, IF WordEnd(text, j) < i
                                   THEN WordEnd(text, j) ELSE i)
  BY DEF Holds, StartsUpTo
<1>3. j \in 1 .. Len(text) /\ WordEnd(text, j) \in j .. Len(text)
  BY <1>2, WordEnds
<1>4. PICK w \in Nat : w = WordEnd(text, j)
  BY <1>3
<1>5. more[k] = SubSeq(line, j, w) /\ w < i + 1 /\ ~(w >= i + 1)
  <2>1. w <= i /\ i \in Nat
    BY <1>4
  <2>2. (IF WordEnd(text, j) < i THEN WordEnd(text, j) ELSE i) = w
    BY <1>4, <2>1
  <2>3. more[k] = SubSeq(line, j, w)
    BY <1>2, <2>2
  <2>. QED  BY <2>1, <2>3
<1>6. j \in StartsUpTo(text, i + 1)
  BY <1>2, <1>3 DEF StartsUpTo
<1>7. k # MaxArgs
  BY <1>1
<1>. QED  BY <1>2, <1>4, <1>5, <1>6, <1>7 DEF Holds

(* The last argument takes the next character of its word, or of the rest   *)
(* of the text when it is the last that fits.                               *)
LEMMA LongerArgument ==
    ASSUME NEW text \in Seq(Characters), NEW line, LineOf(line, text),
           NEW args, NEW more, NEW i \in 1 .. Len(text) - 1, NEW k \in Nat, NEW j,
           Holds(text, line, args, k, j, i),
           k = Len(args), k = Len(more), more[k] = Append(args[k], line[i + 1]),
           k = MaxArgs \/ (k < MaxArgs /\ ~Separates(text, i)
                                       /\ ~Separates(text, i + 1))
    PROVE  Holds(text, line, more, k, j, i + 1)
<1>1. MaxArgs \in Nat
  BY ArgumentsConstants
<1>2. /\ j \in WordStarts(text) /\ j <= i
      /\ Cardinality(Before(text, j)) = k - 1 - Lead(text)
  BY DEF Holds, StartsUpTo
<1>3. j \in 1 .. Len(text) /\ WordEnd(text, j) \in j .. Len(text)
  BY <1>2, WordEnds
<1>4. Append(SubSeq(line, j, i), line[i + 1]) = SubSeq(line, j, i + 1)
  <2>1. line \in Seq(Marked) /\ Len(line) = Len(text)
    BY DEF LineOf
  <2>2. j \in 1 .. Len(line) /\ i \in j .. Len(line) - 1
    BY <1>2, <1>3, <2>1
  <2>. QED  BY <2>1, <2>2, OneMoreCharacter
<1>5. j \in StartsUpTo(text, i + 1)
  BY <1>2, <1>3 DEF StartsUpTo
<1>6. CASE k = MaxArgs
  <2>1. args[k] = SubSeq(line, j, i)
    BY <1>6 DEF Holds
  <2>2. more[k] = SubSeq(line, j, i + 1)
    BY <1>4, <2>1
  <2>3. ~(k < MaxArgs) /\ ~(k < Len(more))
    BY <1>1, <1>6
  <2>. QED  BY <1>2, <1>5, <2>2, <2>3 DEF Holds
<1>7. CASE k < MaxArgs /\ ~Separates(text, i) /\ ~Separates(text, i + 1)
  <2>1. PICK w \in Nat : w = WordEnd(text, j)
    BY <1>3
  <2>2. w >= i
    BY <1>7, <2>1 DEF Holds
  <2>3. w # i
    <3>1. WordEnd(text, j) < Len(text) => Separates(text, WordEnd(text, j) + 1)
      BY <1>2, WordEnds
    <3>2. i < Len(text)
      OBVIOUS
    <3>. QED  BY <1>7, <2>1, <3>1, <3>2
  <2>4. w >= i + 1 /\ ~(w < i + 1) /\ ~(w < i)
    BY <2>1, <2>2, <2>3
  <2>5. args[k] = SubSeq(line, j, i)
    BY <1>7, <2>1, <2>4 DEF Holds
  <2>6. more[k] = SubSeq(line, j, i + 1)
    BY <1>4, <2>5
  <2>7. k # MaxArgs /\ ~(k < Len(more))
    BY <1>1, <1>7
  <2>. QED  BY <1>2, <1>5, <2>1, <2>4, <2>6, <2>7 DEF Holds
<1>. QED  BY <1>6, <1>7

(* A word that starts after a cut is a new argument.                        *)
LEMMA NewArgument ==
    ASSUME NEW text \in Seq(Characters), NEW line, LineOf(line, text),
           NEW more, NEW i \in 1 .. Len(text) - 1, NEW k \in Nat,
           i + 1 \in WordStarts(text),
           Cardinality(StartsUpTo(text, i)) = k - 1 - Lead(text),
           k = Len(more), more[k] = <<line[i + 1]>>
    PROVE  Holds(text, line, more, k, i + 1, i + 1)
<1>1. /\ i + 1 \in 1 .. Len(text) /\ WordEnd(text, i + 1) \in i + 1 .. Len(text)
  BY WordEnds
<1>2. Cardinality(Before(text, i + 1)) = k - 1 - Lead(text)
  <2>1. i \in Nat
    OBVIOUS
  <2>. QED  BY <2>1, StartsCount
<1>3. i + 1 \in StartsUpTo(text, i + 1)
  BY DEF StartsUpTo
<1>4. more[k] = SubSeq(line, i + 1, i + 1)
  <2>1. line \in Seq(Marked) /\ Len(line) = Len(text)
    BY DEF LineOf
  <2>2. i + 1 \in 1 .. Len(line)
    BY <1>1, <2>1
  <2>. QED  BY <2>1, <2>2, OneMoreCharacter
<1>5. /\ ~(WordEnd(text, i + 1) < i + 1) /\ WordEnd(text, i + 1) >= i + 1
      /\ ~(k < Len(more))
  BY <1>1
<1>. QED  BY <1>2, <1>3, <1>4, <1>5 DEF Holds

(* What a step that does not cut makes of the arguments.                    *)
LEMMA ArgumentBegins ==
    ASSUME NEW st \in Splitting, NEW c \in Marked, ~Cuts(st, c), st.blank,
           NEW n \in Nat, n = Len(st.args), NEW new, new = Split(st, c)
    PROVE  /\ new \in Splitting /\ ~new.blank
           /\ Len(new.args) = n + 1 /\ new.args[n + 1] = <<c>>
           /\ \A k \in 1 .. n : new.args[k] = st.args[k]
<1>1. new \in Splitting /\ ~new.blank
  BY SplitStep
<1>2. PICK a \in Seq(Seq(Marked)) : a = st.args
  BY DEF Splitting
<1>3. PICK one \in Seq(Marked) : one = <<c>>
  <2>1. <<c>> \in Seq(Marked)
    OBVIOUS
  <2>. QED  BY <2>1
<1>4. new.args = Append(a, one)
  BY <1>2, <1>3, SplitStep
<1>5. /\ Len(new.args) = n + 1 /\ new.args[n + 1] = one
      /\ \A k \in 1 .. n : new.args[k] = a[k]
  BY <1>2, <1>4, AppendProperties
<1>. QED  BY <1>1, <1>2, <1>2, <1>3, <1>5

LEMMA ArgumentGrows ==
    ASSUME NEW st \in Splitting, NEW c \in Marked, ~Cuts(st, c), ~st.blank,
           NEW n \in Nat, n = Len(st.args), NEW new, new = Split(st, c)
    PROVE  /\ new \in Splitting /\ ~new.blank
           /\ Len(new.args) = n /\ new.args[n] = Append(st.args[n], c)
           /\ \A k \in 1 .. n - 1 : new.args[k] = st.args[k]
<1>1. new \in Splitting /\ ~new.blank
  BY SplitStep
<1>2. PICK a \in Seq(Seq(Marked)) : a = st.args /\ a # <<>>
  BY DEF Splitting
<1>3. n = Len(a) /\ n \in Nat \ {0} /\ DOMAIN a = 1 .. n
  <2>1. n = Len(a) /\ n \in Nat /\ DOMAIN a = 1 .. n
    BY <1>2, LenProperties
  <2>2. n # 0
    BY <1>2, <2>1, EmptySeq
  <2>. QED  BY <2>1, <2>2
<1>4. new.args = [a EXCEPT ![n] = Append(@, c)]
  BY <1>2, <1>3, SplitStep
<1>5. a[n] \in Seq(Marked)
  <2>1. n \in 1 .. Len(a)
    BY <1>3
  <2>. QED  BY <1>2, <2>1, ElementOfSeq
<1>6. PICK more \in Seq(Marked) : more = Append(a[n], c)
  BY <1>5, AppendProperties
<1>7. new.args = [a EXCEPT ![n] = more]
  BY <1>4, <1>6
<1>8. Len(new.args) = n
  BY <1>2, <1>3, <1>7, ExceptSeq
<1>9. new.args[n] = more /\ \A k \in 1 .. n - 1 : new.args[k] = a[k]
  BY <1>3, <1>7
<1>. QED  BY <1>1, <1>2, <1>2, <1>6, <1>8, <1>9

(* The next character keeps what was read.                                  *)
LEMMA NextRead ==
    ASSUME NEW text \in Seq(Characters), NEW line, LineOf(line, text),
           NEW i \in 1 .. Len(text) - 1, NEW st, Read(text, line, st, i),
           NEW new, new = Split(st, line[i + 1])
    PROVE  Read(text, line, new, i + 1)
<1>1. MaxArgs \in Nat /\ MaxArgs >= 2
  BY ArgumentsConstants
<1>2. st \in Splitting
  BY DEF Read
<1>3. i \in Nat /\ i + 1 \in 1 .. Len(text) /\ (i + 1) - 1 = i /\ i + 1 # 1
  OBVIOUS
<1>4. PICK c \in Marked : c = line[i + 1]
  <2>1. line \in Seq(Marked) /\ i + 1 \in 1 .. Len(line)
    BY <1>3 DEF LineOf
  <2>. QED  BY <2>1, ElementOfSeq
<1>5. c = " " <=> Separates(text, i + 1)
  BY <1>3, <1>4 DEF LineOf
<1>6. i + 1 \in WordStarts(text)
          <=> ~Separates(text, i + 1) /\ Separates(text, i)
  BY <1>3, StartsAt
<1>7. PICK l \in {0, 1} : l = Lead(text)
  BY LeadIs
<1>8. PICK s \in Nat : s = Cardinality(StartsUpTo(text, i))
  BY <1>3, StartsCount
<1>9. Number(text, i) = s + l
  BY <1>7, <1>8 DEF Number
<1>10. /\ i + 1 \in WordStarts(text) => Number(text, i + 1) = s + l + 1
       /\ i + 1 \notin WordStarts(text) => Number(text, i + 1) = s + l
  <2>1. ASSUME i + 1 \in WordStarts(text)
        PROVE  Number(text, i + 1) = s + l + 1
    <3>1. Cardinality(StartsUpTo(text, i + 1)) = s + 1
      BY <1>3, <1>8, <2>1, StartsCount
    <3>. QED  BY <1>7, <3>1 DEF Number
  <2>2. ASSUME i + 1 \notin WordStarts(text)
        PROVE  Number(text, i + 1) = s + l
    <3>1. StartsUpTo(text, i + 1) = StartsUpTo(text, i)
      BY <1>3, <2>2, StartsCount
    <3>. QED  BY <1>9, <3>1 DEF Number
  <2>. QED  BY <2>1, <2>2
<1>11. PICK n \in Nat \ {0} : n = Len(st.args)
  <2>1. st.args \in Seq(Seq(Marked)) /\ st.args # <<>>
    BY <1>2 DEF Splitting
  <2>. QED  BY <2>1, EmptySeq
<1>12. /\ n = IF s + l < MaxArgs THEN s + l ELSE MaxArgs
       /\ st.blank <=> Separates(text, i) /\ s + l < MaxArgs
       /\ ~Separates(text, i) => s > 0
       /\ l = 1 => st.args[1] = <<>>
  <2>1. n = IF s + l < MaxArgs THEN s + l ELSE MaxArgs
    BY <1>9, <1>11 DEF Read
  <2>2. st.blank <=> Separates(text, i) /\ s + l < MaxArgs
    BY <1>9 DEF Read
  <2>3. ~Separates(text, i) => s > 0
    <3>1. ~Separates(text, i) => s + l > l
      BY <1>7, <1>9 DEF Read
    <3>. QED  BY <1>7, <3>1
  <2>4. l = 1 => st.args[1] = <<>>
    BY <1>7 DEF Read
  <2>. QED  BY <2>1, <2>2, <2>3, <2>4
<1>13. \A k \in 1 + l .. n : \E j : Holds(text, line, st.args, k, j, i)
  BY <1>7, <1>11 DEF Read
<1>14. n <= MaxArgs /\ n <= s + l
  BY <1>1, <1>7, <1>12
(* An argument that stays as it is, and is not the last one afterwards.     *)
<1>15. ASSUME NEW k \in 1 + l .. n, new.args[k] = st.args[k], k < MaxArgs,
              k # Len(new.args),
              k # n \/ Separates(text, i)
       PROVE  \E j : Holds(text, line, new.args, k, j, i + 1)
  <2>1. PICK j : Holds(text, line, st.args, k, j, i)
    BY <1>13, <1>15
  <2>2. k \in Nat
    BY <1>7
  <2>3. WordEnd(text, j) <= i
    <3>1. j \in WordStarts(text) /\ j <= i
      BY <2>1 DEF Holds, StartsUpTo
    <3>2. /\ j \in 1 .. Len(text) /\ WordEnd(text, j) \in j .. Len(text)
          /\ \A e \in j .. WordEnd(text, j) : ~Separates(text, e)
      BY <3>1, WordEnds
    <3>3. CASE k # n
      <4>1. k < Len(st.args)
        BY <1>11, <2>2, <3>3
      <4>2. WordEnd(text, j) < i
        BY <2>1, <4>1 DEF Holds
      <4>. QED  BY <3>2, <4>2
    <3>4. CASE Separates(text, i)
      <4>1. i \notin j .. WordEnd(text, j)
        BY <3>2, <3>4
      <4>. QED  BY <3>1, <3>2, <4>1
    <3>. QED  BY <1>15, <3>3, <3>4
  <2>4. Holds(text, line, new.args, k, j, i + 1)
    BY <1>15, <2>1, <2>2, <2>3, KeptArgument
  <2>. QED  BY <2>4
<1>16. CASE Cuts(st, c)
  <2>1. new \in Splitting /\ new.args = st.args /\ new.blank
    BY <1>2, <1>4, <1>16, SplitStep
  <2>2. Separates(text, i + 1) /\ n < MaxArgs
    BY <1>5, <1>11, <1>16 DEF Cuts
  <2>3. n = s + l /\ Number(text, i + 1) = s + l
    BY <1>1, <1>6, <1>10, <1>12, <2>2
  <2>4. ASSUME NEW k \in 1 + l .. n
        PROVE  \E j : Holds(text, line, new.args, k, j, i + 1)
    <3>1. PICK j : Holds(text, line, st.args, k, j, i)
      BY <1>13
    <3>2. k \in Nat /\ k < MaxArgs
      BY <1>1, <1>7, <2>2
    <3>3. WordEnd(text, j) <= i
      <4>1. j \in WordStarts(text) /\ j <= i
        BY <3>1 DEF Holds, StartsUpTo
      <4>2. /\ j \in 1 .. Len(text) /\ WordEnd(text, j) \in j .. Len(text)
            /\ \A e \in j .. WordEnd(text, j) : ~Separates(text, e)
        BY <4>1, WordEnds
      <4>3. i + 1 \notin j .. WordEnd(text, j)
        BY <2>2, <4>2
      <4>. QED  BY <4>1, <4>2, <4>3
    <3>4. Holds(text, line, new.args, k, j, i + 1)
      BY <2>1, <2>2, <3>1, <3>2, <3>3, KeptArgument
    <3>. QED  BY <3>4
  <2>5. Len(new.args) = n /\ (l = 1 => new.args[1] = <<>>)
    BY <1>11, <1>12, <2>1
  <2>6. n = IF s + l < MaxArgs THEN s + l ELSE MaxArgs
    BY <1>12
  <2>7. new.blank <=> Separates(text, i + 1) /\ s + l < MaxArgs
    BY <2>1, <2>2, <2>3
  <2>. QED  BY <1>7, <2>1, <2>2, <2>3, <2>4, <2>5, <2>6, <2>7 DEF Read
<1>17. CASE ~Cuts(st, c) /\ st.blank
  <2>1. /\ new \in Splitting /\ ~new.blank
        /\ Len(new.args) = n + 1 /\ new.args[n + 1] = <<c>>
        /\ \A k \in 1 .. n : new.args[k] = st.args[k]
    <3>1. new = Split(st, c)
      BY <1>4
    <3>2. n = Len(st.args)
      BY <1>11
    <3>. QED  BY <1>2, <1>17, <3>1, <3>2, ArgumentBegins
  <2>2. Separates(text, i) /\ n = s + l /\ n < MaxArgs
    BY <1>12, <1>17
  <2>3. ~Separates(text, i + 1) /\ i + 1 \in WordStarts(text)
    BY <1>5, <1>6, <1>11, <1>17, <2>2 DEF Cuts
  <2>4. Number(text, i + 1) = n + 1
    BY <1>10, <2>2, <2>3
  <2>5. ASSUME NEW k \in 1 + l .. n + 1
        PROVE  \E j : Holds(text, line, new.args, k, j, i + 1)
    <3>1. CASE k = n + 1
      <4>1. Cardinality(StartsUpTo(text, i)) = k - 1 - Lead(text)
        BY <1>7, <1>8, <2>2, <3>1
      <4>2. k \in Nat /\ k = Len(new.args) /\ new.args[k] = <<line[i + 1]>>
        BY <1>4, <2>1, <3>1
      <4>3. Holds(text, line, new.args, k, i + 1, i + 1)
        BY <2>3, <4>1, <4>2, NewArgument
      <4>. QED  BY <4>3
    <3>2. CASE k # n + 1
      <4>1. k \in 1 + l .. n /\ k \in 1 .. n /\ k # Len(new.args) /\ k < MaxArgs
        BY <1>1, <1>7, <2>1, <2>2, <3>2
      <4>2. new.args[k] = st.args[k]
        BY <2>1, <4>1
      <4>. QED  BY <1>15, <2>2, <4>1, <4>2
    <3>. QED  BY <3>1, <3>2
  <2>6. l = 1 => new.args[1] = <<>>
    <3>1. 1 \in 1 .. n
      OBVIOUS
    <3>2. new.args[1] = st.args[1]
      BY <2>1, <3>1
    <3>. QED  BY <1>12, <3>2
  <2>7. n + 1 = IF n + 1 < MaxArgs THEN n + 1 ELSE MaxArgs
    BY <1>1, <2>2
  <2>8. n + 1 > l
    BY <1>7, <2>2
  <2>. QED  BY <1>7, <2>1, <2>3, <2>4, <2>5, <2>6, <2>7, <2>8 DEF Read
<1>18. CASE ~Cuts(st, c) /\ ~st.blank
  <2>1. /\ new \in Splitting /\ ~new.blank
        /\ Len(new.args) = n /\ new.args[n] = Append(st.args[n], c)
        /\ \A k \in 1 .. n - 1 : new.args[k] = st.args[k]
    <3>1. new = Split(st, c)
      BY <1>4
    <3>2. n = Len(st.args)
      BY <1>11
    <3>. QED  BY <1>2, <1>18, <3>1, <3>2, ArgumentGrows, SMTT(30)
  <2>2. \/ n = MaxArgs
        \/ n < MaxArgs /\ ~Separates(text, i) /\ ~Separates(text, i + 1)
    <3>1. CASE n < MaxArgs
      <4>1. ~Separates(text, i + 1)
        BY <1>5, <1>11, <1>18, <3>1 DEF Cuts
      <4>2. ~Separates(text, i)
        BY <1>1, <1>7, <1>12, <1>18, <3>1
      <4>. QED  BY <3>1, <4>1, <4>2
    <3>. QED  BY <1>1, <1>14, <3>1
  <2>3. n > l
    BY <1>1, <1>7, <1>12, <2>2
  <2>4. ASSUME NEW k \in 1 + l .. n
        PROVE  \E j : Holds(text, line, new.args, k, j, i + 1)
    <3>1. CASE k = n
      <4>1. PICK j : Holds(text, line, st.args, k, j, i)
        BY <1>13
      <4>2. /\ k \in Nat /\ k = Len(st.args) /\ k = Len(new.args)
            /\ new.args[k] = Append(st.args[k], line[i + 1])
        BY <1>4, <1>11, <2>1, <3>1
      <4>3. Holds(text, line, new.args, k, j, i + 1)
        BY <2>2, <3>1, <4>1, <4>2, LongerArgument
      <4>. QED  BY <4>3
    <3>2. CASE k # n
      <4>1. k \in 1 .. n - 1 /\ k # Len(new.args) /\ k < MaxArgs
        BY <1>1, <1>7, <1>14, <2>1, <3>2
      <4>2. new.args[k] = st.args[k]
        BY <2>1, <4>1
      <4>. QED  BY <1>15, <3>2, <4>1, <4>2
    <3>. QED  BY <3>1, <3>2
  <2>5. l = 1 => new.args[1] = <<>>
    BY <1>12, <2>1, <2>3
  <2>6. PICK m \in Nat : /\ m = Number(text, i + 1) /\ m >= s + l
                         /\ m > s + l => i + 1 \in WordStarts(text)
    BY <1>7, <1>10
  <2>7. n = IF m < MaxArgs THEN m ELSE MaxArgs
    <3>1. CASE n = MaxArgs
      <4>1. s + l >= MaxArgs
        BY <1>14, <3>1
      <4>. QED  BY <1>1, <1>7, <2>6, <3>1, <4>1
    <3>2. CASE n < MaxArgs /\ ~Separates(text, i)
      <4>1. m = s + l /\ n = s + l
        BY <1>1, <1>6, <1>7, <1>12, <2>6, <3>2
      <4>. QED  BY <3>2, <4>1
    <3>. QED  BY <2>2, <3>1, <3>2
  <2>8. ~(Separates(text, i + 1) /\ m < MaxArgs)
    BY <1>1, <2>2, <2>7
  <2>9. m > l
    BY <1>1, <1>7, <1>14, <2>3, <2>6
  <2>. QED  BY <1>7, <2>1, <2>4, <2>5, <2>6, <2>7, <2>8, <2>9 DEF Read
<1>. QED  BY <1>16, <1>17, <1>18

(* The whole line is read so.                                               *)
LEMMA WholeRead ==
    ASSUME NEW text \in Seq(Characters), NEW line, LineOf(line, text),
           1 <= Len(text)
    PROVE  \E st : /\ Read(text, line, st, Len(text))
                   /\ SplitAll(line) = st.args
<1>1. line \in Seq(Marked) /\ Len(line) = Len(text)
  BY DEF LineOf
<1>2. PICK n \in Nat \ {0} : n = Len(text)
  OBVIOUS
<1>3. PICK g : /\ g[0] = Whole /\ SplitAll(line) = g[n].args
               /\ \A i \in 1 .. n : g[i] = Split(g[i - 1], line[i])
  BY <1>1, <1>2, SplitRuns
<1> DEFINE S == {i \in 0 .. n - 1 : Read(text, line, g[i + 1], i + 1)}
<1>4. 0 \in S
  <2>1. 0 \in 0 .. n - 1 /\ 1 \in 1 .. n /\ 1 - 1 = 0 /\ 0 + 1 = 1
    OBVIOUS
  <2>2. g[1] = Split(Whole, line[1])
    BY <1>3, <2>1
  <2>3. Read(text, line, g[1], 1)
    BY <2>2, FirstRead
  <2>. QED  BY <2>1, <2>3
<1>5. \A i \in 0 .. n - 2 : i \in S => i + 1 \in S
  <2>1. ASSUME NEW i \in 0 .. n - 2, i \in S PROVE i + 1 \in S
    <3>1. PICK m \in 1 .. n - 1 : m = i + 1
      OBVIOUS
    <3>2. Read(text, line, g[m], m)
      BY <2>1, <3>1
    <3>3. m + 1 \in 1 .. n /\ (m + 1) - 1 = m /\ m \in 1 .. Len(text) - 1
      BY <1>2
    <3>4. g[m + 1] = Split(g[m], line[m + 1])
      BY <1>3, <3>3
    <3>5. Read(text, line, g[m + 1], m + 1)
      BY <3>2, <3>3, <3>4, NextRead
    <3>6. m \in S
      BY <3>5
    <3>. QED  BY <3>1, <3>6
  <2>. QED  BY <2>1
<1>6. n - 1 \in S
  <2>. HIDE DEF S
  <2>1. n - 1 \in Nat /\ (n - 1) - 1 = n - 2 /\ n - 1 \in 0 .. n - 1
    OBVIOUS
  <2>2. \A i \in 0 .. (n - 1) - 1 : i \in S => i + 1 \in S
    BY <1>5, <2>1
  <2>3. \A i \in 0 .. n - 1 : i \in S
    BY <1>4, <2>1, <2>2, UpTo
  <2>. QED  BY <2>1, <2>3
<1>7. Read(text, line, g[n], n)
  <2>1. (n - 1) + 1 = n
    OBVIOUS
  <2>. QED  BY <1>6, <2>1
<1>. QED  BY <1>2, <1>3, <1>7

-----------------------------------------------------------------------------
(* The arguments as the caller sees them.                                   *)

(* A part of the text without its quotes.                                   *)
Bare(text, j, m) ==
    [q \in 1 .. m - j + 1 |->
        IF text[j + q - 1] = "quote" THEN " " ELSE text[j + q - 1]]

(* A part of the line, with its blanks back.                                *)
LEMMA PartOfLine ==
    ASSUME NEW text \in Seq(Characters), NEW line, line = Protect(text),
           NEW j \in 1 .. Len(text), NEW m \in j .. Len(text)
    PROVE  /\ Unprotect(SubSeq(line, j, m)) = Bare(text, j, m)
           /\ (\A i \in j .. m : ~Separates(text, i)) =>
                 Unprotect(SubSeq(line, j, m)) = SubSeq(text, j, m)
<1>1. PICK n \in Nat : n = Len(text) /\ \A i \in 1 .. n : text[i] \in Characters
  OBVIOUS
<1>2. /\ line \in Seq(Marked) /\ Len(line) = n
      /\ \A i \in 1 .. n : line[i] = MarkOf(text, i)
  BY <1>1, ProtectMarks
<1>3. PICK p \in Nat : p = m - j + 1
  BY <1>1
<1>4. \A q \in 1 .. p : j + q - 1 \in 1 .. n /\ j + q - 1 \in j .. m
  BY <1>1, <1>3
<1>5. PICK s \in Seq(Marked) :
         /\ s = SubSeq(line, j, m) /\ Len(s) = p
         /\ \A q \in 1 .. p : s[q] = line[j + q - 1]
  <2>1. \A i \in j .. m : line[i] \in Marked
    <3>1. \A i \in j .. m : i \in 1 .. Len(line)
      BY <1>1, <1>2
    <3>. QED  BY <1>2, <3>1, ElementOfSeq
  <2>2. j \in Int /\ m \in Int /\ j <= m
    BY <1>1
  <2>3. /\ SubSeq(line, j, m) \in Seq(Marked)
        /\ Len(SubSeq(line, j, m)) = m - j + 1
        /\ \A q \in 1 .. m - j + 1 : SubSeq(line, j, m)[q] = line[j + q - 1]
    BY <2>1, <2>2, SubSeqProperties
  <2>. QED  BY <1>3, <2>3
<1>6. PICK u \in Seq(Characters) :
         /\ u = SubSeq(text, j, m) /\ Len(u) = p
         /\ \A q \in 1 .. p : u[q] = text[j + q - 1]
  <2>1. \A i \in j .. m : text[i] \in Characters
    BY <1>1
  <2>2. j \in Int /\ m \in Int /\ j <= m
    BY <1>1
  <2>3. /\ SubSeq(text, j, m) \in Seq(Characters)
        /\ Len(SubSeq(text, j, m)) = m - j + 1
        /\ \A q \in 1 .. m - j + 1 : SubSeq(text, j, m)[q] = text[j + q - 1]
    BY <2>1, <2>2, SubSeqProperties
  <2>. QED  BY <1>3, <2>3
<1>7. DOMAIN s = 1 .. p /\ DOMAIN u = 1 .. p /\ u = [q \in 1 .. p |-> u[q]]
  <2>1. u \in [1 .. p -> Characters] /\ DOMAIN s = 1 .. p
    BY <1>5, <1>6, LenProperties
  <2>. QED  BY <2>1
<1>8. Unprotect(s) = [q \in 1 .. p |-> IF s[q] = "kept" THEN " " ELSE s[q]]
  BY <1>7 DEF Unprotect
<1>9. ASSUME NEW q \in 1 .. p
      PROVE  /\ (IF s[q] = "kept" THEN " " ELSE s[q])
                   = IF text[j + q - 1] = "quote" THEN " " ELSE text[j + q - 1]
             /\ ~Separates(text, j + q - 1) =>
                   (IF s[q] = "kept" THEN " " ELSE s[q]) = u[q]
  <2>1. PICK i \in 1 .. n : i = j + q - 1
    BY <1>4
  <2>2. s[q] = MarkOf(text, i) /\ u[q] = text[i]
    BY <1>2, <1>5, <1>6, <2>1
  <2>3. /\ ~Separates(text, i) =>
              (IF s[q] = "kept" THEN " " ELSE s[q]) = text[i]
        /\ (IF s[q] = "kept" THEN " " ELSE s[q])
              = IF text[i] = "quote" THEN " " ELSE text[i]
    BY <1>1, <2>2, MarksSeparate
  <2>. QED  BY <2>1, <2>2, <2>3
<1>10. Unprotect(s) = [q \in 1 .. p |-> IF text[j + q - 1] = "quote" THEN " "
                                        ELSE text[j + q - 1]]
  BY <1>8, <1>9
<1>11. ASSUME \A i \in j .. m : ~Separates(text, i) PROVE Unprotect(s) = u
  <2>1. \A q \in 1 .. p : (IF s[q] = "kept" THEN " " ELSE s[q]) = u[q]
    BY <1>4, <1>9, <1>11
  <2>. QED  BY <1>7, <1>8, <2>1
<1>12. Unprotect(s) = Bare(text, j, m)
  BY <1>3, <1>10 DEF Bare
<1>. QED  BY <1>5, <1>6, <1>11, <1>12

LEMMA ParseReads ==
    ASSUME NEW text \in Seq(Characters)
    PROVE  /\ ParsesLikeQuoting(text)
           /\ Len(parse(text))
                 = IF Cardinality(WordStarts(text)) + Lead(text) < MaxArgs
                   THEN Cardinality(WordStarts(text)) + Lead(text) ELSE MaxArgs
           /\ Cardinality(WordStarts(text)) \in Nat
<1> DEFINE line == Protect(text)
           args == SplitAll(line)
           Nth(k) == CHOOSE i \in WordStarts(text) :
                        Cardinality({j \in WordStarts(text) : j < i})
                           = k - 1 - Lead(text)
           rest(i) == [j \in 1 .. Len(text) - i + 1 |->
                          IF text[i + j - 1] = "quote" THEN " "
                          ELSE text[i + j - 1]]
<1>1. MaxArgs \in Nat /\ MaxArgs >= 2
  BY ArgumentsConstants
<1>2. PICK n \in Nat : n = Len(text)
  OBVIOUS
<1>3. LineOf(line, text)
  <2>1. line \in Seq(Marked) /\ Len(line) = Len(text)
    BY ProtectMarks
  <2>2. \A i \in 1 .. Len(text) : line[i] = " " <=> Separates(text, i)
    BY ProtectMarks, MarksSeparate
  <2>. HIDE DEF line
  <2>. QED  BY <2>1, <2>2 DEF LineOf
<1>4. PICK l \in {0, 1} : l = Lead(text)
  BY LeadIs
<1>5. PICK w \in Nat : /\ w = Cardinality(WordStarts(text))
                       /\ Number(text, n) = w + l
  <2>1. /\ Cardinality(StartsUpTo(text, n)) \in Nat
        /\ StartsUpTo(text, n) = WordStarts(text)
    BY <1>2, StartsCount
  <2>. QED  BY <1>4, <2>1 DEF Number
<1>6. /\ args \in Seq(Seq(Marked))
      /\ Len(args) = IF w + l < MaxArgs THEN w + l ELSE MaxArgs
      /\ l = 1 => args[1] = <<>>
      /\ \A k \in 1 + l .. Len(args) : \E j : Holds(text, line, args, k, j, n)
  <2>1. CASE n = 0
    <3>1. line \in Seq(Marked) /\ Len(line) = 0
      BY <1>2, <1>3, <2>1 DEF LineOf
    <3>2. PICK g : g[0] = Whole /\ SplitAll(line) = g[Len(line)].args
      <4>. HIDE DEF line
      <4>. QED  BY <3>1, SplitRuns
    <3>3. args = << <<>> >>
      BY <3>1, <3>2 DEF Whole
    <3>4. StartsUpTo(text, n) = {} /\ WordStarts(text) = {}
      BY <1>2, <2>1, StartsCount
    <3>5. w = 0 /\ l = 1
      BY <1>4, <1>5, <3>4, FS_EmptySet DEF Lead
    <3>6. << <<>> >> \in Seq(Seq(Marked))
      OBVIOUS
    <3>7. Len(args) = 1 /\ args[1] = <<>>
      BY <3>3
    <3>. HIDE DEF args
    <3>. QED  BY <1>1, <3>3, <3>5, <3>6, <3>7
  <2>2. CASE n # 0
    <3>. HIDE DEF line
    <3>1. PICK st : Read(text, line, st, n) /\ args = st.args
      BY <1>2, <1>3, <2>2, WholeRead
    <3>. HIDE DEF args
    <3>2. args \in Seq(Seq(Marked))
      BY <3>1 DEF Read, Splitting
    <3>3. Len(args) = IF w + l < MaxArgs THEN w + l ELSE MaxArgs
      BY <1>5, <3>1 DEF Read
    <3>4. l = 1 => args[1] = <<>>
      BY <1>4, <3>1 DEF Read
    <3>5. \A k \in 1 + l .. Len(args) : \E j : Holds(text, line, args, k, j, n)
      BY <1>4, <3>1 DEF Read
    <3>. QED  BY <3>2, <3>3, <3>4, <3>5
  <2>. QED  BY <2>1, <2>2
<1>7. PICK a \in Nat : a = Len(args)
  <2>. HIDE DEF args
  <2>. QED  BY <1>6, LenProperties
<1>8. parse(text) = [k \in 1 .. a |-> Unprotect(args[k])]
  <2>1. DOMAIN args = 1 .. a
    <3>. HIDE DEF args
    <3>. QED  BY <1>6, <1>7, LenProperties
  <2>. QED  BY <2>1 DEF parse
<1>9. Len(parse(text)) = a
  <2>. HIDE DEF args
  <2>. QED  BY <1>7, <1>8
<1>10. l = 1 => parse(text)[1] = <<>>
  <2>1. l = 1 => 1 \in 1 .. a
    BY <1>1, <1>5, <1>6, <1>7
  <2>2. Unprotect(<<>>) = <<>>
    BY DEF Unprotect
  <2>. HIDE DEF args
  <2>. QED  BY <1>6, <1>8, <2>1, <2>2
<1>11. ASSUME NEW k \in 1 + l .. a
       PROVE  parse(text)[k]
                 = IF k = MaxArgs THEN rest(Nth(k))
                   ELSE SubSeq(text, Nth(k), WordEnd(text, Nth(k)))
  <2>1. PICK j : Holds(text, line, args, k, j, n)
    BY <1>6, <1>7
  <2>2. /\ j \in WordStarts(text)
        /\ Cardinality(Before(text, j)) = k - 1 - Lead(text)
    BY <2>1 DEF Holds, StartsUpTo
  <2>3. Nth(k) = j
    <3>1. \A i \in WordStarts(text) :
             {m \in WordStarts(text) : m < i} = Before(text, i)
      BY DEF Before
    <3>2. \A i \in WordStarts(text) :
             Cardinality({m \in WordStarts(text) : m < i}) = k - 1 - Lead(text)
                <=> i = j
      <4>1. ASSUME NEW i \in WordStarts(text),
                   Cardinality({m \in WordStarts(text) : m < i})
                      = k - 1 - Lead(text)
            PROVE  i = j
        BY <2>2, <3>1, <4>1, RanksDiffer
      <4>2. Cardinality({m \in WordStarts(text) : m < j}) = k - 1 - Lead(text)
        BY <2>2, <3>1
      <4>. QED  BY <4>1, <4>2
    <3>. QED  BY <2>2, <3>2
  <2>4. /\ j \in 1 .. Len(text) /\ WordEnd(text, j) \in j .. Len(text)
        /\ \A i \in j .. WordEnd(text, j) : ~Separates(text, i)
    BY <2>2, WordEnds
  <2>5. parse(text)[k] = Unprotect(args[k])
    <3>1. k \in 1 .. a
      BY <1>4
    <3>. QED  BY <1>8, <3>1
  <2>6. k <= MaxArgs
    BY <1>1, <1>5, <1>6, <1>7
  <2>7. CASE k = MaxArgs
    <3>1. args[k] = SubSeq(line, j, n)
      BY <2>1, <2>7 DEF Holds
    <3>2. n \in j .. Len(text)
      BY <1>2, <2>4
    <3>3. Unprotect(SubSeq(line, j, n)) = Bare(text, j, n)
      BY <2>4, <3>2, PartOfLine
    <3>4. rest(j) = Bare(text, j, n)
      BY <1>2 DEF Bare
    <3>. HIDE DEF rest, Nth, args, line
    <3>. QED  BY <2>3, <2>5, <2>7, <3>1, <3>3, <3>4
  <2>8. CASE k # MaxArgs
    <3>1. args[k] = SubSeq(line, j, IF WordEnd(text, j) < n
                                    THEN WordEnd(text, j) ELSE n)
      BY <1>1, <2>1, <2>6, <2>8 DEF Holds
    <3>2. (IF WordEnd(text, j) < n THEN WordEnd(text, j) ELSE n)
             = WordEnd(text, j)
      BY <1>2, <2>4
    <3>3. args[k] = SubSeq(line, j, WordEnd(text, j))
      BY <3>1, <3>2
    <3>4. Unprotect(SubSeq(line, j, WordEnd(text, j)))
             = SubSeq(text, j, WordEnd(text, j))
      BY <2>4, PartOfLine
    <3>. HIDE DEF rest, Nth, args, line
    <3>. QED  BY <2>3, <2>5, <2>8, <3>3, <3>4
  <2>. QED  BY <2>7, <2>8
<1>12. ParsesLikeQuoting(text)
  <2>. HIDE DEF args, line
  <2>1. a = IF w + l < MaxArgs THEN w + l ELSE MaxArgs
    BY <1>6, <1>7
  <2>. QED  BY <1>4, <1>5, <1>9, <1>10, <1>11, <2>1 DEF ParsesLikeQuoting, Lead
<1>. QED  BY <1>4, <1>5, <1>6, <1>7, <1>9, <1>12
===============================================================================
