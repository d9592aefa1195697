----------------------------- MODULE StructProofs -----------------------------
(***************************************************************************)
(* Proofs about StructParse, for structs of any length.                    *)
(*                                                                         *)
(* The parsers are folds over the declarations, so what they compute is    *)
(* shown by induction.  The induction theorems of the library take a       *)
(* predicate, which the provers cannot instantiate; Induction takes a set  *)
(* instead, and follows from the well-founded order of finite sets.        *)
(***************************************************************************)
EXTENDS StructParse, Statements, FiniteSetTheorems, SequenceTheorems, WellFoundedInduction, TLAPS

-----------------------------------------------------------------------------
\* Induction and folds

LEMMA LeastNumber ==
    ASSUME NEW T \in SUBSET Nat, T # {}
    PROVE  \E n \in T : \A m \in T : n <= m
<1> DEFINE I == {1 .. n : n \in T}
<1>1. I \subseteq FiniteSubsetsOf(Nat) /\ I # {}
  <2>1. \A n \in T : 1 .. n \subseteq Nat /\ IsFiniteSet(1 .. n)
    BY FS_Interval
  <2> QED  BY <2>1 DEF FiniteSubsetsOf
<1>2. PICK x \in I : \A y \in I : ~(<<y, x>> \in StrictSubsetOrdering(Nat))
  <2> HIDE DEF I
  <2> QED  BY <1>1, WFMin, FS_StrictSubsetOrderingWellFounded
<1>3. PICK n \in T : x = 1 .. n
  BY <1>2
<1>4. ASSUME NEW m \in T, m < n PROVE FALSE
  <2>1. 1 .. m \in I /\ 1 .. m \subseteq 1 .. n /\ n \in 1 .. n /\ n \notin 1 .. m
    BY <1>4
  <2>2. <<1 .. m, 1 .. n>> \in StrictSubsetOrdering(Nat)
    BY <2>1 DEF StrictSubsetOrdering
  <2> QED  BY <1>2, <1>3, <2>1, <2>2
<1> QED  BY <1>4

LEMMA Induction ==
    ASSUME NEW T, 0 \in T, \A n \in Nat : n \in T => n + 1 \in T
    PROVE  Nat \subseteq T
<1> SUFFICES ASSUME Nat \ T # {} PROVE FALSE
  OBVIOUS
<1>1. PICK n \in Nat \ T : \A m \in Nat \ T : n <= m
  BY LeastNumber
<1>2. n # 0 /\ n - 1 \in Nat
  BY <1>1
<1>3. n - 1 \in T
  BY <1>1, <1>2
<1> QED  BY <1>1, <1>2, <1>3

\* The last of some of the first numbers.
LEMMA LastOfSome ==
    ASSUME NEW n \in Nat, NEW s \in SUBSET (1 .. n), s # {}
    PROVE  Max(s) \in s /\ \A i \in s : i <= Max(s)
<1> DEFINE U == {u \in Nat : \A i \in s : i <= u}
<1>1. n \in U
  OBVIOUS
<1>2. PICK u \in U : \A v \in U : u <= v
  BY <1>1, LeastNumber
<1>3. u \in s
  <2> SUFFICES ASSUME u \notin s PROVE FALSE
    OBVIOUS
  <2>1. PICK k \in s : TRUE
    OBVIOUS
  <2>2. u > 0
    BY <1>2, <2>1
  <2>3. \A i \in s : i <= u - 1
    BY <1>2
  <2>4. u - 1 \in U
    BY <2>2, <2>3
  <2> QED  BY <1>2, <2>4
<1> QED  BY <1>2, <1>3 DEF Max

LEMMA LastOfAll ==
    ASSUME NEW n \in Nat \ {0}
    PROVE  Max(1 .. n) = n /\ (1 .. n) \ {n} = 1 .. (n - 1)
<1>1. n \in 1 .. n /\ 1 .. n # {} /\ 1 .. n \in SUBSET (1 .. n)
  OBVIOUS
<1>2. Max(1 .. n) \in 1 .. n /\ n <= Max(1 .. n)
  BY <1>1, LastOfSome
<1> QED  BY <1>2

\* A step for each position; the recursive function inside a fold, as far as
\* the results are in X; and the results position by position.
Steps(n, X) == [1 .. n -> [X -> X]]

FoldsTo(n, X, base, F, h) ==
    /\ h[{}] = base
    /\ \A s \in SUBSET (1 .. n) : s # {} /\ h[s \ {Max(s)}] \in X =>
           h[s] = F[Max(s)][h[s \ {Max(s)}]]

RunsTo(n, X, base, F, r) ==
    r \in [0 .. n -> X] /\ r[0] = base /\ \A k \in 1 .. n : r[k] = F[k][r[k - 1]]

\* There is such a function.
LEMMA FoldExists ==
    ASSUME NEW n \in Nat, NEW X, NEW base \in X, NEW F \in Steps(n, X)
    PROVE  \E g \in [SUBSET (1 .. n) -> X] : FoldsTo(n, X, base, F, g)
<1> USE DEF Steps
<1> DEFINE G(m, g) == /\ g \in [SUBSET (1 .. m) -> X]
                      /\ \A s \in SUBSET (1 .. m) :
                            g[s] = IF s = {} THEN base ELSE F[Max(s)][g[s \ {Max(s)}]]
           T == {m \in Nat : m <= n => \E g : G(m, g)}
<1>1. 0 \in T
  <2>1. 1 .. 0 = {} /\ SUBSET (1 .. 0) = {{}}
    OBVIOUS
  <2>2. G(0, [s \in SUBSET (1 .. 0) |-> base])
    BY <2>1
  <2> QED  BY <2>2
<1>2. ASSUME NEW m \in Nat, m \in T PROVE m + 1 \in T
  <2> SUFFICES ASSUME m + 1 <= n PROVE \E g : G(m + 1, g)
    <3> HIDE DEF G
    <3> QED  OBVIOUS
  <2>1. PICK g : G(m, g)
    <3> HIDE DEF G
    <3> QED  BY <1>2
  <2> DEFINE h == [s \in SUBSET (1 .. m + 1) |->
                      IF m + 1 \in s THEN F[m + 1][g[s \ {m + 1}]] ELSE g[s]]
  <2>2. ASSUME NEW s \in SUBSET (1 .. m + 1)
        PROVE  /\ m + 1 \in s => /\ s \ {m + 1} \in SUBSET (1 .. m) /\ Max(s) = m + 1
                                 /\ h[s] = F[m + 1][g[s \ {m + 1}]]
               /\ m + 1 \notin s => s \in SUBSET (1 .. m) /\ h[s] = g[s]
    <3>1. m + 1 \in s => Max(s) = m + 1
      <4> SUFFICES ASSUME m + 1 \in s PROVE Max(s) = m + 1
        OBVIOUS
      <4>1. m + 1 \in Nat /\ s # {}
        OBVIOUS
      <4>2. Max(s) \in s /\ m + 1 <= Max(s)
        BY <4>1, LastOfSome
      <4>3. Max(s) \in 1 .. m + 1
        BY <4>2
      <4> QED  BY <4>2, <4>3
    <3> QED  BY <3>1
  <2>3. h \in [SUBSET (1 .. m + 1) -> X]
    BY <2>1, <2>2
  <2>4. ASSUME NEW s \in SUBSET (1 .. m + 1)
        PROVE  h[s] = IF s = {} THEN base ELSE F[Max(s)][h[s \ {Max(s)}]]
    <3>1. CASE m + 1 \in s
      <4>1. s \ {m + 1} \in SUBSET (1 .. m + 1) /\ m + 1 \notin s \ {m + 1}
        BY <3>1
      <4>2. h[s \ {m + 1}] = g[s \ {m + 1}]
        BY <2>2, <4>1
      <4> QED  BY <2>2, <3>1, <4>2
    <3>2. CASE m + 1 \notin s
      <4>1. s \in SUBSET (1 .. m) /\ h[s] = g[s]
        BY <2>2, <3>2
      <4>2. h[s] = IF s = {} THEN base ELSE F[Max(s)][g[s \ {Max(s)}]]
        BY <2>1, <4>1
      <4>3. s \ {Max(s)} \in SUBSET (1 .. m + 1) /\ m + 1 \notin s \ {Max(s)}
        BY <3>2
      <4>4. h[s \ {Max(s)}] = g[s \ {Max(s)}]
        BY <2>2, <4>3
      <4> QED  BY <4>2, <4>4
    <3> QED  BY <3>1, <3>2
  <2> HIDE DEF h
  <2> QED  BY <2>3, <2>4
<1>3. n \in T
  <2> HIDE DEF T
  <2> QED  BY <1>1, <1>2, Induction
<1>4. PICK g : G(n, g)
  <2> HIDE DEF G
  <2> QED  BY <1>3
<1> QED  BY <1>4 DEF FoldsTo

\* Its values at the first numbers are the results after each step.
LEMMA FoldSteps ==
    ASSUME NEW n \in Nat, NEW X, NEW base \in X, NEW F \in Steps(n, X),
           NEW h, FoldsTo(n, X, base, F, h)
    PROVE  \E r : RunsTo(n, X, base, F, r) /\ r[n] = h[1 .. n]
<1> USE DEF Steps, FoldsTo
<1> DEFINE r == [k \in 0 .. n |-> h[1 .. k]]
           T == {k \in Nat : k <= n => h[1 .. k] \in X}
<1>1. ASSUME NEW k \in 1 .. n, h[1 .. (k - 1)] \in X
      PROVE  h[1 .. k] = F[k][h[1 .. (k - 1)]] /\ h[1 .. k] \in X
  <2>1. k \in Nat \ {0} /\ 1 .. k \in SUBSET (1 .. n) /\ k \in 1 .. k
    OBVIOUS
  <2>2. Max(1 .. k) = k /\ (1 .. k) \ {k} = 1 .. (k - 1)
    BY <2>1, LastOfAll
  <2>3. 1 .. k # {}
    BY <2>1
  <2>4. h[1 .. k] = F[k][h[1 .. (k - 1)]]
    BY <1>1, <2>1, <2>2, <2>3
  <2>5. F[k] \in [X -> X]
    OBVIOUS
  <2> QED  BY <1>1, <2>4, <2>5
<1>2. 0 \in T
  <2>1. 1 .. 0 = {}
    OBVIOUS
  <2> QED  BY <2>1
<1>3. ASSUME NEW k \in Nat, k \in T PROVE k + 1 \in T
  <2> SUFFICES ASSUME k + 1 <= n PROVE h[1 .. (k + 1)] \in X
    OBVIOUS
  <2>1. k + 1 \in 1 .. n /\ (k + 1) - 1 = k /\ h[1 .. k] \in X
    BY <1>3
  <2> QED  BY <1>1, <2>1
<1>4. \A k \in 0 .. n : h[1 .. k] \in X
  <2>1. Nat \subseteq T
    <3> HIDE DEF T
    <3> QED  BY <1>2, <1>3, Induction
  <2> QED  BY <2>1
<1>5. r[0] = base /\ r[n] = h[1 .. n]
  <2>1. 1 .. 0 = {}
    OBVIOUS
  <2> QED  BY <2>1
<1>6. ASSUME NEW k \in 1 .. n PROVE r[k] = F[k][r[k - 1]]
  <2>1. k - 1 \in 0 .. n /\ k \in 0 .. n
    OBVIOUS
  <2> QED  BY <1>1, <1>4, <2>1
<1>7. r \in [0 .. n -> X]
  BY <1>4
<1> HIDE DEF r
<1> QED  BY <1>5, <1>6, <1>7 DEF RunsTo

-----------------------------------------------------------------------------
\* Fields

\* Strings, and the literals among them: to the provers these are no strings.
Words   == STRING \cup {"uint8"}
Texts   == Seq(Words)
Fields  == [name : STRING, type : Texts, column : STRING]
Errors  == {"nil", "unexported", "badTag", "badPK", "anonymous", "panic", "noFields", "duplicate"}
Results == [err : Errors, fields : Seq(Fields), pk : Nat]

LEMMA SeqOfMore ==
    ASSUME NEW S, NEW T, S \subseteq T, NEW s \in Seq(S)
    PROVE  s \in Seq(T)
<1>1. s \in [1 .. Len(s) -> T] /\ Len(s) \in Nat
  OBVIOUS
<1> QED  BY <1>1

LEMMA SeqElements ==
    ASSUME NEW S, NEW s \in Seq(S)
    PROVE  Len(s) \in Nat /\ \A i \in 1 .. Len(s) : s[i] \in S
OBVIOUS

LEMMA TypeTexts ==
    ASSUME NEW type \in Types
    PROVE  fileGoType(type) \in Texts /\ objectGoType(type) \in Texts
<1> DEFINE Prefix == [source : STRING, reflected : STRING]
<1>1. /\ type.pre \in Seq(Prefix) /\ type.base.source \in STRING
      /\ type.base.bare \in STRING /\ type.base.qualified \in STRING
  BY DEF Types
<1>2. /\ (IF type.base.source = "byte" THEN "uint8" ELSE type.base.source) \in Words
      /\ (IF type.base.local /\ Len(type.pre) \in Stars(type)
          THEN type.base.bare ELSE type.base.qualified) \in Words
  <2> HIDE DEF Prefix
  <2> QED  BY <1>1 DEF Words
<1>3. Written(type) \in Seq(Words) /\ Reflected(type) \in Seq(Words)
  <2>1. /\ Len(type.pre) \in Nat
        /\ \A i \in 1 .. Len(type.pre) : type.pre[i].source \in Words /\ type.pre[i].reflected \in Words
    <3>1. Len(type.pre) \in Nat /\ \A i \in 1 .. Len(type.pre) : type.pre[i] \in Prefix
      BY <1>1, SeqElements
    <3>2. \A x \in Prefix : x.source \in Words /\ x.reflected \in Words
      BY DEF Words
    <3> HIDE DEF Prefix
    <3> QED  BY <3>1, <3>2
  <2> QED  BY <2>1 DEF Written, Reflected
<1> QED  BY <1>2, <1>3, AppendProperties DEF fileGoType, objectGoType, Texts

\* One field is refused, or added behind the others.
LEMMA AddFieldAdds ==
    ASSUME NEW res \in Results, NEW name \in STRING,
           NEW tag \in [column : STRING, label : STRING], NEW goType \in Texts
    PROVE  /\ AddField(res, name, tag, goType) \in Results
           /\ AddField(res, name, tag, goType).err = "nil" =>
                 \E f \in Fields, pk \in {res.pk, Len(res.fields) + 1} :
                    /\ f.column = parseStructFieldTag(tag).column
                    /\ AddField(res, name, tag, goType) =
                          [err |-> "nil", fields |-> Append(res.fields, f), pk |-> pk]
<1> DEFINE t == parseStructFieldTag(tag)
           f == [name |-> name, type |-> goType, column |-> t.column]
           pk == IF t.isPK THEN Len(res.fields) + 1 ELSE res.pk
<1> DEFINE more == [err |-> "nil", fields |-> Append(res.fields, f), pk |-> pk]
<1>1. Err("unexported") \in Results /\ Err("badTag") \in Results /\ Err("badPK") \in Results
  BY DEF Err, Results, Errors
<1>2. Err("unexported").err # "nil" /\ Err("badTag").err # "nil" /\ Err("badPK").err # "nil"
  BY DEF Err
<1>3. CASE t.column = ""
  <2>1. AddField(res, name, tag, goType) \in {Err("unexported"), Err("badTag")}
    BY <1>3 DEF AddField
  <2> QED  BY <1>1, <1>2, <2>1
<1>4. CASE t.column # ""
  <2>1. t.column \in STRING
    BY <1>4 DEF parseStructFieldTag
  <2>2. f \in Fields /\ res.fields \in Seq(Fields) /\ pk \in {res.pk, Len(res.fields) + 1}
    BY <2>1 DEF Fields, Results
  <2>3. more \in Results
    <3>1. Append(res.fields, f) \in Seq(Fields) /\ pk \in Nat
      BY <2>2 DEF Results
    <3> QED  BY <3>1 DEF Results, Errors
  <2>4. AddField(res, name, tag, goType) \in {Err("unexported"), Err("badTag"), Err("badPK"), more}
    BY DEF AddField
  <2>5. f.column = parseStructFieldTag(tag).column
    OBVIOUS
  <2> QED  BY <1>1, <1>2, <2>2, <2>3, <2>4, <2>5
<1> QED  BY <1>3, <1>4

LEMMA FileFieldType ==
    ASSUME NEW res \in Results, NEW decl \in Declarations
    PROVE  FileField(res, decl) \in Results
<1>1. decl.names \in Seq(STRING) /\ decl.tag \in [column : STRING, label : STRING] /\ decl.type \in Types
  BY DEF Declarations
<1>2. Err("anonymous") \in Results /\ Err("panic") \in Results
  BY DEF Err, Results, Errors
<1>3. Len(decl.names) = 1 => AddField(res, decl.names[1], decl.tag, fileGoType(decl.type)) \in Results
  <2> SUFFICES ASSUME Len(decl.names) = 1
               PROVE  AddField(res, decl.names[1], decl.tag, fileGoType(decl.type)) \in Results
    OBVIOUS
  <2>1. decl.names[1] \in STRING
    BY <1>1
  <2> QED  BY <1>1, <2>1, TypeTexts, AddFieldAdds
<1> QED  BY <1>2, <1>3 DEF FileField

LEMMA StartType == Start \in Results /\ Start.err = "nil" /\ Start.fields = << >> /\ Start.pk = 0
BY DEF Start, Results, Errors

\* The results of the parser of the source, declaration by declaration.
LEMMA FileSteps ==
    ASSUME NEW decls \in Seq(Declarations)
    PROVE  \E r \in [0 .. Len(decls) -> Results] :
              /\ r[0] = Start /\ r[Len(decls)] = FoldLeft(FileField, Start, decls)
              /\ \A k \in 1 .. Len(decls) : r[k] = FileField(r[k - 1], decls[k])
<1> DEFINE n == Len(decls)
           Op(x, e) == FileField(x, e)
           F == [i \in 1 .. n |-> [x \in Results |-> Op(x, decls[i])]]
           Iter(h) == h = [s \in SUBSET (1 .. n) |->
                              IF s = {} THEN Start ELSE Op(h[s \ {Max(s)}], decls[Max(s)])]
           L == FoldLeft(FileField, Start, decls)
<1>1. n \in Nat /\ DOMAIN decls = 1 .. n /\ \A i \in 1 .. n : decls[i] \in Declarations
  OBVIOUS
<1>2. F \in Steps(n, Results)
  BY <1>1, FileFieldType DEF Steps
<1>3. PICK g \in [SUBSET (1 .. n) -> Results] : FoldsTo(n, Results, Start, F, g)
  <2>1. n \in Nat /\ Start \in Results
    BY <1>1, StartType
  <2> HIDE DEF F, n
  <2> QED  BY <1>2, <2>1, FoldExists
<1> DEFINE g1 == [s \in SUBSET (1 .. n) |-> g[s]]
<1>4. Iter(g1)
  <2>1. ASSUME NEW s \in SUBSET (1 .. n), s # {}
        PROVE  g[s] = Op(g[s \ {Max(s)}], decls[Max(s)])
    <3>1. Max(s) \in 1 .. n
      BY <1>1, <2>1, LastOfSome
    <3>2. g[s] = F[Max(s)][g[s \ {Max(s)}]]
      <4> HIDE DEF F
      <4> QED  BY <1>3, <2>1 DEF FoldsTo
    <3> QED  BY <1>3, <3>1, <3>2
  <2>2. g1 = [s \in SUBSET (1 .. n) |-> IF s = {} THEN Start ELSE Op(g1[s \ {Max(s)}], decls[Max(s)])]
    <3> HIDE DEF F, Op
    <3> QED  BY <1>3, <2>1 DEF FoldsTo
  <2> QED  BY <2>2
<1> DEFINE it == CHOOSE h : Iter(h)
<1>5. Iter(it)
  <2> HIDE DEF Iter
  <2> QED  BY <1>4
<1>6. L = it[DOMAIN decls]
  BY <1>1, Zenon DEF FoldLeft, MapThenFoldSet
<1>7. FoldsTo(n, Results, Start, F, it)
  <2> HIDE DEF it, Op
  <2>1. ASSUME NEW s \in SUBSET (1 .. n), s # {}, it[s \ {Max(s)}] \in Results
        PROVE  it[s] = F[Max(s)][it[s \ {Max(s)}]]
    <3>1. Max(s) \in 1 .. n
      BY <1>1, <2>1, LastOfSome
    <3>2. it[s] = Op(it[s \ {Max(s)}], decls[Max(s)])
      BY <1>5, <2>1
    <3> QED  BY <2>1, <3>1, <3>2
  <2>2. it[{}] = Start
    BY <1>5
  <2> HIDE DEF F, Iter
  <2> QED  BY <2>1, <2>2 DEF FoldsTo
<1>8. PICK r : RunsTo(n, Results, Start, F, r) /\ r[n] = it[1 .. n]
  <2>1. n \in Nat /\ Start \in Results
    BY <1>1, StartType
  <2> HIDE DEF F, n, it, Iter, Op
  <2> QED  BY <1>2, <1>7, <2>1, FoldSteps
<1>9. ASSUME NEW k \in 1 .. n PROVE r[k] = FileField(r[k - 1], decls[k])
  <2>1. k - 1 \in 0 .. n
    BY <1>1
  <2> QED  BY <1>8, <2>1 DEF RunsTo
<1> HIDE DEF it, Iter, F
<1> QED  BY <1>1, <1>6, <1>8, <1>9 DEF RunsTo

\* Object takes the names of a declaration one by one.
AddName(res, name, tag, goType) ==
    IF res.err # "nil" THEN res ELSE AddField(res, name, tag, goType)

Added(res, names, tag, goType) ==
    FoldLeft(LAMBDA x, e : AddName(x, e, tag, goType), res, names)

LEMMA AddNameType ==
    ASSUME NEW res \in Results, NEW name \in STRING,
           NEW tag \in [column : STRING, label : STRING], NEW goType \in Texts
    PROVE  AddName(res, name, tag, goType) \in Results
BY AddFieldAdds DEF AddName

LEMMA AddSteps ==
    ASSUME NEW res \in Results, NEW names \in Seq(STRING),
           NEW tag \in [column : STRING, label : STRING], NEW goType \in Texts
    PROVE  \E r \in [0 .. Len(names) -> Results] :
              /\ r[0] = res /\ r[Len(names)] = Added(res, names, tag, goType)
              /\ \A k \in 1 .. Len(names) : r[k] = AddName(r[k - 1], names[k], tag, goType)
<1> DEFINE n == Len(names)
           Op(x, e) == AddName(x, e, tag, goType)
           F == [i \in 1 .. n |-> [x \in Results |-> Op(x, names[i])]]
           Iter(h) == h = [s \in SUBSET (1 .. n) |->
                              IF s = {} THEN res ELSE Op(h[s \ {Max(s)}], names[Max(s)])]
           L == Added(res, names, tag, goType)
<1>1. n \in Nat /\ DOMAIN names = 1 .. n /\ \A i \in 1 .. n : names[i] \in STRING
  OBVIOUS
<1>2. F \in Steps(n, Results)
  BY <1>1, AddNameType DEF Steps
<1>3. PICK g \in [SUBSET (1 .. n) -> Results] : FoldsTo(n, Results, res, F, g)
  <2>1. n \in Nat /\ res \in Results
    BY <1>1
  <2> HIDE DEF F, n
  <2> QED  BY <1>2, <2>1, FoldExists
<1> DEFINE g1 == [s \in SUBSET (1 .. n) |-> g[s]]
<1>4. Iter(g1)
  <2>1. ASSUME NEW s \in SUBSET (1 .. n), s # {}
        PROVE  g[s] = Op(g[s \ {Max(s)}], names[Max(s)])
    <3>1. Max(s) \in 1 .. n
      BY <1>1, <2>1, LastOfSome
    <3>2. g[s] = F[Max(s)][g[s \ {Max(s)}]]
      <4> HIDE DEF F
      <4> QED  BY <1>3, <2>1 DEF FoldsTo
    <3> QED  BY <1>3, <3>1, <3>2
  <2>2. g1 = [s \in SUBSET (1 .. n) |-> IF s = {} THEN res ELSE Op(g1[s \ {Max(s)}], names[Max(s)])]
    <3> HIDE DEF F, Op
    <3> QED  BY <1>3, <2>1 DEF FoldsTo
  <2> QED  BY <2>2
<1> DEFINE it == CHOOSE h : Iter(h)
<1>5. Iter(it)
  <2> HIDE DEF Iter
  <2> QED  BY <1>4
<1>6. L = it[DOMAIN names]
  BY <1>1, Zenon DEF Added, FoldLeft, MapThenFoldSet
<1>7. FoldsTo(n, Results, res, F, it)
  <2> HIDE DEF it, Op
  <2>1. ASSUME NEW s \in SUBSET (1 .. n), s # {}, it[s \ {Max(s)}] \in Results
        PROVE  it[s] = F[Max(s)][it[s \ {Max(s)}]]
    <3>1. Max(s) \in 1 .. n
      BY <1>1, <2>1, LastOfSome
    <3>2. it[s] = Op(it[s \ {Max(s)}], names[Max(s)])
      BY <1>5, <2>1
    <3> QED  BY <2>1, <3>1, <3>2
  <2>2. it[{}] = res
    BY <1>5
  <2> HIDE DEF F, Iter
  <2> QED  BY <2>1, <2>2 DEF FoldsTo
<1>8. PICK r : RunsTo(n, Results, res, F, r) /\ r[n] = it[1 .. n]
  <2>1. n \in Nat /\ res \in Results
    BY <1>1
  <2> HIDE DEF F, n, it, Iter, Op
  <2> QED  BY <1>2, <1>7, <2>1, FoldSteps
<1>9. ASSUME NEW k \in 1 .. n PROVE r[k] = AddName(r[k - 1], names[k], tag, goType)
  <2>1. k - 1 \in 0 .. n
    BY <1>1
  <2> QED  BY <1>8, <2>1 DEF RunsTo
<1> HIDE DEF it, Iter, F
<1> QED  BY <1>1, <1>6, <1>8, <1>9 DEF RunsTo

LEMMA ObjectFieldType ==
    ASSUME NEW res \in Results, NEW decl \in Declarations
    PROVE  ObjectField(res, decl) \in Results
<1>1. decl.names \in Seq(STRING) /\ decl.tag \in [column : STRING, label : STRING] /\ decl.type \in Types
  BY DEF Declarations
<1>2. Err("anonymous") \in Results
  BY DEF Err, Results, Errors
<1>3. objectGoType(decl.type) \in Texts
  BY <1>1, TypeTexts
<1> DEFINE L == Added(res, decl.names, decl.tag, objectGoType(decl.type))
<1>4. L \in Results
  <2>1. PICK r \in [0 .. Len(decl.names) -> Results] : r[Len(decl.names)] = L
    BY <1>1, <1>3, AddSteps
  <2>2. Len(decl.names) \in Nat
    BY <1>1
  <2> HIDE DEF L
  <2> QED  BY <2>1, <2>2
<1>5. ObjectField(res, decl) \in {res, Err("anonymous"), L}
  BY DEF ObjectField, Added, AddName
<1> QED  BY <1>2, <1>4, <1>5

\* The results of the parser of the runtime.
LEMMA ObjectSteps ==
    ASSUME NEW decls \in Seq(Declarations)
    PROVE  \E r \in [0 .. Len(decls) -> Results] :
              /\ r[0] = Start /\ r[Len(decls)] = FoldLeft(ObjectField, Start, decls)
              /\ \A k \in 1 .. Len(decls) : r[k] = ObjectField(r[k - 1], decls[k])
<1> DEFINE n == Len(decls)
           Op(x, e) == ObjectField(x, e)
           F == [i \in 1 .. n |-> [x \in Results |-> Op(x, decls[i])]]
           Iter(h) == h = [s \in SUBSET (1 .. n) |->
                              IF s = {} THEN Start ELSE Op(h[s \ {Max(s)}], decls[Max(s)])]
           L == FoldLeft(ObjectField, Start, decls)
<1>1. n \in Nat /\ DOMAIN decls = 1 .. n /\ \A i \in 1 .. n : decls[i] \in Declarations
  OBVIOUS
<1>2. F \in Steps(n, Results)
  BY <1>1, ObjectFieldType DEF Steps
<1>3. PICK g \in [SUBSET (1 .. n) -> Results] : FoldsTo(n, Results, Start, F, g)
  <2>1. n \in Nat /\ Start \in Results
    BY <1>1, StartType
  <2> HIDE DEF F, n
  <2> QED  BY <1>2, <2>1, FoldExists
<1> DEFINE g1 == [s \in SUBSET (1 .. n) |-> g[s]]
<1>4. Iter(g1)
  <2>1. ASSUME NEW s \in SUBSET (1 .. n), s # {}
        PROVE  g[s] = Op(g[s \ {Max(s)}], decls[Max(s)])
    <3>1. Max(s) \in 1 .. n
      BY <1>1, <2>1, LastOfSome
    <3>2. g[s] = F[Max(s)][g[s \ {Max(s)}]]
      <4> HIDE DEF F
      <4> QED  BY <1>3, <2>1 DEF FoldsTo
    <3> QED  BY <1>3, <3>1, <3>2
  <2>2. g1 = [s \in SUBSET (1 .. n) |-> IF s = {} THEN Start ELSE Op(g1[s \ {Max(s)}], decls[Max(s)])]
    <3> HIDE DEF F, Op
    <3> QED  BY <1>3, <2>1 DEF FoldsTo
  <2> QED  BY <2>2
<1> DEFINE it == CHOOSE h : Iter(h)
<1>5. Iter(it)
  <2> HIDE DEF Iter
  <2> QED  BY <1>4
<1>6. L = it[DOMAIN decls]
  BY <1>1, Zenon DEF FoldLeft, MapThenFoldSet
<1>7. FoldsTo(n, Results, Start, F, it)
  <2> HIDE DEF it, Op
  <2>1. ASSUME NEW s \in SUBSET (1 .. n), s # {}, it[s \ {Max(s)}] \in Results
        PROVE  it[s] = F[Max(s)][it[s \ {Max(s)}]]
    <3>1. Max(s) \in 1 .. n
      BY <1>1, <2>1, LastOfSome
    <3>2. it[s] = Op(it[s \ {Max(s)}], decls[Max(s)])
      BY <1>5, <2>1
    <3> QED  BY <2>1, <3>1, <3>2
  <2>2. it[{}] = Start
    BY <1>5
  <2> HIDE DEF F, Iter
  <2> QED  BY <2>1, <2>2 DEF FoldsTo
<1>8. PICK r : RunsTo(n, Results, Start, F, r) /\ r[n] = it[1 .. n]
  <2>1. n \in Nat /\ Start \in Results
    BY <1>1, StartType
  <2> HIDE DEF F, n, it, Iter, Op
  <2> QED  BY <1>2, <1>7, <2>1, FoldSteps
<1>9. ASSUME NEW k \in 1 .. n PROVE r[k] = ObjectField(r[k - 1], decls[k])
  <2>1. k - 1 \in 0 .. n
    BY <1>1
  <2> QED  BY <1>8, <2>1 DEF RunsTo
<1> HIDE DEF it, Iter, F
<1> QED  BY <1>1, <1>6, <1>8, <1>9 DEF RunsTo

-----------------------------------------------------------------------------
\* Errors stay, and fields are only added behind the others

Grows(x, y) ==
    y.err = "nil" =>
        /\ x.err = "nil" /\ Len(x.fields) <= Len(y.fields)
        /\ \A i \in 1 .. Len(x.fields) : y.fields[i] = x.fields[i]
        /\ x.pk <= Len(x.fields) => y.pk <= Len(y.fields)

LEMMA GrowsAlways ==
    ASSUME NEW x \in Results, NEW y \in Results, NEW z \in Results
    PROVE  Grows(x, x) /\ (Grows(x, y) /\ Grows(y, z) => Grows(x, z))
<1>1. Len(x.fields) \in Nat /\ Len(y.fields) \in Nat /\ Len(z.fields) \in Nat
  BY DEF Results
<1> QED  BY <1>1 DEF Grows

LEMMA RunGrows ==
    ASSUME NEW n \in Nat, NEW r \in [0 .. n -> Results],
           \A k \in 1 .. n : Grows(r[k - 1], r[k])
    PROVE  \A k \in 0 .. n : Grows(r[k], r[n])
<1> DEFINE T == {j \in Nat : j <= n => Grows(r[n - j], r[n])}
<1>1. 0 \in T
  BY GrowsAlways
<1>2. ASSUME NEW j \in Nat, j \in T PROVE j + 1 \in T
  <2> SUFFICES ASSUME j + 1 <= n PROVE Grows(r[n - (j + 1)], r[n])
    OBVIOUS
  <2>1. n - j \in 1 .. n /\ (n - j) - 1 = n - (j + 1) /\ n - (j + 1) \in 0 .. n /\ n - j \in 0 .. n /\ n \in 0 .. n
    OBVIOUS
  <2>2. Grows(r[n - (j + 1)], r[n - j]) /\ Grows(r[n - j], r[n])
    BY <1>2, <2>1
  <2> QED  BY <2>1, <2>2, GrowsAlways
<1>3. Nat \subseteq T
  <2> HIDE DEF T
  <2> QED  BY <1>1, <1>2, Induction
<1>4. ASSUME NEW k \in 0 .. n PROVE Grows(r[k], r[n])
  <2>1. n - k \in Nat /\ n - k <= n /\ n - (n - k) = k
    OBVIOUS
  <2>2. n - k \in T
    <3> HIDE DEF T
    <3> QED  BY <1>3, <2>1
  <2> QED  BY <2>1, <2>2
<1> QED  BY <1>4

LEMMA AddNameGrows ==
    ASSUME NEW res \in Results, NEW name \in STRING,
           NEW tag \in [column : STRING, label : STRING], NEW goType \in Texts
    PROVE  /\ Grows(res, AddName(res, name, tag, goType))
           /\ AddName(res, name, tag, goType).err = "nil" =>
                 LET y == AddName(res, name, tag, goType) IN
                 /\ Len(y.fields) = Len(res.fields) + 1
                 /\ y.fields[Len(y.fields)].column = parseStructFieldTag(tag).column
<1> DEFINE y == AddName(res, name, tag, goType)
<1> SUFFICES ASSUME y.err = "nil"
             PROVE  /\ Grows(res, y) /\ Len(y.fields) = Len(res.fields) + 1
                    /\ y.fields[Len(y.fields)].column = parseStructFieldTag(tag).column
  BY DEF Grows
<1>1. res.err = "nil" /\ y = AddField(res, name, tag, goType)
  BY DEF AddName
<1>2. PICK f \in Fields, pk \in {res.pk, Len(res.fields) + 1} :
         /\ f.column = parseStructFieldTag(tag).column
         /\ y = [err |-> "nil", fields |-> Append(res.fields, f), pk |-> pk]
  <2> HIDE DEF y
  <2> QED  BY <1>1, AddFieldAdds
<1>3. res.fields \in Seq(Fields) /\ res.pk \in Nat
  BY DEF Results
<1>4. /\ y.err = "nil" /\ y.pk = pk /\ Len(y.fields) = Len(res.fields) + 1
      /\ \A i \in 1 .. Len(res.fields) : y.fields[i] = res.fields[i]
      /\ y.fields[Len(res.fields) + 1] = f
  <2> HIDE DEF y
  <2> QED  BY <1>2, <1>3
<1> HIDE DEF y
<1> QED  BY <1>1, <1>2, <1>3, <1>4 DEF Grows

\* An untagged declaration adds nothing, one with a name adds a field; two
\* names would be two fields of one column.
LEMMA ObjectFieldGrows ==
    ASSUME NEW res \in Results, NEW decl \in Declarations
    PROVE  /\ Grows(res, ObjectField(res, decl))
           /\ Tagged(decl) /\ ObjectField(res, decl).err = "nil" =>
                 \/ Len(decl.names) = 1
                 \/ \E i, j \in DOMAIN ObjectField(res, decl).fields :
                       /\ i # j
                       /\ ObjectField(res, decl).fields[i].column = ObjectField(res, decl).fields[j].column
<1> DEFINE y == ObjectField(res, decl)
           n == Len(decl.names)
           goType == objectGoType(decl.type)
<1>1. /\ decl.names \in Seq(STRING) /\ decl.tag \in [column : STRING, label : STRING]
      /\ decl.type \in Types /\ n \in Nat
  BY DEF Declarations
<1>2. goType \in Texts
  BY <1>1, TypeTexts
<1>3. CASE res.err # "nil" \/ ~Tagged(decl)
  <2>1. y = res
    BY <1>3 DEF ObjectField
  <2>2. ~Tagged(decl) \/ y.err # "nil"
    BY <1>3, <2>1
  <2> QED  BY <2>1, <2>2, GrowsAlways
<1>4. CASE res.err = "nil" /\ Tagged(decl) /\ n = 0
  <2>1. y.err # "nil"
    BY <1>4 DEF ObjectField, Err
  <2> QED  BY <2>1 DEF Grows
<1>5. CASE res.err = "nil" /\ Tagged(decl) /\ n # 0
  <2>1. y = Added(res, decl.names, decl.tag, goType)
    BY <1>5 DEF ObjectField, Added, AddName
  <2>2. PICK r \in [0 .. n -> Results] :
           /\ r[0] = res /\ r[n] = y
           /\ \A k \in 1 .. n : r[k] = AddName(r[k - 1], decl.names[k], decl.tag, goType)
    <3> HIDE DEF y, goType
    <3> QED  BY <1>1, <1>2, <2>1, AddSteps
  <2>3. ASSUME NEW k \in 1 .. n
        PROVE  /\ Grows(r[k - 1], r[k])
               /\ r[k].err = "nil" =>
                     /\ Len(r[k].fields) = Len(r[k - 1].fields) + 1
                     /\ r[k].fields[Len(r[k].fields)].column = parseStructFieldTag(decl.tag).column
    <3>1. r[k - 1] \in Results /\ decl.names[k] \in STRING
      BY <1>1
    <3> HIDE DEF goType
    <3> QED  BY <1>1, <1>2, <2>2, <3>1, AddNameGrows
  <2>4. \A k \in 0 .. n : Grows(r[k], y)
    <3> HIDE DEF y, n
    <3> QED  BY <1>1, <2>2, <2>3, RunGrows
  <2>5. ASSUME n # 1, y.err = "nil"
        PROVE  \E i, j \in DOMAIN y.fields : i # j /\ y.fields[i].column = y.fields[j].column
    <3>1. 1 \in 1 .. n /\ 2 \in 1 .. n /\ 0 \in 0 .. n /\ 1 \in 0 .. n /\ 2 \in 0 .. n
      <4>1. n >= 2
        <5> HIDE DEF n
        <5> QED  BY <1>1, <1>5, <2>5
      <4> HIDE DEF n
      <4> QED  BY <1>1, <4>1
    <3>2. y \in Results /\ r[1] \in Results /\ r[2] \in Results /\ r[0] \in Results
      BY <3>1, ObjectFieldType
    <3>3. /\ Len(y.fields) \in Nat /\ Len(r[1].fields) \in Nat /\ Len(r[2].fields) \in Nat
          /\ Len(r[0].fields) \in Nat
          /\ y.fields \in Seq(Fields)
      BY <3>2, SMTT(30) DEF Results
    <3>4. r[1].err = "nil" /\ r[2].err = "nil" /\ Grows(r[1], y) /\ Grows(r[2], y)
      BY <2>4, <2>5, <3>1 DEF Grows
    <3>5. /\ Len(r[1].fields) = Len(r[0].fields) + 1 /\ Len(r[2].fields) = Len(r[1].fields) + 1
          /\ r[1].fields[Len(r[1].fields)].column = r[2].fields[Len(r[2].fields)].column
      <4>1. 1 - 1 = 0 /\ 2 - 1 = 1
        OBVIOUS
      <4> QED  BY <2>3, <3>1, <3>4, <4>1
    <3> DEFINE i == Len(r[1].fields)
               j == Len(r[2].fields)
    <3>6. i \in 1 .. Len(y.fields) /\ j \in 1 .. Len(y.fields) /\ i # j
      BY <2>5, <3>3, <3>4, <3>5 DEF Grows
    <3>7. y.fields[i] = r[1].fields[i] /\ y.fields[j] = r[2].fields[j]
      <4>1. i \in 1 .. Len(r[1].fields) /\ j \in 1 .. Len(r[2].fields)
        BY <3>3, <3>5
      <4> HIDE DEF i, j, y
      <4> QED  BY <2>5, <3>4, <4>1 DEF Grows
    <3>8. i \in DOMAIN y.fields /\ j \in DOMAIN y.fields
      BY <3>3, <3>6
    <3> HIDE DEF y
    <3> QED  BY <3>5, <3>6, <3>7, <3>8
  <2>6. Grows(res, y)
    BY <1>1, <2>2, <2>4
  <2> HIDE DEF y
  <2> QED  BY <2>5, <2>6
<1> QED  BY <1>1, <1>3, <1>4, <1>5

LEMMA FileFieldGrows ==
    ASSUME NEW res \in Results, NEW decl \in Declarations
    PROVE  /\ Grows(res, FileField(res, decl))
           /\ Tagged(decl) /\ FileField(res, decl).err = "nil" => Len(decl.names) = 1
<1>1. decl.names \in Seq(STRING) /\ decl.tag \in [column : STRING, label : STRING] /\ decl.type \in Types
  BY DEF Declarations
<1>2. CASE res.err # "nil" \/ ~Tagged(decl)
  <2>1. FileField(res, decl) = res
    BY <1>2 DEF FileField
  <2>2. ~Tagged(decl) \/ res.err # "nil"
    BY <1>2
  <2> QED  BY <2>1, <2>2, GrowsAlways
<1>3. CASE res.err = "nil" /\ Tagged(decl) /\ Len(decl.names) # 1
  <2>1. FileField(res, decl).err # "nil"
    BY <1>3 DEF FileField, Err
  <2> QED  BY <2>1 DEF Grows
<1>4. CASE res.err = "nil" /\ Tagged(decl) /\ Len(decl.names) = 1
  <2>1. FileField(res, decl) = AddName(res, decl.names[1], decl.tag, fileGoType(decl.type))
    BY <1>4 DEF FileField, AddName
  <2>2. decl.names[1] \in STRING /\ fileGoType(decl.type) \in Texts
    BY <1>1, <1>4, TypeTexts
  <2> DEFINE name == decl.names[1]
             tag == decl.tag
             goType == fileGoType(decl.type)
  <2>3. FileField(res, decl) = AddName(res, name, tag, goType)
    BY <2>1
  <2>4. name \in STRING /\ tag \in [column : STRING, label : STRING] /\ goType \in Texts
    BY <1>1, <2>2
  <2> HIDE DEF name, tag, goType
  <2>5. Grows(res, AddName(res, name, tag, goType))
    BY <2>4, AddNameGrows
  <2> QED  BY <1>4, <2>3, <2>5
<1> QED  BY <1>2, <1>3, <1>4

-----------------------------------------------------------------------------
\* The two parsers agree

\* Both write the same for the plain types.
LEMMA PlainTexts ==
    ASSUME NEW type \in Types, Plain(type)
    PROVE  fileGoType(type) = objectGoType(type)
<1>1. Written(type) = Reflected(type)
  BY DEF Plain, Written, Reflected
<1>2. CASE type.base.local
  BY <1>1, <1>2 DEF Plain, fileGoType, objectGoType
<1>3. CASE ~type.base.local
  BY <1>1, <1>3 DEF Plain, fileGoType, objectGoType
<1> QED  BY <1>2, <1>3

Alike(decl) == Tagged(decl) => Plain(decl.type)
Single(decl) == Tagged(decl) => Len(decl.names) = 1

LEMMA SameField ==
    ASSUME NEW res \in Results, NEW decl \in Declarations, Alike(decl), Single(decl)
    PROVE  FileField(res, decl) = ObjectField(res, decl)
<1>1. /\ decl.names \in Seq(STRING) /\ decl.tag \in [column : STRING, label : STRING]
      /\ decl.type \in Types
  BY DEF Declarations
<1>2. CASE res.err # "nil" \/ ~Tagged(decl)
  BY <1>2 DEF FileField, ObjectField
<1>3. CASE res.err = "nil" /\ Tagged(decl)
  <2> DEFINE goType == objectGoType(decl.type)
  <2>1. Len(decl.names) = 1 /\ fileGoType(decl.type) = goType /\ goType \in Texts
    BY <1>1, <1>3, PlainTexts, TypeTexts DEF Alike, Single
  <2>2. FileField(res, decl) = AddName(res, decl.names[1], decl.tag, goType)
    BY <1>3, <2>1 DEF FileField, AddName
  <2>3. ObjectField(res, decl) = Added(res, decl.names, decl.tag, goType)
    BY <1>3, <2>1 DEF ObjectField, Added, AddName
  <2>4. PICK r \in [0 .. Len(decl.names) -> Results] :
           /\ r[0] = res /\ r[Len(decl.names)] = Added(res, decl.names, decl.tag, goType)
           /\ \A k \in 1 .. Len(decl.names) : r[k] = AddName(r[k - 1], decl.names[k], decl.tag, goType)
    <3>1. decl.names \in Seq(STRING)
      BY <1>1
    <3>2. decl.tag \in [column : STRING, label : STRING]
      BY <1>1
    <3>3. goType \in Texts
      BY <2>1
    <3> DEFINE names == decl.names
               tag == decl.tag
    <3> HIDE DEF goType, names, tag
    <3>4. \E r \in [0 .. Len(names) -> Results] :
             /\ r[0] = res /\ r[Len(names)] = Added(res, names, tag, goType)
             /\ \A k \in 1 .. Len(names) : r[k] = AddName(r[k - 1], names[k], tag, goType)
      <4>1. names \in Seq(STRING) /\ tag \in [column : STRING, label : STRING]
        BY <3>1, <3>2 DEF names, tag
      <4> QED  BY <3>3, <4>1, AddSteps
    <3> QED  BY <3>4 DEF names, tag
  <2>5. r[1] = AddName(r[0], decl.names[1], decl.tag, goType)
    <3>1. 1 \in 1 .. Len(decl.names) /\ 1 - 1 = 0
      BY <2>1
    <3> HIDE DEF goType
    <3> QED  BY <2>4, <3>1
  <2> HIDE DEF goType
  <2> QED  BY <2>1, <2>2, <2>3, <2>4, <2>5
<1> QED  BY <1>2, <1>3

\* If every tagged declaration has one name, all is the same.
LEMMA SameFold ==
    ASSUME NEW decls \in Seq(Declarations),
           \A k \in 1 .. Len(decls) : Alike(decls[k]) /\ Single(decls[k])
    PROVE  FoldLeft(FileField, Start, decls) = FoldLeft(ObjectField, Start, decls)
<1> DEFINE n == Len(decls)
<1>1. n \in Nat /\ \A k \in 1 .. n : decls[k] \in Declarations
  OBVIOUS
<1>2. PICK f \in [0 .. n -> Results] :
         /\ f[0] = Start /\ f[n] = FoldLeft(FileField, Start, decls)
         /\ \A k \in 1 .. n : f[k] = FileField(f[k - 1], decls[k])
  BY FileSteps
<1>3. PICK o \in [0 .. n -> Results] :
         /\ o[0] = Start /\ o[n] = FoldLeft(ObjectField, Start, decls)
         /\ \A k \in 1 .. n : o[k] = ObjectField(o[k - 1], decls[k])
  BY ObjectSteps
<1> DEFINE T == {k \in Nat : k <= n => f[k] = o[k]}
<1>4. 0 \in T
  BY <1>2, <1>3
<1>5. ASSUME NEW k \in Nat, k \in T PROVE k + 1 \in T
  <2> SUFFICES ASSUME k + 1 <= n PROVE f[k + 1] = o[k + 1]
    OBVIOUS
  <2>1. k + 1 \in 1 .. n /\ (k + 1) - 1 = k /\ k \in 0 .. n
    BY <1>1
  <2>2. f[k] = o[k] /\ f[k] \in Results
    BY <1>5, <2>1
  <2>3. f[k + 1] = FileField(f[k], decls[k + 1]) /\ o[k + 1] = ObjectField(o[k], decls[k + 1])
    BY <1>2, <1>3, <2>1
  <2> QED  BY <1>1, <2>1, <2>2, <2>3, SameField
<1>6. n \in T
  <2> HIDE DEF T, n
  <2> QED  BY <1>1, <1>4, <1>5, Induction
<1> QED  BY <1>2, <1>3, <1>6

Unique(res) == \A i, j \in DOMAIN res.fields : res.fields[i].column = res.fields[j].column => i = j

LEMMA Checked ==
    ASSUME NEW res \in Results
    PROVE  checkFields(res).err = "nil" =>
              checkFields(res) = res /\ res.err = "nil" /\ Unique(res)
BY DEF checkFields, Err, Unique

LEMMA FileSingle ==
    ASSUME NEW decls \in Seq(Declarations)
    PROVE  LET res == FoldLeft(FileField, Start, decls) IN
           /\ res \in Results
           /\ res.err = "nil" => /\ res.pk <= Len(res.fields)
                                 /\ \A k \in 1 .. Len(decls) : Single(decls[k])
<1> DEFINE n == Len(decls)
           res == FoldLeft(FileField, Start, decls)
<1>1. n \in Nat /\ \A k \in 1 .. n : decls[k] \in Declarations
  OBVIOUS
<1>2. PICK f \in [0 .. n -> Results] :
         /\ f[0] = Start /\ f[n] = res
         /\ \A k \in 1 .. n : f[k] = FileField(f[k - 1], decls[k])
  BY FileSteps
<1> HIDE DEF res
<1>3. ASSUME NEW k \in 1 .. n
      PROVE  Grows(f[k - 1], f[k]) /\ (f[k].err = "nil" => Single(decls[k]))
  <2>1. k - 1 \in 0 .. n /\ f[k - 1] \in Results /\ f[k] = FileField(f[k - 1], decls[k])
    BY <1>1, <1>2
  <2> QED  BY <1>1, <2>1, FileFieldGrows DEF Single
<1>4. \A k \in 0 .. n : Grows(f[k], res)
  <2> HIDE DEF n
  <2> QED  BY <1>1, <1>2, <1>3, RunGrows
<1>5. res \in Results /\ 0 \in 0 .. n /\ \A k \in 1 .. n : k \in 0 .. n
  BY <1>1, <1>2
<1>6. Start.pk <= Len(Start.fields)
  BY DEF Start
<1>7. res.err = "nil" => res.pk <= Len(res.fields) /\ \A k \in 1 .. n : Single(decls[k])
  BY <1>2, <1>3, <1>4, <1>5, <1>6 DEF Grows
<1> QED  BY <1>5, <1>7 DEF res

LEMMA ObjectSingle ==
    ASSUME NEW decls \in Seq(Declarations)
    PROVE  LET res == FoldLeft(ObjectField, Start, decls) IN
           /\ res \in Results
           /\ res.err = "nil" /\ Unique(res) => \A k \in 1 .. Len(decls) : Single(decls[k])
<1> DEFINE n == Len(decls)
           res == FoldLeft(ObjectField, Start, decls)
<1>1. n \in Nat /\ \A k \in 1 .. n : decls[k] \in Declarations
  OBVIOUS
<1>2. PICK o \in [0 .. n -> Results] :
         /\ o[0] = Start /\ o[n] = res
         /\ \A k \in 1 .. n : o[k] = ObjectField(o[k - 1], decls[k])
  BY ObjectSteps
<1> HIDE DEF res
<1>3. \A k \in 1 .. n : k \in 0 .. n /\ k - 1 \in 0 .. n /\ o[k - 1] \in Results /\ o[k] \in Results
  BY <1>1
<1>4. \A k \in 1 .. n : Grows(o[k - 1], o[k])
  BY <1>1, <1>2, <1>3, ObjectFieldGrows
<1>5. \A k \in 0 .. n : Grows(o[k], res)
  <2> HIDE DEF n
  <2> QED  BY <1>1, <1>2, <1>4, RunGrows
<1>6. res \in Results
  BY <1>1, <1>2
<1>7. ASSUME NEW k \in 1 .. n, res.err = "nil", Unique(res)
      PROVE  Single(decls[k])
  <2>1. Grows(o[k], res) /\ o[k].err = "nil" /\ o[k] = ObjectField(o[k - 1], decls[k])
    BY <1>2, <1>3, <1>5, <1>7 DEF Grows
  <2> SUFFICES ASSUME Tagged(decls[k]), Len(decls[k].names) # 1 PROVE FALSE
    BY DEF Single
  <2>2. PICK i \in DOMAIN o[k].fields, j \in DOMAIN o[k].fields :
           i # j /\ o[k].fields[i].column = o[k].fields[j].column
    BY <1>1, <1>3, <2>1, ObjectFieldGrows, SMTT(30)
  <2>3. /\ o[k].fields \in Seq(Fields) /\ res.fields \in Seq(Fields)
        /\ Len(o[k].fields) \in Nat /\ Len(res.fields) \in Nat
    BY <1>3, <1>6, SMTT(30) DEF Results
  <2>4. /\ res.fields[i] = o[k].fields[i] /\ res.fields[j] = o[k].fields[j]
        /\ i \in DOMAIN res.fields /\ j \in DOMAIN res.fields
    <3>1. i \in 1 .. Len(o[k].fields) /\ j \in 1 .. Len(o[k].fields)
      BY <2>2, <2>3
    <3>2. /\ Len(o[k].fields) <= Len(res.fields)
          /\ res.fields[i] = o[k].fields[i] /\ res.fields[j] = o[k].fields[j]
      BY <1>7, <2>1, <3>1 DEF Grows
    <3>3. DOMAIN res.fields = 1 .. Len(res.fields)
      BY <2>3
    <3> QED  BY <2>3, <3>1, <3>2, <3>3
  <2> QED  BY <1>7, <2>2, <2>4 DEF Unique
<1> QED  BY <1>6, <1>7 DEF res

\* The parser of the source and the parser of the runtime accept the same
\* structs, of any number of fields with any tags and any plain types, and find
\* the same fields and key in them (parse/file.go:48-121, parse/runtime.go:24-99).
\* What the first refuses as a panic, several names in one declaration, the
\* second refuses as two fields of one column.
THEOREM ParsersAgree ==
    ASSUME NEW decls \in Seq(Declarations),
           \A k \in 1 .. Len(decls) : Tagged(decls[k]) => Plain(decls[k].type)
    PROVE  File(decls).err = "nil" \/ Object(decls).err = "nil" => File(decls) = Object(decls)
<1> DEFINE f == FoldLeft(FileField, Start, decls)
           o == FoldLeft(ObjectField, Start, decls)
<1>1. \A k \in 1 .. Len(decls) : Alike(decls[k])
  BY DEF Alike
<1>2. /\ f \in Results /\ o \in Results
      /\ f.err = "nil" => \A k \in 1 .. Len(decls) : Single(decls[k])
      /\ o.err = "nil" /\ Unique(o) => \A k \in 1 .. Len(decls) : Single(decls[k])
  BY FileSingle, ObjectSingle
<1>3. f.err = "nil" => f = o
  BY <1>1, <1>2, SameFold
<1>4. o.err = "nil" /\ Unique(o) => f = o
  BY <1>1, <1>2, SameFold
<1>5. File(decls) = checkFields(f) /\ Object(decls) = checkFields(o)
  BY DEF File, Object
<1> HIDE DEF f, o
<1> QED  BY <1>2, <1>3, <1>4, <1>5, Checked

-----------------------------------------------------------------------------
\* The generated file, the struct and the program

\* What the reform command writes.
IsInfo(info, decls) ==
    LET res == File(decls) IN
    res.err = "nil" /\ info.fields = res.fields /\ info.pk = res.pk

InSync(info, decls) ==
    LET res == Object(decls) IN
    res.err = "nil" /\ structInfoInSync(info, res)

StructInv ==
    /\ struct \in [table : Table, decls : Seq(Decl)] /\ Len(struct.decls) <= MaxFields
    /\ program \in {"built", "up", "panic"} /\ fresh \in BOOLEAN
    /\ generated # NotGenerated =>
          generated.table \in Table /\ \E decls \in Seq(Decl) : IsInfo(generated, decls)
    /\ fresh => IsInfo(generated, struct.decls)
    /\ program = "up" => generated # NotGenerated /\ InSync(generated, struct.decls)

LEMMA DeclsAreDeclarations ==
    ASSUME NEW decls \in Seq(Decl)
    PROVE  decls \in Seq(Declarations)
BY DeclAssumption, SeqOfMore

\* What was generated once is well formed.
LEMMA InfoFacts ==
    ASSUME NEW info, NEW decls \in Seq(Decl), IsInfo(info, decls)
    PROVE  info.fields \in Seq(Fields) /\ info.pk \in 0 .. Len(info.fields) /\ Unique(info)
<1> DEFINE f == FoldLeft(FileField, Start, decls)
<1>1. f \in Results /\ (f.err = "nil" => f.pk <= Len(f.fields))
  BY DeclsAreDeclarations, FileSingle
<1>2. checkFields(f).err = "nil" /\ info.fields = checkFields(f).fields /\ info.pk = checkFields(f).pk
  BY DEF IsInfo, File
<1> HIDE DEF f
<1>3. checkFields(f) = f /\ f.err = "nil" /\ Unique(f)
  BY <1>1, <1>2, Checked
<1>4. f.fields \in Seq(Fields) /\ f.pk \in Nat /\ Len(f.fields) \in Nat
  BY <1>1 DEF Results
<1> QED  BY <1>1, <1>2, <1>3, <1>4 DEF Unique

LEMMA StructInvTypeOK == StructInv => TypeOK
<1> SUFFICES ASSUME StructInv PROVE TypeOK
  OBVIOUS
<1>1. ASSUME generated # NotGenerated
      PROVE  generated.table \in Table /\ generated.pk \in 0 .. Len(generated.fields) /\ Unique(generated)
  <2>1. PICK decls \in Seq(Decl) : IsInfo(generated, decls)
    BY <1>1 DEF StructInv
  <2> QED  BY <1>1, <2>1, InfoFacts DEF StructInv
<1> QED  BY <1>1 DEF StructInv, TypeOK, Unique

LEMMA StructInvInit == StructInit => StructInv
<1> SUFFICES ASSUME StructInit PROVE StructInv
  OBVIOUS
<1>1. struct \in [table : Table, decls : Seq(Decl)] /\ Len(struct.decls) <= MaxFields
  BY MaxFieldsAssumption DEF StructInit
<1>2. generated = NotGenerated /\ fresh = FALSE /\ program = "built"
  BY DEF StructInit
<1> QED  BY <1>1, <1>2 DEF StructInv

LEMMA StructInvEdit == StructInv /\ Edit => StructInv'
<1> SUFFICES ASSUME StructInv, Edit PROVE StructInv'
  OBVIOUS
<1>1. /\ struct \in [table : Table, decls : Seq(Decl)] /\ struct.decls \in Seq(Decl)
      /\ Len(struct.decls) \in Nat /\ MaxFields \in Nat /\ Len(struct.decls) <= MaxFields
  BY MaxFieldsAssumption DEF StructInv
<1> DEFINE Kept == struct' \in [table : Table, decls : Seq(Decl)] /\ Len(struct'.decls) <= MaxFields
<1>2. Kept
  <2>1. ASSUME NEW d \in Decl, Len(struct.decls) < MaxFields,
               struct' = [struct EXCEPT !.decls = Append(@, d)]
        PROVE  Kept
    <3>1. Append(struct.decls, d) \in Seq(Decl) /\ Len(Append(struct.decls, d)) = Len(struct.decls) + 1
      BY <1>1
    <3>2. struct'.decls = Append(struct.decls, d) /\ struct' \in [table : Table, decls : Seq(Decl)]
      BY <1>1, <2>1, <3>1
    <3> QED  BY <1>1, <2>1, <3>1, <3>2
  <2>2. ASSUME NEW i \in DOMAIN struct.decls, struct' = [struct EXCEPT !.decls = RemoveAt(@, i)]
        PROVE  Kept
    <3>1. /\ SubSeq(struct.decls, 1, i - 1) \in Seq(Decl) /\ Len(SubSeq(struct.decls, 1, i - 1)) = i - 1
          /\ SubSeq(struct.decls, i + 1, Len(struct.decls)) \in Seq(Decl)
          /\ Len(SubSeq(struct.decls, i + 1, Len(struct.decls))) = Len(struct.decls) - i
          /\ i \in 1 .. Len(struct.decls)
      BY <1>1
    <3>2. /\ RemoveAt(struct.decls, i) \in Seq(Decl)
          /\ Len(RemoveAt(struct.decls, i)) = Len(struct.decls) - 1
      <4> DEFINE a == SubSeq(struct.decls, 1, i - 1)
                 b == SubSeq(struct.decls, i + 1, Len(struct.decls))
      <4>1. a \o b \in Seq(Decl) /\ Len(a \o b) = Len(a) + Len(b)
        <5> HIDE DEF a, b
        <5> QED  BY <3>1 DEF a, b
      <4>2. RemoveAt(struct.decls, i) = a \o b
        BY DEF RemoveAt
      <4>3. Len(a) + Len(b) = Len(struct.decls) - 1
        BY <1>1, <3>1, SMTT(30)
      <4> HIDE DEF a, b
      <4> QED  BY <4>1, <4>2, <4>3
    <3>3. struct'.decls = RemoveAt(struct.decls, i) /\ struct' \in [table : Table, decls : Seq(Decl)]
      BY <1>1, <2>2, <3>2
    <3> QED  BY <1>1, <3>2, <3>3
  <2>3. ASSUME NEW i \in DOMAIN struct.decls, NEW d \in Decl, struct' = [struct EXCEPT !.decls[i] = d]
        PROVE  Kept
    <3>1. [struct.decls EXCEPT ![i] = d] \in Seq(Decl)
          /\ Len([struct.decls EXCEPT ![i] = d]) = Len(struct.decls)
      BY <1>1, ExceptSeq
    <3> QED  BY <1>1, <2>3, <3>1
  <2>4. ASSUME NEW t \in Table, struct' = [struct EXCEPT !.table = t]
        PROVE  Kept
    BY <1>1, <2>4
  <2> QED  BY <2>1, <2>2, <2>3, <2>4 DEF Edit
<1>3. fresh' = FALSE /\ program' = "built" /\ generated' = generated
  BY DEF Edit
<1> QED  BY <1>2, <1>3 DEF StructInv

LEMMA StructInvProcess == StructInv /\ processFile => StructInv'
<1> SUFFICES ASSUME StructInv, processFile PROVE StructInv'
  OBVIOUS
<1>1. /\ struct' = struct /\ fresh' = TRUE /\ program' = "built"
      /\ generated'.table = struct.table /\ IsInfo(generated', struct.decls)
  BY DEF processFile, IsInfo
<1>2. struct.decls \in Seq(Decl) /\ struct.table \in Table
  BY DEF StructInv
<1> QED  BY <1>1, <1>2 DEF StructInv

LEMMA StructInvAssert == StructInv /\ AssertUpToDate => StructInv'
<1> SUFFICES ASSUME StructInv, AssertUpToDate PROVE StructInv'
  OBVIOUS
<1>1. /\ UNCHANGED <<struct, generated, fresh>> /\ program' \in {"up", "panic"}
      /\ program' = "up" => generated # NotGenerated /\ InSync(generated, struct.decls)
  BY DEF AssertUpToDate, Compiles, InSync
<1> QED  BY <1>1 DEF StructInv

\* In every run the generated file holds what the source parser found in some
\* struct, the struct as it is if the file is fresh, and a program that is up
\* has compared it with what the runtime parser finds.
LEMMA StructInvariant == StructSpec => []StructInv
<1>1. StructInv /\ [StructNext]_structVars => StructInv'
  <2>1. StructInv /\ UNCHANGED structVars => StructInv'
    BY DEF StructInv, structVars
  <2> QED  BY <2>1, StructInvEdit, StructInvProcess, StructInvAssert DEF StructNext
<1> QED  BY <1>1, StructInvInit, PTL DEF StructSpec

\* Whatever the structs are, columns of a generated file are distinct and its
\* primary key is the index of a field (checkFields, parse/base.go:167-183).
THEOREM TypeCorrect == StructSpec => []TypeOK
BY StructInvariant, StructInvTypeOK, PTL

-----------------------------------------------------------------------------
\* The check at the start of the program

PlainDecls == \A d \in Decl : Tagged(d) => Plain(d.type)

LEMMA DeclsAgree ==
    ASSUME PlainDecls, NEW decls \in Seq(Decl)
    PROVE  File(decls).err = "nil" \/ Object(decls).err = "nil" => File(decls) = Object(decls)
<1>1. decls \in Seq(Declarations) /\ \A k \in 1 .. Len(decls) : decls[k] \in Decl
  BY DeclsAreDeclarations
<1> QED  BY <1>1, ParsersAgree DEF PlainDecls

\* A program that starts has the fields, columns, types and primary key that
\* the reform command would generate now: no edit of the struct since the file
\* was generated goes unnoticed (AssertUpToDate, parse/base.go:130-145).
THEOREM StaleFieldsPanicCorrect ==
    ASSUME PlainDecls
    PROVE  StructSpec => []StaleFieldsPanic
<1>1. StructInv => StaleFieldsPanic
  <2> SUFFICES ASSUME StructInv, program = "up"
               PROVE  LET res == File(struct.decls) IN
                      res.err = "nil" /\ res.fields = generated.fields /\ res.pk = generated.pk
    BY DEF StaleFieldsPanic
  <2> DEFINE res == File(struct.decls)
  <2>1. struct.decls \in Seq(Decl) /\ generated # NotGenerated /\ InSync(generated, struct.decls)
    BY DEF StructInv
  <2>2. res = Object(struct.decls) /\ res.err = "nil"
    BY <2>1, DeclsAgree DEF InSync
  <2>3. structInfoInSync(generated, res)
    BY <2>1, <2>2 DEF InSync
  <2>4. PICK decls \in Seq(Decl) : IsInfo(generated, decls)
    BY <2>1 DEF StructInv
  <2>5. generated.fields \in Seq(Fields)
    BY <2>4, InfoFacts
  <2>6. IsInfo(res, struct.decls)
    BY <2>2 DEF IsInfo
  <2>7. res.fields \in Seq(Fields)
    BY <2>1, <2>6, InfoFacts
  <2> HIDE DEF res
  <2>8. res.fields = generated.fields
    BY <2>3, <2>5, <2>7 DEF structInfoInSync
  <2> QED  BY <2>2, <2>3, <2>8 DEF structInfoInSync, res
<1> QED  BY <1>1, StructInvariant, PTL

\* A file generated from the struct as it is never makes the program panic.
THEOREM FreshStartsCorrect ==
    ASSUME PlainDecls
    PROVE  StructSpec => []FreshStarts
<1>1. StructInit => FreshStarts
  BY DEF StructInit, FreshStarts
<1>2. StructInv /\ FreshStarts /\ [StructNext]_structVars => FreshStarts'
  <2>1. ASSUME StructInv, AssertUpToDate, fresh PROVE program' = "up"
    <3>1. struct.decls \in Seq(Decl) /\ IsInfo(generated, struct.decls)
      BY <2>1 DEF StructInv
    <3>2. File(struct.decls) = Object(struct.decls) /\ File(struct.decls).err = "nil"
      BY <3>1, DeclsAgree DEF IsInfo
    <3>3. structInfoInSync(generated, Object(struct.decls))
      BY <3>1, <3>2 DEF IsInfo, structInfoInSync
    <3> QED  BY <2>1, <3>2, <3>3 DEF AssertUpToDate
  <2>2. FreshStarts /\ Edit => FreshStarts'
    BY DEF FreshStarts, Edit
  <2>3. FreshStarts /\ processFile => FreshStarts'
    BY DEF FreshStarts, processFile
  <2>4. StructInv /\ FreshStarts /\ AssertUpToDate => FreshStarts'
    <3>1. AssertUpToDate => fresh' = fresh
      BY DEF AssertUpToDate
    <3> QED  BY <2>1, <3>1 DEF FreshStarts
  <2>5. FreshStarts /\ UNCHANGED structVars => FreshStarts'
    BY DEF FreshStarts, structVars
  <2> QED  BY <2>2, <2>3, <2>4, <2>5 DEF StructNext
<1> QED  BY <1>1, <1>2, StructInvariant, PTL DEF StructSpec

-----------------------------------------------------------------------------
\* Statements: lists of columns and of values

\* What a slot or a value is of.
Things == (Nat \X STRING) \cup (Nat \X Nat)

ViewOK == view \in Views /\ dialect \in Dialects

LEMMA ViewFacts ==
    ASSUME ViewOK
    PROVE  /\ Columns \in Seq(STRING) /\ Len(Columns) \in Nat \ {0}
           /\ \A i, j \in 1 .. Len(Columns) : Columns[i] = Columns[j] => i = j
           /\ view.pk \in Nat /\ view.pk <= Len(Columns)
           /\ IsRecord <=> view.pk \in 1 .. Len(Columns)
<1>1. IsView(view)
  BY ViewsAssumption DEF ViewOK
<1>2. Columns \in Seq(STRING) /\ Columns # << >> /\ view.pk \in 0 .. Len(Columns)
  BY <1>1 DEF IsView, Columns
<1>3. Len(Columns) \in Nat \ {0} /\ DOMAIN Columns = 1 .. Len(Columns)
  BY <1>2, EmptySeq
<1>4. \A i, j \in 1 .. Len(Columns) : Columns[i] = Columns[j] => i = j
  BY <1>1, <1>3 DEF IsView, Columns, IsInjective
<1> QED  BY <1>2, <1>3, <1>4 DEF IsRecord

LEMMA OfFacts ==
    ASSUME NEW k \in Nat, NEW columns \in Seq(STRING)
    PROVE  /\ Of(k, columns) \in Seq(Things) /\ Len(Of(k, columns)) = Len(columns)
           /\ \A i \in 1 .. Len(columns) : Of(k, columns)[i] = <<k, columns[i]>>
<1>1. DOMAIN columns = 1 .. Len(columns) /\ Len(columns) \in Nat
  OBVIOUS
<1>2. \A i \in 1 .. Len(columns) : <<k, columns[i]>> \in Things
  BY DEF Things
<1>3. Of(k, columns) = [i \in 1 .. Len(columns) |-> <<k, columns[i]>>]
  BY <1>1 DEF Of
<1> QED  BY <1>1, <1>2, <1>3

LEMMA CutFacts ==
    ASSUME NEW S, NEW s \in Seq(S), view.pk \in 1 .. Len(s)
    PROVE  /\ Cut(s) \in Seq(S) /\ Len(Cut(s)) = Len(s) - 1
           /\ \A i \in 1 .. Len(s) - 1 : Cut(s)[i] = s[IF i < view.pk THEN i ELSE i + 1]
<1> DEFINE pk == view.pk
           a == SubSeq(s, 1, pk - 1)
           b == SubSeq(s, pk + 1, Len(s))
<1>1. Len(s) \in Nat /\ pk \in Int /\ 1 <= pk /\ pk <= Len(s)
  OBVIOUS
<1>2. /\ a \in Seq(S) /\ Len(a) = pk - 1
      /\ \A i \in 1 .. pk - 1 : a[i] = s[i]
  <2> HIDE DEF pk
  <2>1. \A i \in 1 .. pk - 1 : s[i] \in S
    BY <1>1
  <2> QED  BY <1>1, <2>1, SubSeqProperties
<1>3. /\ b \in Seq(S) /\ Len(b) = Len(s) - pk
      /\ \A i \in 1 .. Len(s) - pk : b[i] = s[pk + i]
  <2> HIDE DEF pk
  <2>1. \A i \in pk + 1 .. Len(s) : s[i] \in S
    BY <1>1
  <2> QED  BY <1>1, <2>1, SubSeqProperties
<1>4. Cut(s) = a \o b
  BY DEF Cut, RemoveAt
<1>5. /\ a \o b \in Seq(S) /\ Len(a \o b) = Len(a) + Len(b)
      /\ \A i \in 1 .. Len(a) + Len(b) : (a \o b)[i] = IF i <= Len(a) THEN a[i] ELSE b[i - Len(a)]
  <2> HIDE DEF a, b
  <2> QED  BY <1>2, <1>3, ConcatProperties
<1> HIDE DEF a, b, pk
<1>6. Len(a) + Len(b) = Len(s) - 1
  BY <1>1, <1>2, <1>3
<1>7. ASSUME NEW i \in 1 .. Len(s) - 1
      PROVE  Cut(s)[i] = s[IF i < pk THEN i ELSE i + 1]
  <2>1. CASE i < pk
    BY <1>1, <1>2, <1>4, <1>5, <1>6, <2>1
  <2>2. CASE i >= pk
    <3>1. i - (pk - 1) \in 1 .. Len(s) - pk /\ pk + (i - (pk - 1)) = i + 1
      BY <1>1, <2>2
    <3>2. (a \o b)[i] = b[i - (pk - 1)]
      BY <1>1, <1>2, <1>5, <1>6, <2>2
    <3>3. b[i - (pk - 1)] = s[i + 1]
      BY <1>3, <3>1
    <3> QED  BY <1>1, <1>4, <2>2, <3>2, <3>3
  <2> QED  BY <1>1, <2>1, <2>2
<1> QED  BY <1>4, <1>5, <1>6, <1>7 DEF pk

\* Cutting the key from the values is cutting it from the columns.
LEMMA CutValues ==
    ASSUME ViewOK, IsRecord, NEW k \in Nat
    PROVE  /\ Cut(Columns) \in Seq(STRING) /\ Len(Cut(Columns)) = Len(Columns) - 1
           /\ Cut(Values(k)) = Of(k, Cut(Columns))
<1>1. Columns \in Seq(STRING) /\ Len(Columns) \in Nat \ {0} /\ view.pk \in 1 .. Len(Columns)
  BY ViewFacts
<1>2. /\ Values(k) \in Seq(Things) /\ Len(Values(k)) = Len(Columns)
      /\ \A i \in 1 .. Len(Columns) : Values(k)[i] = <<k, Columns[i]>>
  BY <1>1, OfFacts DEF Values
<1>3. /\ Cut(Columns) \in Seq(STRING) /\ Len(Cut(Columns)) = Len(Columns) - 1
      /\ \A i \in 1 .. Len(Columns) - 1 :
            Cut(Columns)[i] = Columns[IF i < view.pk THEN i ELSE i + 1]
  BY <1>1, CutFacts
<1>4. /\ Cut(Values(k)) \in Seq(Things) /\ Len(Cut(Values(k))) = Len(Columns) - 1
      /\ \A i \in 1 .. Len(Columns) - 1 :
            Cut(Values(k))[i] = Values(k)[IF i < view.pk THEN i ELSE i + 1]
  BY <1>1, <1>2, CutFacts
<1>5. /\ Of(k, Cut(Columns)) \in Seq(Things) /\ Len(Of(k, Cut(Columns))) = Len(Columns) - 1
      /\ \A i \in 1 .. Len(Columns) - 1 : Of(k, Cut(Columns))[i] = <<k, Cut(Columns)[i]>>
  BY <1>3, OfFacts
<1>6. ASSUME NEW i \in 1 .. Len(Columns) - 1
      PROVE  Cut(Values(k))[i] = Of(k, Cut(Columns))[i]
  <2> DEFINE m == IF i < view.pk THEN i ELSE i + 1
  <2>1. m \in 1 .. Len(Columns)
    BY <1>1
  <2>2. Cut(Columns)[i] = Columns[m] /\ Cut(Values(k))[i] = Values(k)[m]
    BY <1>3, <1>4
  <2> HIDE DEF m
  <2>3. Values(k)[m] = <<k, Columns[m]>>
    BY <1>2, <2>1
  <2> QED  BY <1>5, <2>2, <2>3
<1> QED  BY <1>3, <1>4, <1>5, <1>6, SeqEqual

-----------------------------------------------------------------------------
\* The filter of InsertColumns, UpdateColumns and UpdateView

Pairs   == [columns : Seq(STRING), values : Seq(Things)]
Nothing == [columns |-> << >>, values |-> << >>]

TakeField(S, r, i) ==
    IF Columns[i] \in S
    THEN [columns |-> Append(r.columns, Columns[i]), values  |-> Append(r.values, Values(1)[i])]
    ELSE r

LEMMA NothingType == Nothing \in Pairs
BY DEF Nothing, Pairs

LEMMA TakeFieldType ==
    ASSUME ViewOK, NEW S, NEW r \in Pairs, NEW i \in 1 .. Len(Columns)
    PROVE  TakeField(S, r, i) \in Pairs
<1>1. Columns[i] \in STRING /\ Values(1)[i] \in Things
  BY ViewFacts, OfFacts DEF Values
<1> QED  BY <1>1 DEF TakeField, Pairs

LEMMA FilterSteps ==
    ASSUME ViewOK, NEW S
    PROVE  \E r \in [0 .. Len(Columns) -> Pairs] :
              /\ r[0] = Nothing /\ r[Len(Columns)] = filteredColumnsAndValues(S)
              /\ \A k \in 1 .. Len(Columns) : r[k] = TakeField(S, r[k - 1], k)
<1> DEFINE n == Len(Columns)
           order == [i \in DOMAIN Columns |-> i]
           Op(x, e) == TakeField(S, x, e)
           F == [i \in 1 .. n |-> [x \in Pairs |-> Op(x, i)]]
           Iter(h) == h = [s \in SUBSET (1 .. n) |->
                              IF s = {} THEN Nothing ELSE Op(h[s \ {Max(s)}], order[Max(s)])]
           L == filteredColumnsAndValues(S)
<1>1. n \in Nat /\ DOMAIN order = 1 .. n /\ \A i \in 1 .. n : order[i] = i
  BY ViewFacts
<1>2. F \in Steps(n, Pairs)
  BY <1>1, TakeFieldType DEF Steps
<1>3. PICK g \in [SUBSET (1 .. n) -> Pairs] : FoldsTo(n, Pairs, Nothing, F, g)
  <2>1. n \in Nat /\ Nothing \in Pairs
    BY <1>1, NothingType
  <2> HIDE DEF F, n
  <2> QED  BY <1>2, <2>1, FoldExists
<1> DEFINE g1 == [s \in SUBSET (1 .. n) |-> g[s]]
<1>4. Iter(g1)
  <2>1. ASSUME NEW s \in SUBSET (1 .. n), s # {}
        PROVE  g[s] = Op(g[s \ {Max(s)}], order[Max(s)])
    <3>1. Max(s) \in 1 .. n
      BY <1>1, <2>1, LastOfSome
    <3>2. g[s] = F[Max(s)][g[s \ {Max(s)}]]
      <4> HIDE DEF F
      <4> QED  BY <1>3, <2>1 DEF FoldsTo
    <3> QED  BY <1>1, <1>3, <3>1, <3>2
  <2>2. g1 = [s \in SUBSET (1 .. n) |-> IF s = {} THEN Nothing ELSE Op(g1[s \ {Max(s)}], order[Max(s)])]
    <3> HIDE DEF F, Op, order
    <3> QED  BY <1>3, <2>1 DEF FoldsTo
  <2> QED  BY <2>2
<1> DEFINE it == CHOOSE h : Iter(h)
<1>5. Iter(it)
  <2> HIDE DEF Iter
  <2> QED  BY <1>4
<1>6. L = it[DOMAIN order]
  <2>1. L = FoldLeft(LAMBDA x, e : TakeField(S, x, e), Nothing, order)
    BY Zenon DEF filteredColumnsAndValues, TakeField, Nothing, FoldLeftDomain
  <2>2. FoldLeft(LAMBDA x, e : TakeField(S, x, e), Nothing, order) = it[DOMAIN order]
    <3> HIDE DEF order
    <3> QED  BY <1>1, Zenon DEF FoldLeft, MapThenFoldSet
  <2> HIDE DEF L, it
  <2> QED  BY <2>1, <2>2
<1>7. FoldsTo(n, Pairs, Nothing, F, it)
  <2> HIDE DEF it, Op
  <2>1. ASSUME NEW s \in SUBSET (1 .. n), s # {}, it[s \ {Max(s)}] \in Pairs
        PROVE  it[s] = F[Max(s)][it[s \ {Max(s)}]]
    <3>1. Max(s) \in 1 .. n
      BY <1>1, <2>1, LastOfSome
    <3>2. it[s] = Op(it[s \ {Max(s)}], Max(s))
      BY <1>1, <1>5, <2>1, <3>1
    <3> QED  BY <2>1, <3>1, <3>2
  <2>2. it[{}] = Nothing
    BY <1>5
  <2> HIDE DEF F, Iter
  <2> QED  BY <2>1, <2>2 DEF FoldsTo
<1>8. PICK r : RunsTo(n, Pairs, Nothing, F, r) /\ r[n] = it[1 .. n]
  <2>1. n \in Nat /\ Nothing \in Pairs
    BY <1>1, NothingType
  <2> HIDE DEF F, n, it, Iter, Op
  <2> QED  BY <1>2, <1>7, <2>1, FoldSteps
<1>9. ASSUME NEW k \in 1 .. n PROVE r[k] = TakeField(S, r[k - 1], k)
  <2>1. k - 1 \in 0 .. n
    BY <1>1
  <2> QED  BY <1>8, <2>1 DEF RunsTo
<1> HIDE DEF it, Iter, F
<1> QED  BY <1>1, <1>6, <1>8, <1>9 DEF RunsTo

\* What is found in the first k columns: values go with their columns, and
\* every column that S lists is there once.
Filters(S, x, k) ==
    /\ Len(x.values) = Len(x.columns)
    /\ \A j \in 1 .. Len(x.columns) : x.values[j] = <<1, x.columns[j]>>
    /\ \A j \in 1 .. Len(x.columns) : x.columns[j] \in S /\ \E i \in 1 .. k : x.columns[j] = Columns[i]
    /\ \A i \in 1 .. k : Columns[i] \in S => \E j \in 1 .. Len(x.columns) : x.columns[j] = Columns[i]
    /\ \A j, m \in 1 .. Len(x.columns) : x.columns[j] = x.columns[m] => j = m

LEMMA TakeFieldFilters ==
    ASSUME ViewOK, NEW S, NEW x \in Pairs, NEW k \in Nat, k + 1 <= Len(Columns), Filters(S, x, k)
    PROVE  Filters(S, TakeField(S, x, k + 1), k + 1)
<1> DEFINE c == Columns[k + 1]
           y == TakeField(S, x, k + 1)
<1>1. /\ Columns \in Seq(STRING) /\ Len(Columns) \in Nat /\ k + 1 \in 1 .. Len(Columns)
      /\ \A i, j \in 1 .. Len(Columns) : Columns[i] = Columns[j] => i = j
  BY ViewFacts
<1>2. c \in STRING /\ Values(1)[k + 1] = <<1, c>> /\ <<1, c>> \in Things
  BY <1>1, OfFacts DEF Values, Things
<1>3. x.columns \in Seq(STRING) /\ x.values \in Seq(Things) /\ Len(x.columns) \in Nat
  BY DEF Pairs
<1>4. \A i \in 1 .. k : Columns[i] # c
  BY <1>1
<1>5. CASE c \notin S
  <2>1. y = x
    BY <1>5 DEF TakeField
  <2>2. \A i \in 1 .. k + 1 : i \in 1 .. k \/ i = k + 1
    OBVIOUS
  <2>3. \A i \in 1 .. k : i \in 1 .. k + 1
    OBVIOUS
  <2> HIDE DEF y
  <2> QED  BY <1>5, <2>1, <2>2, <2>3 DEF Filters, y
<1>6. CASE c \in S
  <2> DEFINE l == Len(x.columns)
  <2>1. y = [columns |-> Append(x.columns, c), values |-> Append(x.values, <<1, c>>)]
    BY <1>2, <1>6 DEF TakeField
  <2>2. /\ Len(y.columns) = l + 1 /\ y.columns[l + 1] = c
        /\ \A j \in 1 .. l : y.columns[j] = x.columns[j]
    BY <1>2, <1>3, <2>1, SMTT(30)
  <2>3. /\ Len(y.values) = l + 1 /\ y.values[l + 1] = <<1, c>>
        /\ \A j \in 1 .. l : y.values[j] = x.values[j]
    <3>1. Len(x.values) = l
      BY DEF Filters
    <3>2. y.values = Append(x.values, <<1, c>>)
      BY <2>1
    <3> HIDE DEF y, l, c
    <3>3. /\ Len(y.values) = Len(x.values) + 1 /\ y.values[Len(x.values) + 1] = <<1, c>>
          /\ \A j \in 1 .. Len(x.values) : y.values[j] = x.values[j]
      BY <1>2, <1>3, <3>2, AppendProperties
    <3> QED  BY <3>1, <3>3
  <2>4. \A j \in 1 .. l + 1 : j \in 1 .. l \/ j = l + 1
    BY <1>3
  <2>5. l \in Nat /\ l + 1 \in 1 .. l + 1 /\ (\A j \in 1 .. l : j \in 1 .. l + 1)
    BY <1>3
  <2> HIDE DEF y, l, c
  <2>6. Len(y.values) = Len(y.columns) /\ \A j \in 1 .. l + 1 : y.values[j] = <<1, y.columns[j]>>
    BY <2>2, <2>3, <2>4 DEF Filters, l
  <2>7. ASSUME NEW j \in 1 .. l + 1
        PROVE  y.columns[j] \in S /\ \E i \in 1 .. k + 1 : y.columns[j] = Columns[i]
    <3>1. CASE j = l + 1
      BY <1>1, <1>6, <2>2, <3>1 DEF c
    <3>2. CASE j \in 1 .. l
      <4>1. x.columns[j] \in S /\ \E i \in 1 .. k : x.columns[j] = Columns[i]
        BY <3>2 DEF Filters, l
      <4> QED  BY <2>2, <3>2, <4>1
    <3> QED  BY <2>4, <3>1, <3>2
  <2>8. ASSUME NEW i \in 1 .. k + 1, Columns[i] \in S
        PROVE  \E j \in 1 .. l + 1 : y.columns[j] = Columns[i]
    <3>1. CASE i = k + 1
      BY <2>2, <2>5, <3>1 DEF c
    <3>2. CASE i \in 1 .. k
      <4>1. PICK j \in 1 .. l : x.columns[j] = Columns[i]
        BY <2>8, <3>2 DEF Filters, l
      <4> QED  BY <2>2, <2>5, <4>1
    <3> QED  BY <3>1, <3>2
  <2>9. \A j \in 1 .. l : y.columns[j] # c
    <3>1. \A j \in 1 .. l : \E i \in 1 .. k : x.columns[j] = Columns[i]
      BY DEF Filters, l
    <3> QED  BY <1>4, <2>2, <3>1
  <2>10. ASSUME NEW j \in 1 .. l + 1, NEW m \in 1 .. l + 1, y.columns[j] = y.columns[m]
         PROVE  j = m
    <3>1. j \in 1 .. l /\ m \in 1 .. l => x.columns[j] = x.columns[m]
      BY <2>2, <2>10
    <3>2. j \in 1 .. l /\ m \in 1 .. l => j = m
      BY <3>1 DEF Filters, l
    <3> QED  BY <2>2, <2>4, <2>9, <2>10, <3>2
  <2> QED  BY <2>2, <2>6, <2>7, <2>8, <2>10 DEF Filters, y
<1> QED  BY <1>5, <1>6

LEMMA FilteredFacts ==
    ASSUME ViewOK, NEW S
    PROVE  LET f == filteredColumnsAndValues(S) IN
           /\ f.columns \in Seq(STRING) /\ f.values = Of(1, f.columns)
           /\ \A i \in 1 .. Len(f.columns) : f.columns[i] \in S
           /\ S \subseteq ToSet(Columns) => IsFiniteSet(S) /\ Cardinality(S) = Len(f.columns)
<1> DEFINE n == Len(Columns)
           f == filteredColumnsAndValues(S)
<1>1. Columns \in Seq(STRING) /\ n \in Nat /\ DOMAIN Columns = 1 .. n
  BY ViewFacts
<1>2. PICK r \in [0 .. n -> Pairs] :
         /\ r[0] = Nothing /\ r[n] = f
         /\ \A k \in 1 .. n : r[k] = TakeField(S, r[k - 1], k)
  BY FilterSteps
<1> DEFINE T == {k \in Nat : k <= n => Filters(S, r[k], k)}
<1>3. 0 \in T
  <2>1. Len(Nothing.columns) = 0 /\ Len(Nothing.values) = 0
    BY DEF Nothing
  <2>2. Filters(S, Nothing, 0)
    BY <2>1 DEF Filters
  <2> QED  BY <1>2, <2>2
<1>4. ASSUME NEW k \in Nat, k \in T PROVE k + 1 \in T
  <2> SUFFICES ASSUME k + 1 <= n PROVE Filters(S, r[k + 1], k + 1)
    OBVIOUS
  <2>1. k + 1 \in 1 .. n /\ (k + 1) - 1 = k /\ k \in 0 .. n /\ k <= n
    BY <1>1
  <2>2. Filters(S, r[k], k) /\ r[k] \in Pairs /\ r[k + 1] = TakeField(S, r[k], k + 1)
    BY <1>2, <1>4, <2>1
  <2> QED  BY <2>2, TakeFieldFilters
<1>5. n \in T
  <2> HIDE DEF T, n
  <2> QED  BY <1>1, <1>3, <1>4, Induction
<1>6. Filters(S, f, n) /\ f \in Pairs
  BY <1>1, <1>2, <1>5
<1> HIDE DEF f, n
<1>7. f.columns \in Seq(STRING) /\ f.values \in Seq(Things) /\ Len(f.columns) \in Nat
  BY <1>6 DEF Pairs
<1>8. f.values = Of(1, f.columns)
  <2>1. /\ Of(1, f.columns) \in Seq(Things) /\ Len(Of(1, f.columns)) = Len(f.columns)
        /\ \A i \in 1 .. Len(f.columns) : Of(1, f.columns)[i] = <<1, f.columns[i]>>
    BY <1>7, OfFacts
  <2>2. /\ Len(f.values) = Len(f.columns)
        /\ \A i \in 1 .. Len(f.columns) : f.values[i] = <<1, f.columns[i]>>
    BY <1>6 DEF Filters
  <2>3. /\ Len(f.values) = Len(Of(1, f.columns))
        /\ \A i \in 1 .. Len(f.values) : f.values[i] = Of(1, f.columns)[i]
    BY <2>1, <2>2
  <2> QED  BY <1>7, <2>1, <2>3, SeqEqual
<1>9. ASSUME S \subseteq ToSet(Columns)
      PROVE  IsFiniteSet(S) /\ Cardinality(S) = Len(f.columns)
  <2> DEFINE l == Len(f.columns)
             b == [j \in 1 .. l |-> f.columns[j]]
  <2>1. b \in [1 .. l -> S] /\ \A j, m \in 1 .. l : b[j] = b[m] => j = m
    BY <1>6 DEF Filters
  <2>2. \A c \in S : \E j \in 1 .. l : b[j] = c
    <3>1. \A c \in S : \E i \in 1 .. n : Columns[i] = c
      BY <1>1, <1>9 DEF ToSet
    <3> QED  BY <1>6, <3>1 DEF Filters
  <2> HIDE DEF b, l
  <2>3. ExistsBijection(1 .. l, S)
    <3>1. b \in Bijection(1 .. l, S)
      BY <2>1, <2>2 DEF Bijection, Injection, Surjection, IsInjective
    <3> QED  BY <3>1 DEF ExistsBijection
  <2>4. l \in Nat
    BY <1>7 DEF l
  <2> QED  BY <2>3, <2>4, FS_NatBijection, FS_CountingElements DEF l
<1>10. \A i \in 1 .. Len(f.columns) : f.columns[i] \in S
  BY <1>6 DEF Filters
<1> QED  BY <1>7, <1>8, <1>9, <1>10 DEF f

-----------------------------------------------------------------------------
\* Slots and arguments

\* The slots for a list of things, numbered from one.
Numbering(a) == [i \in 1 .. Len(a) |-> [to |-> a[i], mark |-> Placeholder(i)]]

NumberedSlot == [to : Things, mark : Nat]

LEMMA SlotsFacts ==
    ASSUME NEW a \in Seq(Things), NEW marks, \A i \in 1 .. Len(a) : marks[i] \in Nat
    PROVE  /\ Slots(a, marks) \in Seq(NumberedSlot) /\ Len(Slots(a, marks)) = Len(a)
           /\ \A i \in 1 .. Len(a) : Slots(a, marks)[i] = [to |-> a[i], mark |-> marks[i]]
<1>1. DOMAIN a = 1 .. Len(a) /\ Len(a) \in Nat
  OBVIOUS
<1>2. \A i \in 1 .. Len(a) : [to |-> a[i], mark |-> marks[i]] \in NumberedSlot
  BY DEF NumberedSlot
<1>3. Slots(a, marks) = [i \in 1 .. Len(a) |-> [to |-> a[i], mark |-> marks[i]]]
  BY <1>1 DEF Slots
<1> QED  BY <1>1, <1>2, <1>3

LEMMA OwnSlots ==
    ASSUME NEW a \in Seq(Things)
    PROVE  Slots(a, Placeholders(1, Len(a))) = Numbering(a)
<1>1. DOMAIN a = 1 .. Len(a) /\ Len(a) \in Nat
  OBVIOUS
<1>2. \A i \in 1 .. Len(a) : Placeholders(1, Len(a))[i] = Placeholder(i)
  BY <1>1 DEF Placeholders, Placeholder
<1> QED  BY <1>1, <1>2 DEF Slots, Numbering

LEMMA ArgumentsFacts ==
    ASSUME NEW n \in Nat
    PROVE  Arguments(n) \in Seq(Things) /\ Len(Arguments(n)) = n
<1>1. \A j \in 1 .. n : <<0, j>> \in Things
  BY DEF Things
<1> QED  BY <1>1 DEF Arguments

\* However the caller numbers its tail, it goes on from where the columns end.
LEMMA TailFacts ==
    ASSUME NEW from \in Nat \ {0}, NEW n \in Nat, NEW marks \in TailMarks(from, n)
    PROVE  \A j \in 1 .. n : marks[j] = Placeholder(from + j - 1)
<1>1. CASE marks = [j \in 1 .. n |-> Placeholder(from + j - 1)]
  BY <1>1
<1>2. CASE marks = Placeholders(from, n) /\ (dialect # "sqlserver" \/ from = 1)
  BY <1>2 DEF Placeholders, Placeholder
<1> QED  BY <1>1, <1>2 DEF TailMarks

LEMMA TailSlots ==
    ASSUME NEW a \in Seq(Things), NEW b \in Seq(Things), NEW marks,
           \A j \in 1 .. Len(b) : marks[j] = Placeholder(Len(a) + j)
    PROVE  Slots(a, Placeholders(1, Len(a))) \o Slots(b, marks) = Numbering(a \o b)
<1> DEFINE own == Placeholders(1, Len(a))
           p == Slots(a, own)
           q == Slots(b, marks)
           n == Len(a) + Len(b)
<1>1. Len(a) \in Nat /\ Len(b) \in Nat
  OBVIOUS
<1>2. /\ p \in Seq(NumberedSlot) /\ Len(p) = Len(a)
      /\ \A i \in 1 .. Len(a) : p[i] = [to |-> a[i], mark |-> Placeholder(i)]
  <2>1. \A i \in 1 .. Len(a) : own[i] = Placeholder(i)
    BY <1>1 DEF Placeholders, Placeholder
  <2>2. \A i \in 1 .. Len(a) : own[i] \in Nat
    BY <1>1, <2>1 DEF Placeholder
  <2> HIDE DEF own
  <2> QED  BY <2>1, <2>2, SlotsFacts
<1>3. /\ q \in Seq(NumberedSlot) /\ Len(q) = Len(b)
      /\ \A j \in 1 .. Len(b) : q[j] = [to |-> b[j], mark |-> Placeholder(Len(a) + j)]
  <2>1. \A j \in 1 .. Len(b) : marks[j] \in Nat
    BY <1>1 DEF Placeholder
  <2> QED  BY <2>1, SlotsFacts
<1> HIDE DEF p, q
<1>4. /\ p \o q \in Seq(NumberedSlot) /\ Len(p \o q) = n
      /\ \A i \in 1 .. n : (p \o q)[i] = IF i <= Len(a) THEN p[i] ELSE q[i - Len(a)]
  <2>1. p \in Seq(NumberedSlot) /\ q \in Seq(NumberedSlot)
    BY <1>2, <1>3
  <2>2. /\ p \o q \in Seq(NumberedSlot) /\ Len(p \o q) = Len(p) + Len(q)
        /\ \A i \in 1 .. Len(p) + Len(q) : (p \o q)[i] = IF i <= Len(p) THEN p[i] ELSE q[i - Len(p)]
    BY <2>1, ConcatProperties
  <2>3. Len(p) = Len(a) /\ Len(q) = Len(b)
    BY <1>2, <1>3
  <2> QED  BY <2>2, <2>3
<1>5. /\ a \o b \in Seq(Things) /\ Len(a \o b) = n
      /\ \A i \in 1 .. n : (a \o b)[i] = IF i <= Len(a) THEN a[i] ELSE b[i - Len(a)]
  BY ConcatProperties
<1>6. ASSUME NEW i \in 1 .. n
      PROVE  (p \o q)[i] = [to |-> (a \o b)[i], mark |-> Placeholder(i)]
  <2>1. CASE i <= Len(a)
    BY <1>1, <1>2, <1>4, <1>5, <2>1
  <2>2. CASE i > Len(a)
    <3>1. i - Len(a) \in 1 .. Len(b) /\ Len(a) + (i - Len(a)) = i
      BY <1>1, <2>2
    <3>2. q[i - Len(a)] = [to |-> b[i - Len(a)], mark |-> Placeholder(i)]
      BY <1>3, <3>1
    <3> QED  BY <1>1, <1>4, <1>5, <2>2, <3>2
  <2>3. i <= Len(a) \/ i > Len(a)
    BY <1>1
  <2> QED  BY <2>1, <2>2, <2>3
<1>7. p \o q = [i \in 1 .. n |-> (p \o q)[i]]
  <2> DEFINE c == p \o q
  <2>1. c \in Seq(NumberedSlot) /\ Len(c) = n
    BY <1>4
  <2> HIDE DEF c
  <2>2. c = [i \in 1 .. n |-> c[i]]
    BY <2>1
  <2> QED  BY <2>2 DEF c
<1>8. Numbering(a \o b) = [i \in 1 .. n |-> [to |-> (a \o b)[i], mark |-> Placeholder(i)]]
  BY <1>5 DEF Numbering
<1> QED  BY <1>6, <1>7, <1>8 DEF p, q

-----------------------------------------------------------------------------
\* Every command and finder sends a good statement

Numbered(t, a) == a \in Seq(Things) /\ t.slots = Numbering(a)

Parsed(o, t, a) ==
    \/ /\ t.list = "empty" => \/ t.verb = "INSERT" /\ dialect = "mysql"
                              \/ t.verb = "SELECT" /\ dialect = "sqlite3"
       /\ t.list = "default" => dialect # "mysql"
       /\ t.output = "Returning" => dialect = "postgresql"
       /\ t.output = "OutputInserted" => dialect \in {"mssql", "sqlserver"}
       /\ t.one # "none" => (t.one = "TOP" <=> dialect \in {"mssql", "sqlserver"})
       /\ o = "FindOneTo" => t.one # "none"
    \/ o = "Update" /\ Len(Columns) = 1
    \/ o = "InsertMulti" /\ Len(Columns) = 1 /\ ~HasPK
    \/ o = "FindAllFrom" /\ a = << >>

\* An insert lists the key if the record has one; without one it does not.
KeyListed(o, a) ==
    o \in {"Insert", "InsertColumns"} /\ IsRecord =>
        /\ HasPK \/ \A i \in 1 .. Len(a) : a[i] # PKValue
        /\ o = "Insert" /\ HasPK => \E i \in 1 .. Len(a) : a[i] = PKValue

Good(o, t, a) == Numbered(t, a) /\ Parsed(o, t, a) /\ KeyListed(o, a)

Sends == \E o, t, a : Send(o, t, a) /\ Good(o, t, a)

LEMMA InsertSends == ViewOK /\ Insert => Sends
<1> SUFFICES ASSUME ViewOK, Insert PROVE Sends
  OBVIOUS
<1> DEFINE cut == IsRecord /\ ~HasPK
<1>1. PICK columns \in Seq(STRING) :
         /\ insert("Insert", columns, Of(1, columns))
         /\ cut => columns = Cut(Columns)
         /\ ~cut => columns = Columns
  BY ViewFacts, CutValues DEF Insert, Values
<1> DEFINE a == Of(1, columns)
           t == [Text("INSERT", Slots(a, Placeholders(1, Len(columns))), InsertList(columns))
                    EXCEPT !.output = IF IsRecord THEN LastInsertIdMethod ELSE "none"]
<1>2. Send("Insert", t, a)
  BY <1>1 DEF insert
<1>3. /\ a \in Seq(Things) /\ Len(a) = Len(columns) /\ Len(columns) \in Nat
      /\ \A i \in 1 .. Len(columns) : a[i] = <<1, columns[i]>>
  BY OfFacts
<1>4. Numbered(t, a)
  <2>1. t.slots = Slots(a, Placeholders(1, Len(a)))
    BY <1>3 DEF Text
  <2> HIDE DEF t, a
  <2> QED  BY <1>3, <2>1, OwnSlots DEF Numbered
<1>5. Parsed("Insert", t, a)
  BY DEF ViewOK, Dialects, Parsed, Text, InsertList, DefaultValuesMethod, LastInsertIdMethod
<1>6. KeyListed("Insert", a)
  <2> SUFFICES ASSUME IsRecord
               PROVE  /\ cut => \A i \in 1 .. Len(a) : a[i] # PKValue
                      /\ ~cut => \E i \in 1 .. Len(a) : a[i] = PKValue
    BY DEF KeyListed
  <2>1. view.pk \in 1 .. Len(Columns) /\ \A i, j \in 1 .. Len(Columns) : Columns[i] = Columns[j] => i = j
    BY ViewFacts
  <2>2. ASSUME ~cut PROVE \E i \in 1 .. Len(a) : a[i] = PKValue
    <3>1. view.pk \in 1 .. Len(a) /\ a[view.pk] = PKValue
      BY <1>1, <1>3, <2>1, <2>2 DEF PKValue
    <3> QED  BY <3>1
  <2>3. ASSUME cut, NEW i \in 1 .. Len(a) PROVE a[i] # PKValue
    <3> DEFINE m == IF i < view.pk THEN i ELSE i + 1
    <3>1. Columns \in Seq(STRING) /\ Len(Columns) \in Nat
      BY ViewFacts
    <3>2. Len(columns) = Len(Columns) - 1 /\ columns[i] = Columns[m]
      BY <1>1, <1>3, <2>1, <2>3, <3>1, CutFacts
    <3>3. m \in 1 .. Len(Columns) /\ m # view.pk
      BY <1>3, <2>1, <3>1, <3>2
    <3> HIDE DEF m
    <3>4. columns[i] # Columns[view.pk]
      BY <2>1, <3>2, <3>3
    <3> QED  BY <1>3, <3>4 DEF PKValue
  <2> QED  BY <2>2, <2>3
<1> HIDE DEF a, t
<1> QED  BY <1>2, <1>4, <1>5, <1>6 DEF Sends, Good

LEMMA InsertColumnsSends == ASSUME NEW S PROVE ViewOK /\ InsertColumns(S) => Sends
<1> SUFFICES ASSUME ViewOK, InsertColumns(S) PROVE Sends
  OBVIOUS
<1> DEFINE f == filteredColumnsAndValues(S)
           a == Of(1, f.columns)
           t == [Text("INSERT", Slots(a, Placeholders(1, Len(f.columns))), InsertList(f.columns))
                    EXCEPT !.output = IF IsRecord THEN LastInsertIdMethod ELSE "none"]
<1>1. /\ f.columns \in Seq(STRING) /\ f.values = a
      /\ \A i \in 1 .. Len(f.columns) : f.columns[i] \in S
  BY FilteredFacts
<1> HIDE DEF f
<1>2. IsRecord /\ ~HasPK => Columns[view.pk] \notin S
  BY DEF InsertColumns
<1>3. Send("InsertColumns", t, a)
  BY <1>1 DEF InsertColumns, insert, f
<1>4. /\ a \in Seq(Things) /\ Len(a) = Len(f.columns) /\ Len(f.columns) \in Nat
      /\ \A i \in 1 .. Len(f.columns) : a[i] = <<1, f.columns[i]>>
  BY <1>1, OfFacts
<1>5. Numbered(t, a)
  <2>1. t.slots = Slots(a, Placeholders(1, Len(a)))
    BY <1>4 DEF Text
  <2> HIDE DEF t, a
  <2> QED  BY <1>4, <2>1, OwnSlots DEF Numbered
<1>6. Parsed("InsertColumns", t, a)
  BY DEF ViewOK, Dialects, Parsed, Text, InsertList, DefaultValuesMethod, LastInsertIdMethod
<1>7. KeyListed("InsertColumns", a)
  <2> SUFFICES ASSUME IsRecord, ~HasPK, NEW i \in 1 .. Len(a) PROVE a[i] # PKValue
    BY DEF KeyListed
  <2> QED  BY <1>1, <1>2, <1>4 DEF PKValue
<1> HIDE DEF a, t
<1> QED  BY <1>3, <1>5, <1>6, <1>7 DEF Sends, Good

LEMMA InsertMultiSends == ViewOK /\ InsertMulti => Sends
<1> SUFFICES ASSUME ViewOK, InsertMulti PROVE Sends
  OBVIOUS
<1> DEFINE cut == IsRecord /\ ~HasPK
           columns == IF cut THEN Cut(Columns) ELSE Columns
           a == Of(1, columns)
           b == Of(2, columns)
           t == Text("INSERT", Slots(a \o b, Placeholders(1, 2 * Len(columns))), List(columns))
<1>1. /\ columns \in Seq(STRING)
      /\ Len(columns) = IF cut THEN Len(Columns) - 1 ELSE Len(Columns)
      /\ a = IF cut THEN Cut(Values(1)) ELSE Values(1)
      /\ b = IF cut THEN Cut(Values(2)) ELSE Values(2)
  BY ViewFacts, CutValues DEF Values
<1>2. Send("InsertMulti", t, a \o b)
  BY <1>1 DEF InsertMulti
<1> HIDE DEF columns
<1>3. /\ a \in Seq(Things) /\ b \in Seq(Things) /\ Len(columns) \in Nat
      /\ Len(a) = Len(columns) /\ Len(b) = Len(columns)
  <2>1. columns \in Seq(STRING)
    BY <1>1
  <2>2. a \in Seq(Things) /\ Len(a) = Len(columns)
    BY <2>1, OfFacts
  <2>3. b \in Seq(Things) /\ Len(b) = Len(columns)
    BY <2>1, OfFacts
  <2> QED  BY <2>1, <2>2, <2>3
<1>4. a \o b \in Seq(Things) /\ Len(a \o b) = 2 * Len(columns)
  <2> HIDE DEF a, b
  <2>1. a \o b \in Seq(Things) /\ Len(a \o b) = Len(a) + Len(b)
    BY <1>3, ConcatProperties
  <2> QED  BY <1>3, <2>1
<1>5. Numbered(t, a \o b)
  <2>1. t.slots = Slots(a \o b, Placeholders(1, Len(a \o b)))
    BY <1>4 DEF Text
  <2> HIDE DEF t, a, b
  <2> QED  BY <1>4, <2>1, OwnSlots DEF Numbered
<1>6. Parsed("InsertMulti", t, a \o b)
  <2>1. columns = << >> => cut /\ Len(Columns) = 1
    <3>1. Len(Columns) \in Nat \ {0}
      BY ViewFacts
    <3> HIDE DEF cut
    <3> QED  BY <1>1, <3>1
  <2> QED  BY <2>1 DEF Parsed, Text, List
<1>7. KeyListed("InsertMulti", a \o b)
  BY DEF KeyListed
<1> HIDE DEF a, b, t
<1> QED  BY <1>2, <1>5, <1>6, <1>7 DEF Sends, Good

\* An UPDATE: the columns that are set, then the tail.
UpdateWith(o, columns, tail, marks) ==
    /\ o \in {"Update", "UpdateColumns", "UpdateView"} /\ columns \in Seq(STRING)
    /\ columns = << >> => o = "Update" /\ Len(Columns) = 1
    /\ tail \in Seq(Things)
    /\ \A j \in 1 .. Len(tail) : marks[j] = Placeholder(Len(columns) + j)
    /\ update(o, columns, Of(1, columns), tail, marks, tail)

LEMMA UpdateSends ==
    ASSUME ViewOK, NEW o, NEW columns, NEW tail, NEW marks, UpdateWith(o, columns, tail, marks)
    PROVE  Sends
<1> USE DEF UpdateWith
<1> DEFINE a == Of(1, columns)
           t == Text("UPDATE", Slots(a, Placeholders(1, Len(columns))) \o Slots(tail, marks), List(columns))
<1>1. Send(o, t, a \o tail)
  BY DEF update
<1>2. a \in Seq(Things) /\ Len(a) = Len(columns)
  BY OfFacts
<1>3. Numbered(t, a \o tail)
  <2>1. t.slots = Slots(a, Placeholders(1, Len(a))) \o Slots(tail, marks)
    BY <1>2 DEF Text
  <2> HIDE DEF t, a
  <2>2. a \o tail \in Seq(Things)
    BY <1>2, ConcatProperties
  <2>3. \A j \in 1 .. Len(tail) : marks[j] = Placeholder(Len(a) + j)
    BY <1>2
  <2> QED  BY <1>2, <2>1, <2>2, <2>3, TailSlots DEF Numbered
<1>4. Parsed(o, t, a \o tail)
  BY DEF Parsed, Text, List
<1>5. KeyListed(o, a \o tail)
  BY DEF KeyListed
<1> HIDE DEF a, t
<1> QED  BY <1>1, <1>3, <1>4, <1>5 DEF Sends, Good

LEMMA UpdateByKeySends ==
    /\ ViewOK /\ Update => Sends
    /\ \A S : ViewOK /\ UpdateColumns(S) => Sends
<1>1. ASSUME ViewOK, IsRecord
      PROVE  /\ <<PKValue>> \in Seq(Things) /\ Len(<<PKValue>>) = 1
             /\ \A m \in Nat : \A j \in 1 .. 1 : <<Placeholder(m + 1)>>[j] = Placeholder(m + j)
  <2>1. view.pk \in 1 .. Len(Columns) /\ Columns \in Seq(STRING)
    BY <1>1, ViewFacts
  <2>2. PKValue \in Things
    BY <2>1 DEF PKValue, Things
  <2>3. ASSUME NEW m \in Nat, NEW j \in 1 .. 1 PROVE <<Placeholder(m + 1)>>[j] = Placeholder(m + j)
    <3>1. j = 1
      OBVIOUS
    <3> QED  BY <3>1
  <2> QED  BY <2>2, <2>3
<1>2. ASSUME ViewOK, Update PROVE Sends
  <2> DEFINE columns == Cut(Columns)
  <2>1. IsRecord
    BY <1>2 DEF Update
  <2>2. columns \in Seq(STRING) /\ Len(columns) = Len(Columns) - 1 /\ Cut(Values(1)) = Of(1, columns)
    BY <1>2, <2>1, CutValues
  <2>3. update("Update", columns, Of(1, columns), <<PKValue>>, <<Placeholder(Len(columns) + 1)>>, <<PKValue>>)
    BY <1>2, <2>2 DEF Update
  <2> HIDE DEF columns
  <2>4. Len(columns) \in Nat /\ (columns = << >> => Len(Columns) = 1)
    BY <1>2, <2>2, ViewFacts
  <2>5. \A j \in 1 .. 1 : <<Placeholder(Len(columns) + 1)>>[j] = Placeholder(Len(columns) + j)
    BY <1>1, <1>2, <2>1, <2>4
  <2> DEFINE tail == <<PKValue>>
             marks == <<Placeholder(Len(columns) + 1)>>
  <2>6. tail \in Seq(Things) /\ Len(tail) = 1
    BY <1>1, <1>2, <2>1
  <2>7. \A j \in 1 .. Len(tail) : marks[j] = Placeholder(Len(columns) + j)
    BY <2>5, <2>6
  <2>8. update("Update", columns, Of(1, columns), tail, marks, tail)
    BY <2>3
  <2> HIDE DEF tail, marks
  <2>9. columns \in Seq(STRING) /\ (columns = << >> => "Update" = "Update" /\ Len(Columns) = 1)
    BY <2>2, <2>4
  <2>10. UpdateWith("Update", columns, tail, marks)
    BY <2>6, <2>7, <2>8, <2>9 DEF UpdateWith
  <2> QED  BY <1>2, <2>10, UpdateSends
<1>3. ASSUME NEW S, ViewOK, UpdateColumns(S) PROVE Sends
  <2> DEFINE f == filteredColumnsAndValues(S)
             columns == f.columns
  <2>1. IsRecord /\ S # {} /\ S \subseteq ToSet(Columns)
    BY <1>3 DEF UpdateColumns
  <2>2. columns \in Seq(STRING) /\ f.values = Of(1, columns) /\ IsFiniteSet(S) /\ Cardinality(S) = Len(columns)
    BY <1>3, <2>1, FilteredFacts
  <2>3. update("UpdateColumns", columns, Of(1, columns), <<PKValue>>, <<Placeholder(Len(columns) + 1)>>, <<PKValue>>)
    BY <1>3, <2>2 DEF UpdateColumns
  <2> HIDE DEF columns, f
  <2>4. Len(columns) \in Nat /\ columns # << >>
    BY <2>1, <2>2, FS_EmptySet
  <2>5. \A j \in 1 .. 1 : <<Placeholder(Len(columns) + 1)>>[j] = Placeholder(Len(columns) + j)
    BY <1>1, <1>3, <2>1, <2>4
  <2> DEFINE tail == <<PKValue>>
             marks == <<Placeholder(Len(columns) + 1)>>
  <2>6. tail \in Seq(Things) /\ Len(tail) = 1
    BY <1>1, <1>3, <2>1
  <2>7. \A j \in 1 .. Len(tail) : marks[j] = Placeholder(Len(columns) + j)
    BY <2>5, <2>6
  <2>8. update("UpdateColumns", columns, Of(1, columns), tail, marks, tail)
    BY <2>3
  <2> HIDE DEF tail, marks
  <2>9. columns \in Seq(STRING) /\ (columns = << >> => "UpdateColumns" = "Update" /\ Len(Columns) = 1)
    BY <2>2, <2>4
  <2>10. UpdateWith("UpdateColumns", columns, tail, marks)
    BY <2>6, <2>7, <2>8, <2>9 DEF UpdateWith
  <2> QED  BY <1>3, <2>10, UpdateSends
<1> QED  BY <1>2, <1>3

LEMMA UpdateViewSends == ASSUME NEW S, NEW n \in Nat PROVE ViewOK /\ UpdateView(S, n) => Sends
<1> SUFFICES ASSUME ViewOK, UpdateView(S, n) PROVE Sends
  OBVIOUS
<1> DEFINE f == filteredColumnsAndValues(S)
           columns == f.columns
<1>1. S # {} /\ S \subseteq ToSet(Columns)
  BY DEF UpdateView
<1>2. columns \in Seq(STRING) /\ f.values = Of(1, columns) /\ IsFiniteSet(S) /\ Cardinality(S) = Len(columns)
  BY <1>1, FilteredFacts
<1>3. PICK marks \in TailMarks(Len(columns) + 1, n) :
          update("UpdateView", columns, Of(1, columns), Arguments(n), marks, Arguments(n))
  BY <1>2 DEF UpdateView
<1> HIDE DEF columns, f
<1>4. Len(columns) \in Nat /\ columns # << >>
  BY <1>1, <1>2, FS_EmptySet
<1>5. Arguments(n) \in Seq(Things) /\ Len(Arguments(n)) = n
  BY ArgumentsFacts
<1>6. \A j \in 1 .. n : marks[j] = Placeholder((Len(columns) + 1) + j - 1)
  BY <1>4, TailFacts
<1>7. \A j \in 1 .. n : marks[j] = Placeholder(Len(columns) + j)
  <2>1. \A j \in 1 .. n : (Len(columns) + 1) + j - 1 = Len(columns) + j
    BY <1>4
  <2> QED  BY <1>6, <2>1
<1>8. UpdateWith("UpdateView", columns, Arguments(n), marks)
  BY <1>2, <1>3, <1>4, <1>5, <1>7 DEF UpdateWith
<1> QED  BY <1>8, UpdateSends

\* The arguments of the caller alone, or the key alone.
LEMMA TailSends ==
    ASSUME NEW a \in Seq(Things), NEW marks, NEW t, NEW o,
           o \notin {"Insert", "InsertColumns"},
           \A j \in 1 .. Len(a) : marks[j] = Placeholder(j),
           t.slots = Slots(a, marks), Parsed(o, t, a), Send(o, t, a)
    PROVE  Sends
<1>1. DOMAIN a = 1 .. Len(a)
  OBVIOUS
<1>2. Numbered(t, a)
  BY <1>1 DEF Numbered, Numbering, Slots
<1>3. KeyListed(o, a)
  BY DEF KeyListed
<1> QED  BY <1>2, <1>3 DEF Sends, Good

LEMMA DeleteSends == ViewOK /\ Delete => Sends
<1> SUFFICES ASSUME ViewOK, Delete PROVE Sends
  OBVIOUS
<1> DEFINE a == <<PKValue>>
           marks == <<Placeholder(1)>>
           t == Text("DELETE", Slots(a, marks), "full")
<1>1. IsRecord /\ Send("Delete", t, a)
  BY DEF Delete
<1>2. view.pk \in 1 .. Len(Columns) /\ Columns \in Seq(STRING)
  BY <1>1, ViewFacts
<1>3. PKValue \in Things
  BY <1>2 DEF PKValue, Things
<1>4. a \in Seq(Things) /\ Len(a) = 1
  BY <1>3
<1>5. \A j \in 1 .. Len(a) : marks[j] = Placeholder(j)
  <2>1. \A j \in 1 .. Len(a) : j = 1
    BY <1>4
  <2> QED  BY <2>1
<1>6. t.slots = Slots(a, marks) /\ Parsed("Delete", t, a)
  BY DEF Parsed, Text
<1> HIDE DEF a, marks, t
<1> QED  BY <1>1, <1>4, <1>5, <1>6, TailSends

LEMMA MarksOfTail ==
    ASSUME NEW n \in Nat, NEW marks \in TailMarks(1, n)
    PROVE  \A j \in 1 .. Len(Arguments(n)) : marks[j] = Placeholder(j)
<1>1. \A j \in 1 .. n : marks[j] = Placeholder(1 + j - 1) /\ 1 + j - 1 = j
  BY TailFacts
<1> QED  BY <1>1, ArgumentsFacts

LEMMA OwnMarks ==
    ASSUME NEW n \in Nat
    PROVE  \A j \in 1 .. Len(Arguments(n)) : Placeholders(1, n)[j] = Placeholder(j)
BY ArgumentsFacts DEF Placeholders, Placeholder

LEMMA DeleteFromSends == ASSUME NEW n \in Nat PROVE ViewOK /\ DeleteFrom(n) => Sends
<1> SUFFICES ASSUME ViewOK, DeleteFrom(n) PROVE Sends
  OBVIOUS
<1> DEFINE a == Arguments(n)
<1>1. PICK marks \in TailMarks(1, n) : Send("DeleteFrom", Text("DELETE", Slots(a, marks), "full"), a)
  BY DEF DeleteFrom
<1> DEFINE t == Text("DELETE", Slots(a, marks), "full")
<1>2. t.slots = Slots(a, marks) /\ Parsed("DeleteFrom", t, a)
  BY DEF Parsed, Text
<1>3. a \in Seq(Things) /\ \A j \in 1 .. Len(a) : marks[j] = Placeholder(j)
  BY ArgumentsFacts, MarksOfTail
<1>4. Send("DeleteFrom", t, a)
  BY <1>1
<1> HIDE DEF a, t
<1> QED  BY <1>2, <1>3, <1>4, TailSends

LEMMA SelectSends == ASSUME NEW n \in Nat PROVE ViewOK /\ Select(n) => Sends
<1> SUFFICES ASSUME ViewOK, Select(n) PROVE Sends
  OBVIOUS
<1> DEFINE a == Arguments(n)
           T(marks, limit1) == [Text("SELECT", Slots(a, marks), "full") EXCEPT !.one = Top(limit1)]
<1>1. PICK marks \in TailMarks(1, n), limit1 \in BOOLEAN : Send("Select", T(marks, limit1), a)
  BY DEF Select
<1> DEFINE t == T(marks, limit1)
<1>2. t.slots = Slots(a, marks) /\ Parsed("Select", t, a)
  BY DEF Parsed, Text, Top, SelectLimitMethod
<1>3. a \in Seq(Things) /\ \A j \in 1 .. Len(a) : marks[j] = Placeholder(j)
  BY ArgumentsFacts, MarksOfTail
<1>4. Send("Select", t, a)
  BY <1>1
<1> HIDE DEF a, t
<1> QED  BY <1>2, <1>3, <1>4, TailSends

LEMMA FindSends == ASSUME NEW n \in Nat, NEW limit1 \in BOOLEAN PROVE ViewOK /\ Find(n, limit1) => Sends
<1> SUFFICES ASSUME ViewOK, Find(n, limit1) PROVE Sends
  OBVIOUS
<1> DEFINE a == Arguments(n)
           o == IF limit1 THEN "FindOneTo" ELSE "FindRows"
           t == [Text("SELECT", Slots(a, Placeholders(1, n)), "full") EXCEPT !.one = Limit(limit1)]
<1>1. Send(o, t, a)
  BY DEF Find
<1>2. t.slots = Slots(a, Placeholders(1, n)) /\ Parsed(o, t, a)
  BY DEF Parsed, Text, Top, Limit, SelectLimitMethod
<1>3. /\ a \in Seq(Things) /\ o \notin {"Insert", "InsertColumns"}
      /\ \A j \in 1 .. Len(a) : Placeholders(1, n)[j] = Placeholder(j)
  BY ArgumentsFacts, OwnMarks
<1> HIDE DEF a, t, o
<1> QED  BY <1>1, <1>2, <1>3, TailSends

LEMMA FindAllFromSends == ASSUME NEW n \in Nat PROVE ViewOK /\ FindAllFrom(n) => Sends
<1> SUFFICES ASSUME ViewOK, FindAllFrom(n) PROVE Sends
  OBVIOUS
<1> DEFINE a == Arguments(n)
           t == Text("SELECT", Slots(a, Placeholders(1, n)), List(a))
<1>1. Send("FindAllFrom", t, a)
  BY DEF FindAllFrom
<1>2. t.slots = Slots(a, Placeholders(1, n)) /\ Parsed("FindAllFrom", t, a)
  BY DEF Parsed, Text, List
<1>3. a \in Seq(Things) /\ \A j \in 1 .. Len(a) : Placeholders(1, n)[j] = Placeholder(j)
  BY ArgumentsFacts, OwnMarks
<1> HIDE DEF a, t
<1> QED  BY <1>1, <1>2, <1>3, TailSends

LEMMA CallSends == ViewOK /\ Call => Sends
<1> SUFFICES ASSUME ViewOK, Call PROVE Sends
  OBVIOUS
<1>1. \A n \in 0 .. MaxArgs : n \in Nat
  BY ArgsAssumption
<1>2. \A n \in 0 .. 1 : n \in Nat
  OBVIOUS
<1>3. CASE Insert \/ InsertMulti \/ Update \/ Delete
  BY <1>3, InsertSends, InsertMultiSends, UpdateByKeySends, DeleteSends
<1>4. CASE \E S \in Lists : InsertColumns(S) \/ UpdateColumns(S) \/ \E n \in 0 .. MaxArgs : UpdateView(S, n)
  BY <1>1, <1>4, InsertColumnsSends, UpdateByKeySends, UpdateViewSends
<1>5. CASE \E n \in 0 .. MaxArgs : DeleteFrom(n) \/ Select(n) \/ FindAllFrom(n)
  BY <1>1, <1>5, DeleteFromSends, SelectSends, FindAllFromSends
<1>6. CASE \E n \in 0 .. 1, limit1 \in BOOLEAN : Find(n, limit1)
  BY <1>2, <1>6, FindSends
<1> QED  BY <1>3, <1>4, <1>5, <1>6 DEF Call

-----------------------------------------------------------------------------
\* The server's side

StatementInv ==
    /\ ViewOK /\ pc \in {"idle", "sent"}
    /\ pc = "sent" => Good(op, text, args)
    /\ KeyIsFilled

LEMMA NumberedBinds ==
    ASSUME ViewOK, Numbered(text, args)
    PROVE  /\ Binds /\ \A i \in DOMAIN text.slots : Bound(i) = text.slots[i].to
           /\ \A c : (\E i \in DOMAIN text.slots : text.slots[i].to = c) <=> \E i \in 1 .. Len(args) : args[i] = c
<1> DEFINE n == Len(args)
           numbers == dialect \in {"postgresql", "sqlserver"}
<1>1. /\ args \in Seq(Things) /\ n \in Nat /\ DOMAIN args = 1 .. n
      /\ text.slots = [i \in 1 .. n |-> [to |-> args[i], mark |-> Placeholder(i)]]
  BY DEF Numbered, Numbering
<1>2. /\ DOMAIN text.slots = 1 .. n /\ Len(text.slots) = n
      /\ \A i \in 1 .. n : text.slots[i].to = args[i] /\ text.slots[i].mark = IF numbers THEN i ELSE 0
  BY <1>1 DEF Placeholder
<1>3. Marks = {IF numbers THEN i ELSE 0 : i \in 1 .. n}
  BY <1>2 DEF Marks
<1>4. text.slots # << >> \/ args # << >> => n # 0
  BY <1>1, <1>2
<1>5. Binds
  <2>1. CASE numbers
    BY <1>1, <1>2, <1>3, <2>1 DEF Binds
  <2>2. CASE ~numbers
    <3>1. n # 0 => 0 \in Marks
      <4>1. n # 0 => 1 \in 1 .. n
        BY <1>1
      <4> QED  BY <1>3, <2>2, <4>1
    <3> QED  BY <1>2, <1>4, <2>2, <3>1 DEF Binds
  <2> QED  BY <2>1, <2>2
<1>6. \A i \in 1 .. n : Bound(i) = args[i]
  BY <1>2 DEF Bound
<1> QED  BY <1>2, <1>5, <1>6

LEMMA SendsGood == StatementInv /\ Sends => StatementInv'
<1> SUFFICES ASSUME StatementInv, Sends PROVE StatementInv'
  OBVIOUS
<1>1. PICK o, t, a : Send(o, t, a) /\ Good(o, t, a)
  BY DEF Sends
<1>2. /\ dialect' = dialect /\ view' = view /\ key' = key /\ pc' = "sent"
      /\ op' = o /\ text' = t /\ args' = a
  BY <1>1 DEF Send, choice
<1>4. Good(op, text, args)'
  <2>1. Numbered(text, args)'
    BY <1>1, <1>2 DEF Good, Numbered, Numbering, Placeholder
  <2>2. Parsed(op, text, args)'
    BY <1>1, <1>2 DEF Good, Parsed, Columns, HasPK
  <2>3. KeyListed(op, args)'
    BY <1>1, <1>2 DEF Good, KeyListed, IsRecord, HasPK, PKValue, Columns
  <2> QED  BY <2>1, <2>2, <2>3 DEF Good
<1>5. ViewOK' /\ KeyIsFilled'
  BY <1>2 DEF StatementInv, ViewOK, KeyIsFilled
<1> QED  BY <1>2, <1>4, <1>5 DEF StatementInv

LEMMA StatementInvInit == Init => StatementInv
BY DEF Init, StatementInv, ViewOK, KeyIsFilled

\* No statement that makes a row is answered here.
LEMMA OthersKeep == StatementInv /\ (NewRecord \/ Fails \/ Succeeds) => StatementInv'
<1> SUFFICES ASSUME StatementInv, NewRecord \/ Fails \/ Succeeds PROVE StatementInv'
  OBVIOUS
<1>1. dialect' = dialect /\ view' = view /\ pc' = "idle"
  BY DEF NewRecord, Fails, Succeeds, Answer, choice
<1>2. op' \notin {"Insert", "InsertColumns"} \/ err' # "nil"
  BY DEF NewRecord, Fails, Succeeds, Answer
<1> QED  BY <1>1, <1>2 DEF StatementInv, ViewOK, KeyIsFilled

LEMMA InsertSucceedsKeeps == StatementInv /\ InsertSucceeds => StatementInv'
<1> SUFFICES ASSUME StatementInv, InsertSucceeds PROVE StatementInv'
  OBVIOUS
<1> DEFINE listed == \E i \in DOMAIN text.slots : text.slots[i].to = PKValue
<1>1. pc = "sent" /\ op \in {"Insert", "InsertColumns"} /\ Good(op, text, args) /\ ViewOK
  BY DEF InsertSucceeds, StatementInv
<1>2. /\ dialect' = dialect /\ view' = view /\ keyType' = keyType /\ pc' = "idle" /\ op' = op
      /\ hadKey' = HasPK
  BY DEF InsertSucceeds, ReadKey, ReadLastInsertId, ReadReturned, Answer, choice
<1>3. IsRecord => /\ listed => HasPK /\ id' = key
                  /\ op = "Insert" /\ HasPK => listed
  <2> SUFFICES ASSUME IsRecord PROVE (listed => HasPK /\ id' = key) /\ (op = "Insert" /\ HasPK => listed)
    OBVIOUS
  <2>1. listed <=> \E i \in 1 .. Len(args) : args[i] = PKValue
    BY <1>1, NumberedBinds DEF Good
  <2>2. KeyListed(op, args)
    BY <1>1 DEF Good
  <2>3. listed => id' = key
    BY DEF InsertSucceeds
  <2> HIDE DEF listed
  <2> QED  BY <1>1, <2>1, <2>2, <2>3 DEF KeyListed
<1> HIDE DEF listed
<1>4. KeyIsFilled'
  <2> SUFFICES ASSUME IsRecord, err' = "nil"
               PROVE  \/ key' = id'
                      \/ /\ LastInsertIdMethod = "LastInsertId"
                         /\ (HasPK /\ op = "InsertColumns") \/ keyType = "string" \/ TooLarge(id')
    BY <1>2 DEF KeyIsFilled, IsRecord, LastInsertIdMethod, TooLarge
  <2>1. CASE LastInsertIdMethod = "LastInsertId" /\ ~HasPK
    <3>1. key' = IF keyType = "string" THEN key ELSE Convert(id')
      BY <2>1 DEF InsertSucceeds, ReadKey, ReadLastInsertId, SetPK
    <3> QED  BY <2>1, <3>1 DEF Convert
  <2>2. CASE LastInsertIdMethod = "LastInsertId" /\ HasPK
    <3>1. key' = key
      BY <2>2 DEF InsertSucceeds, ReadKey, ReadLastInsertId
    <3> QED  BY <1>1, <1>3, <2>2, <3>1
  <2>3. CASE LastInsertIdMethod # "LastInsertId"
    <3>1. key' = id'
      BY <2>3 DEF InsertSucceeds, ReadKey, ReadReturned, Answer
    <3> QED  BY <3>1
  <2> QED  BY <2>1, <2>2, <2>3
<1> QED  BY <1>1, <1>2, <1>4 DEF StatementInv, ViewOK

\* In every run a statement under way has its arguments in the order of its
\* slots, is one the server can parse, and lists the key of the record if, and
\* only if, an INSERT should.
LEMMA StatementInvariant == Spec => []StatementInv
<1>1. StatementInv /\ [Next]_vars => StatementInv'
  <2>1. StatementInv /\ Call => StatementInv'
    BY CallSends, SendsGood DEF StatementInv
  <2>2. StatementInv /\ UNCHANGED vars => StatementInv'
    <3> SUFFICES ASSUME StatementInv, UNCHANGED vars PROVE StatementInv'
      OBVIOUS
    <3>1. /\ dialect' = dialect /\ view' = view /\ keyType' = keyType /\ pc' = pc /\ op' = op
          /\ text' = text /\ args' = args /\ err' = err /\ key' = key /\ hadKey' = hadKey /\ id' = id
      BY DEF vars, choice
    <3>2. Good(op, text, args)' <=> Good(op, text, args)
      BY <3>1 DEF Good, Numbered, Numbering, Placeholder, Parsed, KeyListed, Columns, HasPK, IsRecord, PKValue
    <3>3. KeyIsFilled' <=> KeyIsFilled
      BY <3>1 DEF KeyIsFilled, IsRecord, LastInsertIdMethod, TooLarge
    <3> QED  BY <3>1, <3>2, <3>3 DEF StatementInv, ViewOK
  <2> QED  BY <2>1, <2>2, OthersKeep, InsertSucceedsKeeps DEF Next
<1> QED  BY <1>1, StatementInvInit, PTL DEF Spec

\* For any columns, any key among them and any number of arguments: the server
\* of every dialect puts each field into its own column, the key into the
\* condition and the caller's arguments where its tail has them
\* (querier_commands.go:8-51,219-282; dialects/).
THEOREM ValuesReachColumnsCorrect == Spec => []ValuesReachColumns
<1>1. StatementInv => ValuesReachColumns
  BY NumberedBinds DEF StatementInv, Good, ValuesReachColumns
<1> QED  BY <1>1, StatementInvariant, PTL

\* The server of each dialect can parse what is built for it, with the three
\* exceptions named there, whatever the table is.
THEOREM ServerUnderstandsCorrect == Spec => []ServerUnderstands
<1>1. StatementInv => ServerUnderstands
  BY DEF StatementInv, Good, Parsed, ServerUnderstands, Understands
<1> QED  BY <1>1, StatementInvariant, PTL

\* When an insert returns nil the record has the key of its row, for any key
\* the server generates and any width of the field, with the exceptions named.
THEOREM KeyIsFilledCorrect == Spec => []KeyIsFilled
<1>1. StatementInv => KeyIsFilled
  BY DEF StatementInv
<1> QED  BY <1>1, StatementInvariant, PTL

-----------------------------------------------------------------------------
\* What the generator writes is what the statements rely on

ViewOf(info) == [columns |-> [i \in DOMAIN info.fields |-> info.fields[i].column], pk |-> info.pk]

\* The information in a generated file is a view as the commands need it, so
\* that what is proved of statements holds of every table that is generated
\* (checkFields, parse/base.go:167-183, is what both rest on).
THEOREM GeneratedIsView ==
    StructSpec => [](generated # NotGenerated => IsView(ViewOf(generated)))
<1>1. StructInv => (generated # NotGenerated => IsView(ViewOf(generated)))
  <2> SUFFICES ASSUME StructInv, generated # NotGenerated PROVE IsView(ViewOf(generated))
    OBVIOUS
  <2>1. PICK decls \in Seq(Decl) : IsInfo(generated, decls)
    BY DEF StructInv
  <2>2. generated.fields \in Seq(Fields) /\ generated.pk \in 0 .. Len(generated.fields) /\ Unique(generated)
    BY <2>1, InfoFacts
  <2>3. generated.fields # << >>
    BY <2>1 DEF IsInfo, File, checkFields, Err
  <2> DEFINE v == ViewOf(generated)
  <2>4. /\ v.columns \in Seq(STRING) /\ Len(v.columns) = Len(generated.fields) /\ v.pk = generated.pk
        /\ DOMAIN v.columns = DOMAIN generated.fields
        /\ \A i \in DOMAIN v.columns : v.columns[i] = generated.fields[i].column
    <3>1. \A i \in 1 .. Len(generated.fields) : generated.fields[i] \in Fields
      BY <2>2
    <3>2. \A i \in 1 .. Len(generated.fields) : generated.fields[i].column \in STRING
      BY <3>1 DEF Fields
    <3> QED  BY <2>2, <3>2 DEF ViewOf
  <2> HIDE DEF v
  <2>5. v.columns # << >>
    BY <2>2, <2>3, <2>4, EmptySeq
  <2> QED  BY <2>2, <2>4, <2>5 DEF IsView, IsInjective, Unique, v
<1> QED  BY <1>1, StructInvariant, PTL
=============================================================================
