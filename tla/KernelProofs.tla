---------------------------- MODULE KernelProofs ----------------------------
(***************************************************************************)
(* Proofs about Kernels: for every set of rows a reader may make, and for  *)
(* every sequence of batches, what the kernels hand over is about the rows *)
(* they were given.  A visitor is a fold over the calls of a feature       *)
(* (Visited), so the proofs have three layers:                             *)
(*   - the folds: what holds at every call holds at the end of a feature;  *)
(*   - the visitors: what one feature leaves in the writer of text, in the *)
(*     boxes and in the mask of geometry types;                            *)
(*   - the kernel: KernelInv, that the visitor holds what it was told of   *)
(*     the rows no array has yet.                                          *)
(***************************************************************************)
EXTENDS Kernels, DataProofs

-----------------------------------------------------------------------------
(* The writer of well-known text.  Its state is well typed, and only the   *)
(* start and the end of a feature touch what says which rows are null.     *)
DimensionWord(d) == CHOOSE s \in DOMAIN DimensionWords : DimensionWords[s] = d
Token == {" ", ",", "(", ")", "EMPTY"} \cup {TypeWord(t) : t \in 1 .. 7}
         \cup {DimensionWord(d) : d \in 2 .. 4} \cup {Numeral(n) : n \in 0 .. 9}

FrameSet == [type : Int, n : Int]

Writers ==
  [open : Seq(FrameSet), values : Seq(Token), offsets : Seq(Nat), bitmap : Bitmap,
   length : Nat, nulls : Nat, from : Nat, isNull : BOOLEAN, flat : BOOLEAN, limit : Int]

SameFlags(v, w) ==
  v.bitmap = w.bitmap /\ v.length = w.length /\ v.nulls = w.nulls /\ v.isNull = w.isNull

(* A result that is well typed and leaves the flags alone. *)
Writes(r, w) == r.w \in Writers /\ SameFlags(r.w, w)

(* Sequences of one and of two. *)
LEMMA Tuples ==
  ASSUME NEW T
  PROVE  /\ \A a \in T : << a >> \in Seq(T)
         /\ \A a, b \in T : << a, b >> \in Seq(T)
         /\ << >> \in Seq(T)
OBVIOUS

(* The tokens of the parts of a row. *)
LEMMA TokenTypes ==
  /\ \A n : Opening(n) \in Seq(Token)
  /\ \A type \in 1 .. 7 : << TypeWord(type) >> \in Seq(Token)
  /\ \A type \in 1 .. 7, dims \in 1 .. 4 : TypeTokens(type, dims) \in Seq(Token)
  /\ \A w, bare : Closing(w, bare) \in Seq(Token)
  /\ << ",", " " >> \in Seq(Token)
<1>1. /\ " " \in Token /\ "," \in Token /\ "(" \in Token /\ ")" \in Token
      /\ "EMPTY" \in Token
      /\ \A type \in 1 .. 7 : TypeWord(type) \in Token
      /\ \A dims \in 2 .. 4 : DimensionWord(dims) \in Token
  BY Zenon DEF Token
<1>2. \A type \in 1 .. 7 : << TypeWord(type) >> \in Seq(Token)
  BY <1>1, Tuples, Zenon
<1>3. \A dims \in 1 .. 4 : DimensionTokens(dims) \in Seq(Token)
  <2>1. ASSUME NEW dims \in 2 .. 4
        PROVE  << " ", DimensionWord(dims) >> \in Seq(Token)
    BY <1>1, Tuples, Zenon
  <2>2. ASSUME NEW dims \in 1 .. 4, dims # 1
        PROVE  dims \in 2 .. 4
    BY <2>2
  <2>3. << >> \in Seq(Token)
    BY Tuples
  <2> QED
    BY <2>1, <2>2, <2>3, Zenon DEF DimensionTokens, DimensionWord
<1>4. << " " >> \in Seq(Token) /\ << ",", " " >> \in Seq(Token)
  BY <1>1, Tuples, Zenon
<1>5. ASSUME NEW type \in 1 .. 7, NEW dims \in 1 .. 4
      PROVE  TypeTokens(type, dims) \in Seq(Token)
  <2>1. PICK a, b, c : a = << TypeWord(type) >> /\ b = DimensionTokens(dims) /\ c = << " " >>
    OBVIOUS
  <2>2. a \in Seq(Token) /\ b \in Seq(Token) /\ c \in Seq(Token)
    BY <1>2, <1>3, <1>4, <2>1
  <2>3. a \o b \o c \in Seq(Token)
    BY <2>2
  <2> QED
    BY <2>1, <2>3 DEF TypeTokens
<1>6. ASSUME NEW n
      PROVE  Opening(n) \in Seq(Token)
  BY <1>1, Tuples, Zenon DEF Opening
<1>7. ASSUME NEW w, NEW bare
      PROVE  Closing(w, bare) \in Seq(Token)
  BY <1>1, Tuples, Zenon DEF Closing
<1> QED
  BY <1>2, <1>4, <1>5, <1>6, <1>7, Zenon

(* The tokens of a coordinate. *)
LEMMA CoordTokensType ==
  ASSUME NEW x \in 0 .. 9, NEW n \in Nat
  PROVE  CoordTokens(x, n) \in Seq(Token)
<1> DEFINE seqs == [j \in 1 .. n |->
               (IF j = 1 THEN << >> ELSE << " " >>) \o << Numeral(Ordinate(x, j)) >>]
<1>1. ASSUME NEW j \in 1 .. n
      PROVE  seqs[j] \in Seq(Token)
  <2>1. Ordinate(x, j) \in 0 .. 9
    BY DEF Ordinate
  <2>2. PICK a : a = Numeral(Ordinate(x, j))
    OBVIOUS
  <2>3. a \in Token /\ " " \in Token
    BY <2>1, <2>2, Zenon DEF Token
  <2>4. PICK p, q : p = (IF j = 1 THEN << >> ELSE << " " >>) /\ q = << a >>
    OBVIOUS
  <2>5. p \in Seq(Token) /\ q \in Seq(Token)
    BY <2>3, <2>4, Tuples, Zenon
  <2>6. seqs[j] = p \o q
    BY <2>2, <2>4, Zenon
  <2>7. p \o q \in Seq(Token)
    BY <2>5
  <2> HIDE DEF seqs
  <2> QED
    BY <2>6, <2>7
<1>2. seqs \in Seq(Seq(Token))
  <2>1. PICK W, t : W = Seq(Token) /\ t = seqs
    OBVIOUS
  <2>2. \A j \in 1 .. n : seqs[j] \in W
    BY <1>1, <2>1
  <2>3. t \in [1 .. n -> W]
    BY <2>1, <2>2
  <2>4. t \in Seq(W)
    BY <2>3
  <2> QED
    BY <2>1, <2>4
<1>3. << >> \in Seq(Token)
  OBVIOUS
<1>4. FlattenSeq(seqs) \in Seq(Token)
  <2> HIDE DEF seqs
  <2> QED
    BY <1>2, <1>3, FlattenAppend
<1> QED
  BY <1>4 DEF CoordTokens

(* Writing tokens and changing what is open. *)
LEMMA WriteTyped ==
  ASSUME NEW w \in Writers, NEW tokens \in Seq(Token)
  PROVE  /\ Write(w, tokens) \in Writers /\ SameFlags(Write(w, tokens), w)
         /\ Write(w, tokens).open = w.open /\ Write(w, tokens).limit = w.limit
         /\ Write(w, tokens).from = w.from /\ Write(w, tokens).flat = w.flat
<1>1. w.values \o tokens \in Seq(Token)
  BY DEF Writers
<1> QED
  BY <1>1 DEF Write, Writers, SameFlags

(* Starting and ending parts, and counting them. *)
LEMMA OpenTyped ==
  ASSUME NEW w \in Writers
  PROVE  /\ \A type \in 0 .. 7 : Started(w, type) \in Writers /\ SameFlags(Started(w, type), w)
         /\ w.open # << >> => Ended(w) \in Writers /\ SameFlags(Ended(w), w)
         /\ CountPart(w) \in Writers /\ SameFlags(CountPart(w), w)
<1>0. w.open \in Seq(FrameSet)
  BY DEF Writers
<1>1. ASSUME NEW open \in Seq(FrameSet), NEW v, v = [w EXCEPT !.open = open]
      PROVE  v \in Writers /\ SameFlags(v, w)
  BY <1>1 DEF Writers, SameFlags
<1>2. ASSUME NEW type \in 0 .. 7
      PROVE  Append(w.open, Frame(type)) \in Seq(FrameSet)
  <2>1. Frame(type) \in FrameSet
    BY DEF Frame, FrameSet
  <2> QED
    BY <1>0, <2>1
<1>3. ASSUME w.open # << >>
      PROVE  Front(w.open) \in Seq(FrameSet)
  <2>1. PICK s, n : s = w.open /\ n = Len(s) - 1
    OBVIOUS
  <2>2. s \in Seq(FrameSet) /\ n \in Nat /\ n <= Len(s)
    BY <1>0, <1>3, <2>1, EmptySeq
  <2>3. SubSeq(s, 1, n) \in Seq(FrameSet)
    BY <2>2
  <2> QED
    BY <2>1, <2>3 DEF Front
<1>4. ASSUME Len(w.open) > 1
      PROVE  CountPart(w) = [w EXCEPT !.open = [w.open EXCEPT ![Len(w.open) - 1].n = @ + 1]]
  BY <1>4 DEF CountPart, Writers
<1>5. ASSUME NEW k \in 1 .. Len(w.open)
      PROVE  [w.open EXCEPT ![k].n = @ + 1] \in Seq(FrameSet)
  <2>1. PICK s : s = w.open
    OBVIOUS
  <2>2. s \in Seq(FrameSet) /\ k \in 1 .. Len(s) /\ s[k] \in FrameSet
    BY <1>0, <2>1
  <2>3. PICK f : f = [s[k] EXCEPT !.n = @ + 1]
    OBVIOUS
  <2>4. f \in FrameSet
    <3>1. PICK g : g = s[k]
      OBVIOUS
    <3>2. g \in [type : Int, n : Int] /\ f = [g EXCEPT !.n = @ + 1]
      BY <2>2, <2>3, <3>1 DEF FrameSet
    <3>3. f = [type |-> g.type, n |-> g.n + 1]
      BY <3>2
    <3> QED
      BY <3>2, <3>3 DEF FrameSet
  <2>5. [s EXCEPT ![k] = f] \in Seq(FrameSet)
    BY <2>2, <2>4
  <2>6. [s EXCEPT ![k].n = @ + 1] = [s EXCEPT ![k] = f]
    BY <2>3
  <2> QED
    BY <2>1, <2>5, <2>6
<1>6. CountPart(w) \in Writers /\ SameFlags(CountPart(w), w)
  <2>1. CASE Len(w.open) > 1
    <3>1. Len(w.open) - 1 \in 1 .. Len(w.open)
      BY <1>0, <2>1
    <3>2. [w.open EXCEPT ![Len(w.open) - 1].n = @ + 1] \in Seq(FrameSet)
      BY <1>5, <3>1
    <3> QED
      BY <1>1, <1>4, <2>1, <3>2
  <2>2. CASE ~(Len(w.open) > 1)
    BY <2>2 DEF CountPart, SameFlags
  <2> QED
    BY <2>1, <2>2
<1>7. ASSUME NEW type \in 0 .. 7
      PROVE  Started(w, type) = [w EXCEPT !.open = Append(w.open, Frame(type))]
  BY DEF Started, Writers
<1>8. Ended(w) = [w EXCEPT !.open = Front(w.open)]
  BY DEF Ended, Writers
<1> QED
  BY <1>1, <1>2, <1>3, <1>6, <1>7, <1>8

(* The results of the writer's handlers. *)
Results == [code : {"ok", "EAGAIN", "EINVAL", "EOVERFLOW"}, w : Writers]

(* The loop over the coordinates of a call, step by step. *)
LEMMA WriteOthersFold ==
  ASSUME NEW w, NEW E, NEW seq \in Seq(E), NEW m, NEW S, Done(w) \in S,
         \A r \in S, x \in E : WriteOther(r, x, m) \in S,
         NEW at, Done(w) \in at[0], \A i \in 0 .. Len(seq) : at[i] \subseteq S,
         \A i \in 1 .. Len(seq) : \A r \in at[i - 1] : WriteOther(r, seq[i], m) \in at[i]
  PROVE  WriteOthers(w, seq, m) \in at[Len(seq)]
<1> DEFINE n == Len(seq)
           base == Done(w)
           g == [p \in S \X (1 .. n) |-> WriteOther(p[1], seq[p[2]], m)]
           next(f, s) == IF s = {} THEN base ELSE WriteOther(f[s \ {Max(s)}], seq[Max(s)], m)
           iter == CHOOSE f : f = [s \in SUBSET (1 .. n) |-> next(f, s)]
<1>1. n \in Nat /\ DOMAIN seq = 1 .. n /\ \A i \in 1 .. n : seq[i] \in E
  OBVIOUS
<1> HIDE DEF n
<1>2. g \in [S \X (1 .. n) -> S]
  BY <1>1
<1>3. WriteOthers(w, seq, m) = iter[1 .. n]
  <2>1. WriteOthers(w, seq, m) =
          (LET f[s \in SUBSET DOMAIN seq] == next(f, s) IN f[DOMAIN seq])
    BY DEF WriteOthers, FoldLeft, MapThenFoldSet
  <2> QED
    BY <1>1, <2>1
<1>4. \E f : f = [s \in SUBSET (1 .. n) |-> next(f, s)]
  <2>1. PICK f \in [SUBSET (1 .. n) -> S] : Iterates(f, n, base, g)
    <3> HIDE DEF g
    <3> QED
      BY <1>1, <1>2, LeftFoldExists
  <2>2. ASSUME NEW s \in SUBSET (1 .. n)
        PROVE  f[s] = next(f, s)
    <3>1. CASE s # {}
      <4>1. Max(s) \in 1 .. n /\ s \ {Max(s)} \in SUBSET (1 .. n)
        BY <1>1, <3>1, MaxOf
      <4>2. << f[s \ {Max(s)}], Max(s) >> \in S \X (1 .. n)
        BY <4>1
      <4>3. g[f[s \ {Max(s)}], Max(s)] = WriteOther(f[s \ {Max(s)}], seq[Max(s)], m)
        BY <4>2
      <4> HIDE DEF g
      <4> QED
        BY <2>1, <3>1, <4>3 DEF Iterates
    <3>2. CASE s = {}
      <4> HIDE DEF g
      <4> QED
        BY <2>1, <3>2 DEF Iterates
    <3> QED
      BY <3>1, <3>2
  <2> HIDE DEF next
  <2>3. f = [s \in SUBSET (1 .. n) |-> next(f, s)]
    BY <2>1, <2>2
  <2> QED
    BY <2>3
<1>5. \A s \in SUBSET (1 .. n) : iter[s] = next(iter, s)
  <2> HIDE DEF next
  <2>1. iter = [s \in SUBSET (1 .. n) |-> next(iter, s)]
    BY <1>4
  <2> HIDE DEF iter
  <2> QED
    BY <2>1
<1> HIDE DEF iter
<1> DEFINE h == [i \in 0 .. n |-> iter[1 .. i]]
<1>6. h[0] = base /\ h[n] = iter[1 .. n]
  <2>1. 1 .. 0 = {} /\ {} \in SUBSET (1 .. n) /\ 0 \in 0 .. n /\ n \in 0 .. n
    BY <1>1
  <2>2. iter[{}] = base
    BY <1>5, <2>1
  <2> QED
    BY <2>1, <2>2
<1>7. ASSUME NEW i \in 1 .. n
      PROVE  h[i] = WriteOther(h[i - 1], seq[i], m)
  <2> HIDE DEF base
  <2>1. /\ Max(1 .. i) = i /\ (1 .. i) \ {i} = 1 .. i - 1 /\ 1 .. i # {}
        /\ 1 .. i \in SUBSET (1 .. n)
    BY <1>1, PrefixSteps
  <2>2. iter[1 .. i] = WriteOther(iter[1 .. i - 1], seq[i], m)
    BY <1>5, <2>1
  <2>3. i \in 0 .. n /\ i - 1 \in 0 .. n
    BY <1>1
  <2> QED
    BY <2>2, <2>3
<1> HIDE DEF h
<1> DEFINE reached == {i \in 0 .. n : h[i] \in at[i]}
<1>8. 0 \in reached
  BY <1>1, <1>6 DEF base
<1>9. ASSUME NEW i \in 0 .. n - 1, i \in reached
      PROVE  i + 1 \in reached
  <2>1. i + 1 \in 1 .. n /\ (i + 1) - 1 = i /\ i + 1 \in 0 .. n
    BY <1>1
  <2>2. h[i] \in at[i] /\ h[i + 1] = WriteOther(h[i], seq[i + 1], m)
    BY <1>7, <1>9, <2>1
  <2>3. \A r \in at[i] : WriteOther(r, seq[i + 1], m) \in at[i + 1]
    BY <2>1 DEF n
  <2> QED
    BY <2>1, <2>2, <2>3
<1> HIDE DEF reached
<1>10. \A i \in 0 .. n : i \in reached
  BY <1>1, <1>8, <1>9, IntervalInduction
<1>11. h[n] \in at[n]
  BY <1>1, <1>10 DEF reached
<1> QED
  BY <1>3, <1>6, <1>11 DEF n

(* The coordinates of a call after the first. *)
LEMMA WriteOthersTyped ==
  ASSUME NEW w \in Writers, NEW xs \in Seq(0 .. 9), NEW m \in Nat
  PROVE  LET r == WriteOthers(w, xs, m)
         IN Writes(r, w) /\ r.w.open = w.open /\ r \in Results /\ r.code \in {"ok", "EAGAIN"}
<1> DEFINE S == {r \in [code : {"ok", "EAGAIN"}, w : Writers] :
                   SameFlags(r.w, w) /\ r.w.open = w.open}
<1>1. Done(w) \in S
  BY DEF Done, Result, SameFlags
<1>2. ASSUME NEW r \in S, NEW x \in 0 .. 9
      PROVE  WriteOther(r, x, m) \in S
  <2>1. r.w \in Writers /\ SameFlags(r.w, w) /\ r.w.open = w.open /\ r.code \in {"ok", "EAGAIN"}
    OBVIOUS
  <2>2. PICK tokens : tokens = << ",", " " >> \o CoordTokens(x, m)
    OBVIOUS
  <2>3. tokens \in Seq(Token)
    <3>1. PICK a, b : a = << ",", " " >> /\ b = CoordTokens(x, m)
      OBVIOUS
    <3>2. a \in Seq(Token) /\ b \in Seq(Token)
      BY <3>1, TokenTypes, CoordTokensType
    <3>3. a \o b \in Seq(Token)
      BY <3>2
    <3> QED
      BY <2>2, <3>1, <3>3
  <2>4. PICK v : v = Write(r.w, tokens)
    OBVIOUS
  <2>5. v \in Writers /\ SameFlags(v, w) /\ v.open = w.open
    BY <2>1, <2>3, <2>4, WriteTyped DEF SameFlags
  <2>6. Done(v) \in S
    BY <2>5 DEF Done, Result
  <2>7. Result("EAGAIN", r.w) \in S
    BY <2>1 DEF Result
  <2>8. WriteOther(r, x, m) =
          IF r.code # "ok" THEN r
          ELSE IF LimitReached(r.w) THEN Result("EAGAIN", r.w) ELSE Done(v)
    BY <2>2, <2>4 DEF WriteOther
  <2> HIDE DEF S
  <2> QED
    BY <2>6, <2>7, <2>8
<1>3. WriteOthers(w, xs, m) \in S
  <2> DEFINE at == [i \in 0 .. Len(xs) |-> S]
  <2> HIDE DEF S
  <2>1. Len(xs) \in Nat /\ at[Len(xs)] = S /\ \A i \in 0 .. Len(xs) : at[i] = S
    OBVIOUS
  <2>2. /\ Done(w) \in at[0] /\ \A i \in 0 .. Len(xs) : at[i] \subseteq S
        /\ \A i \in 1 .. Len(xs) : \A r \in at[i - 1] : WriteOther(r, xs[i], m) \in at[i]
    BY <1>1, <1>2
  <2> HIDE DEF at
  <2> QED
    BY <1>1, <1>2, <2>1, <2>2, WriteOthersFold
<1> QED
  BY <1>3 DEF Writes, Results

(* Coordinates are written and counted. *)
LEMMA CoordsTyped ==
  ASSUME NEW w \in Writers, NEW xs \in Seq(0 .. 9), NEW m \in Nat
  PROVE  LET r == coords_wkt(w, xs, m)
         IN /\ Writes(r, w) /\ r \in Results
            /\ r.code = "EAGAIN" => xs # << >>
<1>1. /\ Writes(Done(w), w) /\ Done(w) \in Results /\ Done(w).code = "ok"
      /\ Writes(Invalid(w), w) /\ Invalid(w) \in Results /\ Invalid(w).code = "EINVAL"
  BY DEF Results, Writes, Done, Invalid, Result, SameFlags
<1>2. CASE xs = << >> \/ ~LevelFits(w)
  BY <1>1, <1>2 DEF coords_wkt
<1>3. CASE xs # << >> /\ LevelFits(w)
  <2>1. Head(xs) \in 0 .. 9 /\ Tail(xs) \in Seq(0 .. 9) /\ Len(xs) \in Nat
    BY <1>3
  <2>2. PICK a, b, tokens : a = FirstOpening(w) /\ b = CoordTokens(Head(xs), m) /\ tokens = a \o b
    OBVIOUS
  <2>3. a \in Seq(Token)
    BY <2>2, TokenTypes, Tuples DEF FirstOpening
  <2>4. b \in Seq(Token)
    BY <2>1, <2>2, CoordTokensType
  <2>5. tokens \in Seq(Token)
    BY <2>2, <2>3, <2>4
  <2>6. PICK first, r : first = Write(w, tokens) /\ r = WriteOthers(first, Tail(xs), m)
    OBVIOUS
  <2>7. first \in Writers /\ SameFlags(first, w) /\ first.open = w.open
    BY <2>5, <2>6, WriteTyped
  <2>8. Writes(r, first) /\ r.w.open = w.open /\ r \in Results
    BY <2>1, <2>6, <2>7, WriteOthersTyped
  <2>9. coords_wkt(w, xs, m) = IF r.code = "ok"
                               THEN Done([r.w EXCEPT !.open[Len(w.open)].n = @ + Len(xs)])
                               ELSE r
    BY <1>3, <2>2, <2>6 DEF coords_wkt
  <2>10. PICK v : v = [r.w EXCEPT !.open[Len(w.open)].n = @ + Len(xs)]
    OBVIOUS
  <2>11. v \in Writers /\ SameFlags(v, r.w)
    <3>1. r.w \in Writers /\ w.open \in Seq(FrameSet) /\ Len(w.open) \in 1 .. Len(w.open)
      BY <1>3, <2>8 DEF Writes, Writers, LevelFits
    <3>2. PICK s, k : s = w.open /\ k = Len(s)
      OBVIOUS
    <3>3. s \in Seq(FrameSet) /\ k \in 1 .. Len(s) /\ s[k] \in [type : Int, n : Int]
      <4>1. s \in Seq(FrameSet) /\ k \in 1 .. Len(s)
        BY <3>1, <3>2
      <4>2. s[k] \in FrameSet
        BY <4>1
      <4> QED
        BY <4>1, <4>2 DEF FrameSet
    <3>4. PICK f : f = [type |-> s[k].type, n |-> s[k].n + Len(xs)]
      OBVIOUS
    <3>5. f \in FrameSet /\ f = [s[k] EXCEPT !.n = @ + Len(xs)]
      <4>1. PICK u, i : u = s[k] /\ i = u.n + Len(xs)
        OBVIOUS
      <4>2. u \in [type : Int, n : Int]
        BY <3>3, <4>1
      <4>3. i \in Int
        BY <2>1, <4>1, <4>2
      <4>4. f = [type |-> u.type, n |-> i]
        BY <3>4, <4>1
      <4>5. f \in FrameSet
        BY <4>2, <4>3, <4>4 DEF FrameSet
      <4>6. f = [u EXCEPT !.n = i]
        BY <4>2, <4>4
      <4> QED
        BY <4>1, <4>5, <4>6
    <3>6. [s EXCEPT ![k] = f] \in Seq(FrameSet)
      BY <3>3, <3>5
    <3>7. [s EXCEPT ![k].n = @ + Len(xs)] = [s EXCEPT ![k] = f]
      BY <3>5
    <3>8. PICK u : u = r.w
      OBVIOUS
    <3>9. u \in Writers /\ u.open = s /\ v = [u EXCEPT !.open = [s EXCEPT ![k].n = @ + Len(xs)]]
      BY <2>8, <2>10, <3>1, <3>2, <3>8 DEF Writers
    <3>10. v = [u EXCEPT !.open = [s EXCEPT ![k] = f]]
      BY <3>7, <3>9
    <3>11. v \in Writers /\ SameFlags(v, u)
      BY <3>6, <3>9, <3>10 DEF Writers, SameFlags
    <3> QED
      BY <3>8, <3>11
  <2>12. Writes(Done(v), w) /\ Writes(r, w) /\ Done(v) \in Results
    BY <2>7, <2>8, <2>11 DEF Results, Writes, Done, Result, SameFlags
  <2> QED
    BY <1>3, <2>8, <2>9, <2>10, <2>12
<1> QED
  BY <1>2, <1>3

(* The end of a feature: the row is marked. *)
Marked(bitmap, isNull, n) == IF isNull THEN MarkNull(bitmap, n) ELSE MarkValid(bitmap)
Marks(v, w, isNull) ==
  /\ v.bitmap = Marked(w.bitmap, isNull, w.length)
  /\ v.nulls = IF isNull THEN w.nulls + 1 ELSE w.nulls
  /\ v.length = w.length

(* A feature starts: it is counted, and its flags are those of no null. *)
LEMMA FeatStartText ==
  ASSUME NEW w \in Writers
  PROVE  LET r == feat_start_wkt(w)
         IN /\ r \in Results /\ r.code # "EAGAIN"
            /\ r.w.bitmap = w.bitmap /\ r.w.nulls = w.nulls
            /\ r.w.length = w.length + 1 /\ ~r.w.isNull
<1>0. PICK n, m, open : n = w.length + 1 /\ m = Len(w.values) /\ open = << >>
  OBVIOUS
<1> DEFINE v == [w EXCEPT !.open = open, !.length = n, !.isNull = FALSE, !.from = m]
           u == [v EXCEPT !.offsets = Append(@, Len(v.values))]
<1>1. /\ v \in Writers /\ v.bitmap = w.bitmap /\ v.nulls = w.nulls
      /\ v.length = w.length + 1 /\ v.isNull = FALSE
  <2>1. n \in Nat /\ m \in Nat /\ open \in Seq(FrameSet)
    BY <1>0 DEF Writers
  <2> QED
    BY <1>0, <2>1 DEF Writers
<1>2. /\ u \in Writers /\ u.bitmap = v.bitmap /\ u.nulls = v.nulls
      /\ u.length = v.length /\ u.isNull = v.isNull
  <2> HIDE DEF v
  <2>1. Append(v.offsets, Len(v.values)) \in Seq(Nat)
    BY <1>1 DEF Writers
  <2> QED
    BY <1>1, <2>1 DEF Writers
<1>3. feat_start_wkt(w) = IF Len(v.values) > MaxTextSize THEN Result("EOVERFLOW", v) ELSE Done(u)
  BY <1>0 DEF feat_start_wkt, Writers
<1> HIDE DEF u, v
<1> QED
  BY <1>1, <1>2, <1>3 DEF Result, Done, Results

(* A feature ends: its row is marked. *)
LEMMA FeatEndText ==
  ASSUME NEW w \in Writers
  PROVE  LET r == feat_end_wkt(w)
         IN r \in Results /\ r.code = "ok" /\ Marks(r.w, w, w.isNull)
<1>1. w.bitmap \in Bitmap /\ w.length \in Nat /\ w.nulls \in Nat /\ w.isNull \in BOOLEAN
  BY DEF Writers
<1>2. CASE w.isNull
  <2>1. PICK b : b = MarkNull(w.bitmap, w.length)
    OBVIOUS
  <2>2. b \in Bitmap
    BY <1>1, <2>1, BitmapTypes
  <2>3. PICK n, v : n = w.nulls + 1 /\ v = [w EXCEPT !.bitmap = b, !.nulls = n]
    OBVIOUS
  <2>4. v \in Writers /\ v.bitmap = b /\ v.nulls = w.nulls + 1 /\ v.length = w.length
    <3>1. n \in Nat
      BY <1>1, <2>3
    <3> QED
      BY <2>2, <2>3, <3>1 DEF Writers
  <2>5. feat_end_wkt(w) = Done(v)
    <3>1. v = [w EXCEPT !.bitmap = MarkNull(@, w.length), !.nulls = @ + 1]
      BY <2>1, <2>3 DEF Writers
    <3>2. feat_end_wkt(w) = Done([w EXCEPT !.bitmap = MarkNull(@, w.length), !.nulls = @ + 1])
      BY <1>2 DEF feat_end_wkt
    <3> QED
      BY <3>1, <3>2, Zenon
  <2> QED
    BY <1>2, <2>1, <2>4, <2>5 DEF Done, Result, Results, Marks, Marked
<1>3. CASE ~w.isNull /\ w.bitmap.data
  <2>1. PICK b : b = MarkValid(w.bitmap)
    OBVIOUS
  <2>2. b \in Bitmap
    BY <1>1, <2>1, BitmapTypes
  <2>3. PICK v : v = [w EXCEPT !.bitmap = b]
    OBVIOUS
  <2>4. v \in Writers /\ v.bitmap = b /\ v.nulls = w.nulls /\ v.length = w.length
    BY <2>2, <2>3 DEF Writers
  <2>5. feat_end_wkt(w) = Done(v)
    BY <1>3, <2>1, <2>3 DEF feat_end_wkt, Writers
  <2> QED
    BY <1>3, <2>1, <2>4, <2>5 DEF Done, Result, Results, Marks, Marked
<1>4. CASE ~w.isNull /\ ~w.bitmap.data
  <2>1. feat_end_wkt(w) = Done(Truncated(w))
    BY <1>4 DEF feat_end_wkt
  <2>2. Truncated(w) \in Writers /\ SameFlags(Truncated(w), w)
    <3>1. CASE Truncated(w) = w
      BY <3>1 DEF SameFlags
    <3>2. CASE Truncated(w) = [w EXCEPT !.values = SubSeq(@, 1, w.from + w.limit)]
               /\ Len(w.values) - w.from > w.limit
      <4>1. PICK s, n : s = w.values /\ n = w.from + w.limit
        OBVIOUS
      <4>2. s \in Seq(Token) /\ n \in Int /\ n < Len(s)
        BY <3>2, <4>1 DEF Writers
      <4>3. SubSeq(s, 1, n) \in Seq(Token)
        <5>1. CASE n >= 1
          BY <4>2, <5>1
        <5>2. CASE n < 1
          <6>1. SubSeq(s, 1, n) = << >>
            BY <4>2, <5>2
          <6>2. << >> \in Seq(Token)
            OBVIOUS
          <6> QED
            BY <6>1, <6>2, Zenon
        <5> QED
          BY <4>2, <5>1, <5>2
      <4>4. Truncated(w) = [w EXCEPT !.values = SubSeq(s, 1, n)]
        BY <3>2, <4>1 DEF Writers
      <4> QED
        BY <4>3, <4>4 DEF Writers, SameFlags
    <3> QED
      BY <3>1, <3>2 DEF Truncated
  <2>3. MarkValid(w.bitmap) = w.bitmap
    BY <1>4 DEF MarkValid
  <2> QED
    BY <1>4, <2>1, <2>2, <2>3 DEF Done, Result, Results, Marks, Marked, SameFlags
<1> QED
  BY <1>1, <1>2, <1>3, <1>4

(* A geometry starts. *)
LEMMA GeomStartTyped ==
  ASSUME NEW w \in Writers, NEW type \in 0 .. 7, NEW dims \in 1 .. 4
  PROVE  LET r == geom_start_wkt(w, type, dims)
         IN r \in Results /\ SameFlags(r.w, w) /\ r.code # "EAGAIN"
<1>1. PICK s : s = Started(w, type)
  OBVIOUS
<1>2. s \in Writers /\ SameFlags(s, w)
  BY <1>1, OpenTyped
<1>3. PICK t : t = IF Len(s.open) > 1 THEN Write(s, Opening(Outer(s).n)) ELSE s
  OBVIOUS
<1>4. t \in Writers /\ SameFlags(t, w)
  <2>1. PICK tokens : tokens = Opening(Outer(s).n)
    OBVIOUS
  <2>2. tokens \in Seq(Token)
    BY <2>1, TokenTypes
  <2>3. Write(s, tokens) \in Writers /\ SameFlags(Write(s, tokens), s)
    BY <1>2, <2>2, WriteTyped
  <2> QED
    BY <1>2, <1>3, <2>1, <2>3 DEF SameFlags
<1>5. geom_start_wkt(w, type, dims) =
        IF ~LevelFits(s) THEN Invalid(s)
        ELSE IF ~NeedsTypeWord(t) THEN Done(CountPart(t))
        ELSE IF type \notin 1 .. 7 THEN Invalid(t)
        ELSE Done(CountPart(Write(t, TypeTokens(type, dims))))
  BY <1>1, <1>3 DEF geom_start_wkt
<1>6. CountPart(t) \in Writers /\ SameFlags(CountPart(t), w)
  BY <1>4, OpenTyped DEF SameFlags
<1>7. ASSUME type \in 1 .. 7
      PROVE  LET u == CountPart(Write(t, TypeTokens(type, dims)))
             IN u \in Writers /\ SameFlags(u, w)
  <2>1. PICK tokens : tokens = TypeTokens(type, dims)
    OBVIOUS
  <2>2. tokens \in Seq(Token)
    BY <1>7, <2>1, TokenTypes
  <2>3. PICK u : u = Write(t, tokens)
    OBVIOUS
  <2>4. u \in Writers /\ SameFlags(u, w)
    BY <1>4, <2>2, <2>3, WriteTyped DEF SameFlags
  <2>5. CountPart(u) \in Writers /\ SameFlags(CountPart(u), w)
    BY <2>4, OpenTyped DEF SameFlags
  <2> QED
    BY <2>1, <2>3, <2>5
<1>8. /\ \A u \in Writers : SameFlags(u, w) =>
           /\ Done(u) \in Results /\ Done(u).code = "ok" /\ SameFlags(Done(u).w, w)
           /\ Invalid(u) \in Results /\ Invalid(u).code = "EINVAL" /\ SameFlags(Invalid(u).w, w)
  BY DEF Done, Invalid, Result, Results
<1>9. CASE type \in 1 .. 7
  <2>1. PICK u : u = CountPart(Write(t, TypeTokens(type, dims)))
    OBVIOUS
  <2>2. u \in Writers /\ SameFlags(u, w)
    BY <1>7, <1>9, <2>1
  <2>3. geom_start_wkt(w, type, dims) \in {Invalid(s), Done(CountPart(t)), Done(u)}
    BY <1>5, <1>9, <2>1
  <2> QED
    BY <1>2, <1>4, <1>6, <1>8, <2>2, <2>3
<1>10. CASE type \notin 1 .. 7
  <2>1. geom_start_wkt(w, type, dims) \in {Invalid(s), Done(CountPart(t)), Invalid(t)}
    BY <1>5, <1>10
  <2> QED
    BY <1>2, <1>4, <1>6, <1>8, <2>1
<1> QED
  BY <1>9, <1>10

(* A ring starts, and a part ends. *)
LEMMA PartsTyped ==
  ASSUME NEW w \in Writers
  PROVE  /\ LET r == ring_start_wkt(w)
            IN r \in Results /\ SameFlags(r.w, w) /\ r.code # "EAGAIN"
         /\ LET r == ring_end_wkt(w)
            IN r \in Results /\ SameFlags(r.w, w) /\ r.code # "EAGAIN"
         /\ LET r == geom_end_wkt(w)
            IN r \in Results /\ SameFlags(r.w, w) /\ r.code # "EAGAIN"
<1>1. /\ \A u \in Writers : SameFlags(u, w) =>
           /\ Done(u) \in Results /\ Done(u).code = "ok" /\ SameFlags(Done(u).w, w)
           /\ Invalid(u) \in Results /\ Invalid(u).code = "EINVAL" /\ SameFlags(Invalid(u).w, w)
  BY DEF Done, Invalid, Result, Results
<1>2. LET r == ring_start_wkt(w)
      IN r \in Results /\ SameFlags(r.w, w) /\ r.code # "EAGAIN"
  <2>1. PICK s : s = Started(w, RING)
    OBVIOUS
  <2>2. s \in Writers /\ SameFlags(s, w)
    BY <2>1, OpenTyped DEF RING
  <2>3. PICK tokens : tokens = Opening(Outer(s).n)
    OBVIOUS
  <2>4. tokens \in Seq(Token)
    BY <2>3, TokenTypes
  <2>5. PICK u : u = Write(s, tokens)
    OBVIOUS
  <2>6. u \in Writers /\ SameFlags(u, w)
    BY <2>2, <2>4, <2>5, WriteTyped DEF SameFlags
  <2>7. CountPart(u) \in Writers /\ SameFlags(CountPart(u), w)
    BY <2>6, OpenTyped DEF SameFlags
  <2>8. ring_start_wkt(w) \in {Done(CountPart(u)), Invalid(s)}
    BY <2>1, <2>3, <2>5 DEF ring_start_wkt
  <2> QED
    BY <1>1, <2>2, <2>7, <2>8
<1>3. ASSUME NEW bare
      PROVE  LET r == EndOfPart(w, bare)
             IN r \in Results /\ SameFlags(r.w, w) /\ r.code # "EAGAIN"
  <2>1. PICK tokens : tokens = Closing(w, bare)
    OBVIOUS
  <2>2. tokens \in Seq(Token)
    BY <2>1, TokenTypes
  <2>3. PICK u : u = Write(w, tokens)
    OBVIOUS
  <2>4. u \in Writers /\ SameFlags(u, w) /\ u.open = w.open
    BY <2>2, <2>3, WriteTyped
  <2>5. LevelFits(w) => Ended(u) \in Writers /\ SameFlags(Ended(u), w)
    <3>1. LevelFits(w) => u.open # << >>
      BY <2>4 DEF LevelFits
    <3> QED
      BY <2>4, <3>1, OpenTyped DEF SameFlags
  <2>6. SameFlags(w, w)
    BY DEF SameFlags
  <2>7. EndOfPart(w, bare) = IF LevelFits(w) THEN Done(Ended(u)) ELSE Invalid(w)
    BY <2>1, <2>3 DEF EndOfPart
  <2> QED
    BY <1>1, <2>5, <2>6, <2>7
<1> QED
  BY <1>2, <1>3 DEF ring_end_wkt, geom_end_wkt

(* What the callbacks of the visitor do to what says which rows are null. *)
LEMMA WriterHandles ==
  ASSUME NEW w \in Writers, NEW c \in Calls
  PROVE  LET r == HandleWKT(w, c)
         IN /\ r \in Results
            /\ r.code = "EAGAIN" => c.op = "coords" /\ c.xs # << >>
            /\ c.op = "feat_start" =>
                 /\ r.w.bitmap = w.bitmap /\ r.w.nulls = w.nulls
                 /\ r.w.length = w.length + 1 /\ ~r.w.isNull
            /\ c.op = "null_feat" =>
                 /\ r.w.bitmap = w.bitmap /\ r.w.nulls = w.nulls
                 /\ r.w.length = w.length /\ r.w.isNull
            /\ c.op = "feat_end" => r.code = "ok" /\ Marks(r.w, w, w.isNull)
            /\ c.op \notin {"feat_start", "null_feat", "feat_end"} => SameFlags(r.w, w)
<1>1. /\ c.op \in Ops /\ c.type \in 0 .. 7 /\ c.dims \in 1 .. 4 /\ c.xs \in Seq(0 .. 9)
      /\ NumDimensions(c.dims) \in Nat
  BY DEF Calls, NumDimensions
<1>2. CASE c.op = "feat_start"
  BY <1>2, FeatStartText DEF HandleWKT
<1>3. CASE c.op = "null_feat"
  <2>1. PICK v : v = [w EXCEPT !.isNull = TRUE]
    OBVIOUS
  <2>2. v \in Writers /\ v.bitmap = w.bitmap /\ v.nulls = w.nulls /\ v.length = w.length /\ v.isNull
    BY <2>1 DEF Writers
  <2>3. HandleWKT(w, c) = Done(v)
    BY <1>3, <2>1 DEF HandleWKT, null_feat_wkt
  <2> QED
    BY <1>3, <2>2, <2>3 DEF Done, Result, Results
<1>4. CASE c.op = "geom_start"
  BY <1>1, <1>4, GeomStartTyped DEF HandleWKT
<1>5. CASE c.op = "ring_start"
  BY <1>5, PartsTyped DEF HandleWKT
<1>6. CASE c.op = "coords"
  <2>1. PICK n, r : n = NumDimensions(c.dims) /\ r = coords_wkt(w, c.xs, n)
    OBVIOUS
  <2>2. Writes(r, w) /\ r \in Results /\ (r.code = "EAGAIN" => c.xs # << >>)
    BY <1>1, <2>1, CoordsTyped
  <2>3. HandleWKT(w, c) = r
    BY <1>6, <2>1 DEF HandleWKT
  <2> QED
    BY <1>6, <2>2, <2>3 DEF Writes
<1>7. CASE c.op = "ring_end"
  BY <1>7, PartsTyped DEF HandleWKT
<1>8. CASE c.op = "geom_end"
  BY <1>8, PartsTyped DEF HandleWKT
<1>9. CASE c.op = "feat_end"
  BY <1>9, FeatEndText DEF HandleWKT
<1> QED
  BY <1>1, <1>2, <1>3, <1>4, <1>5, <1>6, <1>7, <1>8, <1>9 DEF Ops

(* The visit of a row, call by call. *)
LEMMA HearFold ==
  ASSUME NEW w, NEW E, NEW seq \in Seq(E), NEW S, Done(w) \in S,
         \A r \in S, x \in E : Hear(r, x) \in S,
         NEW at, Done(w) \in at[0], \A i \in 0 .. Len(seq) : at[i] \subseteq S,
         \A i \in 1 .. Len(seq) : \A r \in at[i - 1] : Hear(r, seq[i]) \in at[i]
  PROVE  Visited(w, seq) \in at[Len(seq)]
<1> DEFINE n == Len(seq)
           base == Done(w)
           g == [p \in S \X (1 .. n) |-> Hear(p[1], seq[p[2]])]
           next(f, s) == IF s = {} THEN base ELSE Hear(f[s \ {Max(s)}], seq[Max(s)])
           iter == CHOOSE f : f = [s \in SUBSET (1 .. n) |-> next(f, s)]
<1>1. n \in Nat /\ DOMAIN seq = 1 .. n /\ \A i \in 1 .. n : seq[i] \in E
  OBVIOUS
<1> HIDE DEF n
<1>2. g \in [S \X (1 .. n) -> S]
  BY <1>1
<1>3. Visited(w, seq) = iter[1 .. n]
  <2>1. Visited(w, seq) =
          (LET f[s \in SUBSET DOMAIN seq] == next(f, s) IN f[DOMAIN seq])
    BY DEF Visited, FoldLeft, MapThenFoldSet
  <2> QED
    BY <1>1, <2>1
<1>4. \E f : f = [s \in SUBSET (1 .. n) |-> next(f, s)]
  <2>1. PICK f \in [SUBSET (1 .. n) -> S] : Iterates(f, n, base, g)
    <3> HIDE DEF g
    <3> QED
      BY <1>1, <1>2, LeftFoldExists
  <2>2. ASSUME NEW s \in SUBSET (1 .. n)
        PROVE  f[s] = next(f, s)
    <3>1. CASE s # {}
      <4>1. Max(s) \in 1 .. n /\ s \ {Max(s)} \in SUBSET (1 .. n)
        BY <1>1, <3>1, MaxOf
      <4>2. << f[s \ {Max(s)}], Max(s) >> \in S \X (1 .. n)
        BY <4>1
      <4>3. g[f[s \ {Max(s)}], Max(s)] = Hear(f[s \ {Max(s)}], seq[Max(s)])
        BY <4>2
      <4> HIDE DEF g
      <4> QED
        BY <2>1, <3>1, <4>3 DEF Iterates
    <3>2. CASE s = {}
      <4> HIDE DEF g
      <4> QED
        BY <2>1, <3>2 DEF Iterates
    <3> QED
      BY <3>1, <3>2
  <2> HIDE DEF next
  <2>3. f = [s \in SUBSET (1 .. n) |-> next(f, s)]
    BY <2>1, <2>2
  <2> QED
    BY <2>3
<1>5. \A s \in SUBSET (1 .. n) : iter[s] = next(iter, s)
  <2> HIDE DEF next
  <2>1. iter = [s \in SUBSET (1 .. n) |-> next(iter, s)]
    BY <1>4
  <2> HIDE DEF iter
  <2> QED
    BY <2>1
<1> HIDE DEF iter
<1> DEFINE h == [i \in 0 .. n |-> iter[1 .. i]]
<1>6. h[0] = base /\ h[n] = iter[1 .. n]
  <2>1. 1 .. 0 = {} /\ {} \in SUBSET (1 .. n) /\ 0 \in 0 .. n /\ n \in 0 .. n
    BY <1>1
  <2>2. iter[{}] = base
    BY <1>5, <2>1
  <2> QED
    BY <2>1, <2>2
<1>7. ASSUME NEW i \in 1 .. n
      PROVE  h[i] = Hear(h[i - 1], seq[i])
  <2> HIDE DEF base
  <2>1. /\ Max(1 .. i) = i /\ (1 .. i) \ {i} = 1 .. i - 1 /\ 1 .. i # {}
        /\ 1 .. i \in SUBSET (1 .. n)
    BY <1>1, PrefixSteps
  <2>2. iter[1 .. i] = Hear(iter[1 .. i - 1], seq[i])
    BY <1>5, <2>1
  <2>3. i \in 0 .. n /\ i - 1 \in 0 .. n
    BY <1>1
  <2> QED
    BY <2>2, <2>3
<1> HIDE DEF h
<1> DEFINE reached == {i \in 0 .. n : h[i] \in at[i]}
<1>8. 0 \in reached
  BY <1>1, <1>6 DEF base
<1>9. ASSUME NEW i \in 0 .. n - 1, i \in reached
      PROVE  i + 1 \in reached
  <2>1. i + 1 \in 1 .. n /\ (i + 1) - 1 = i /\ i + 1 \in 0 .. n
    BY <1>1
  <2>2. h[i] \in at[i] /\ h[i + 1] = Hear(h[i], seq[i + 1])
    BY <1>7, <1>9, <2>1
  <2>3. \A r \in at[i] : Hear(r, seq[i + 1]) \in at[i + 1]
    BY <2>1 DEF n
  <2> QED
    BY <2>1, <2>2, <2>3
<1> HIDE DEF reached
<1>10. \A i \in 0 .. n : i \in reached
  BY <1>1, <1>8, <1>9, IntervalInduction
<1>11. h[n] \in at[n]
  BY <1>1, <1>10 DEF reached
<1> QED
  BY <1>3, <1>6, <1>11 DEF n

-----------------------------------------------------------------------------
(* What the calls of a row are, whatever visits it.                        *)
Before(row, op, i) == \E k \in 1 .. i : row.calls[k].op = op

(* What KernelAssumption says of the calls of a row. *)
LEMMA CallsOfRow ==
  ASSUME NEW row \in Rows
  PROVE  /\ row.calls \in Seq(Calls) /\ Len(row.calls) \in Nat
         /\ row.null \in BOOLEAN
         /\ \A i \in 1 .. Len(row.calls) :
              /\ row.calls[i] \in Calls
              /\ row.calls[i].op = "feat_start" <=> i = 1
              /\ row.calls[i].op = "feat_end" => i = Len(row.calls)
              /\ row.calls[i].op = "geom_start" => row.calls[i].type \in 1 .. 7
              /\ row.calls[i].op = "null_feat" => row.null
              /\ row.null => row.calls[i].op \in {"feat_start", "null_feat", "feat_end"}
              /\ row.calls[i].xs # << >> =>
                   row.calls[i].op = "coords" /\ Before(row, "geom_start", i)
         /\ Has(row.calls, "feat_end") =>
              /\ Len(row.calls) > 1 /\ row.calls[Len(row.calls)].op = "feat_end"
              /\ row.null = Before(row, "null_feat", Len(row.calls) - 1)
<1>1. IsRow(row)
  BY KernelAssumption
<1>2. PICK s, n : s = row.calls /\ n = Len(s)
  OBVIOUS
<1>3. s \in Seq(Calls) /\ n \in Nat /\ DOMAIN s = 1 .. n /\ row.null \in BOOLEAN
  BY <1>1, <1>2 DEF IsRow
<1>4. \A i \in 1 .. n : IsCallOf(row, i)
  BY <1>1, <1>2, <1>3 DEF IsRow
<1>5. ASSUME NEW i \in 1 .. n, Has(SubSeq(s, 1, i), "geom_start")
      PROVE  Before(row, "geom_start", i)
  <2>1. PICK k \in DOMAIN SubSeq(s, 1, i) : SubSeq(s, 1, i)[k].op = "geom_start"
    BY <1>5 DEF Has
  <2>2. k \in 1 .. i /\ SubSeq(s, 1, i)[k] = s[k]
    BY <1>3
  <2> QED
    BY <1>2, <2>1, <2>2 DEF Before
<1>6. \A i \in 1 .. n :
        /\ s[i] \in Calls
        /\ s[i].op = "feat_start" <=> i = 1
        /\ s[i].op = "feat_end" => i = n
        /\ s[i].op = "geom_start" => s[i].type \in 1 .. 7
        /\ s[i].op = "null_feat" => row.null
        /\ row.null => s[i].op \in {"feat_start", "null_feat", "feat_end"}
        /\ s[i].xs # << >> => s[i].op = "coords" /\ Before(row, "geom_start", i)
  BY <1>2, <1>3, <1>4, <1>5 DEF IsCallOf
<1>7. ASSUME Has(s, "feat_end")
      PROVE  /\ n > 1 /\ s[n].op = "feat_end"
             /\ row.null = Before(row, "null_feat", n - 1)
  <2>1. PICK k \in 1 .. n : s[k].op = "feat_end"
    BY <1>3, <1>7 DEF Has
  <2>2. k = n /\ k # 1
    BY <1>6, <2>1
  <2>3. n > 1 /\ s[n].op = "feat_end"
    BY <1>3, <2>1, <2>2
  <2>4. ASSUME row.null
        PROVE  Before(row, "null_feat", n - 1)
    <3>1. Has(s, "null_feat")
      BY <1>1, <1>2, <1>7, <2>4 DEF IsRow
    <3>2. PICK j \in 1 .. n : s[j].op = "null_feat"
      BY <1>3, <3>1 DEF Has
    <3>3. j \in 1 .. n - 1
      BY <1>3, <2>3, <3>2
    <3> QED
      BY <1>2, <3>2, <3>3 DEF Before
  <2>5. ASSUME Before(row, "null_feat", n - 1)
        PROVE  row.null
    <3>1. PICK j \in 1 .. n - 1 : s[j].op = "null_feat"
      BY <1>2, <2>5 DEF Before
    <3> QED
      BY <1>3, <1>6, <3>1
  <2>6. Before(row, "null_feat", n - 1) \in BOOLEAN
    BY DEF Before
  <2> QED
    BY <1>3, <2>3, <2>4, <2>5, <2>6
<1> QED
  BY <1>2, <1>3, <1>6, <1>7

(* One call more. *)
LEMMA BeforeNext ==
  ASSUME NEW row, NEW op, NEW i \in Nat \ {0}
  PROVE  /\ Before(row, op, i) <=> Before(row, op, i - 1) \/ row.calls[i].op = op
         /\ ~Before(row, op, 0)
<1>1. 1 .. i = (1 .. i - 1) \cup {i} /\ 1 .. 0 = {}
  OBVIOUS
<1> QED
  BY <1>1 DEF Before

(* Which handlers a kernel has. *)
LEMMA Handles ==
  ASSUME NEW w, NEW c
  PROVE  /\ WritesText => Handle(w, c) = HandleWKT(w, c)
         /\ kernel.name = "unique_geometry_types_agg" =>
              Handle(w, c) = HandleGeometryTypes(w, c)
         /\ kernel.name = "box" => Handle(w, c) = HandleBox(w, c)
         /\ kernel.name = "box_agg" => Handle(w, c) = HandleBoxAgg(w, c)
<1>1. ASSUME WritesText
      PROVE  Handle(w, c) = HandleWKT(w, c)
  <2>1. kernel.name \notin {"unique_geometry_types_agg", "box", "box_agg"}
    BY <1>1 DEF WritesText
  <2> QED
    BY <1>1, <2>1 DEF Handle
<1>2. ASSUME kernel.name \in {"unique_geometry_types_agg", "box", "box_agg"}
      PROVE  ~WritesText
  BY <1>2 DEF WritesText
<1> QED
  BY <1>1, <1>2 DEF Handle

(* What the writer of text has after i calls of a row: up to the last the  *)
(* row is counted and not marked, and after it, it is.                     *)
TextAt(w, row, i) ==
  {r \in Results :
     IF i = 0 THEN r = Done(w)
     ELSE /\ r.code = "EAGAIN" => ~row.null
          /\ r.code \in {"ok", "EAGAIN"} =>
               /\ r.w.length = w.length + 1
               /\ IF r.code = "ok" /\ row.calls[i].op = "feat_end"
                  THEN /\ r.w.bitmap = Marked(w.bitmap, row.null, w.length + 1)
                       /\ r.w.nulls = IF row.null THEN w.nulls + 1 ELSE w.nulls
                  ELSE /\ r.w.bitmap = w.bitmap /\ r.w.nulls = w.nulls
                       /\ r.w.isNull = Before(row, "null_feat", i)}

(* One more call, for the writer of text. *)
LEMMA TextHears ==
  ASSUME NEW w \in Writers, NEW row \in Rows, WritesText,
         NEW i \in 1 .. Len(row.calls), NEW r \in TextAt(w, row, i - 1)
  PROVE  Hear(r, row.calls[i]) \in TextAt(w, row, i)
<1>1. PICK c, n : c = row.calls[i] /\ n = Len(row.calls)
  OBVIOUS
<1>2. c \in Calls /\ n \in Nat /\ row.null \in BOOLEAN /\ r \in Results /\ i \in 1 .. n
  BY <1>1, CallsOfRow DEF TextAt
<1>3. PICK b0, b : b0 = Before(row, "null_feat", i - 1) /\ b = Before(row, "null_feat", i)
  OBVIOUS
<1>4. /\ b0 \in BOOLEAN /\ b \in BOOLEAN /\ (b <=> b0 \/ c.op = "null_feat")
      /\ i = 1 => ~b0
  BY <1>1, <1>2, <1>3, BeforeNext DEF Before
<1>5. /\ c.op = "feat_start" <=> i = 1
      /\ c.op = "feat_end" => i = n
      /\ c.op = "null_feat" => row.null
      /\ c.xs # << >> => ~row.null \/ c.op # "coords"
  <2>1. row.null => c.op \in {"feat_start", "null_feat", "feat_end"}
    BY <1>1, <1>2, CallsOfRow
  <2> QED
    BY <1>1, <1>2, <2>1, CallsOfRow
<1>6. ~row.null => ~b /\ ~b0
  <2>1. \A k \in 1 .. n : row.calls[k].op = "null_feat" => row.null
    BY <1>1, CallsOfRow
  <2>2. 1 .. i \subseteq 1 .. n /\ 1 .. i - 1 \subseteq 1 .. n
    BY <1>2
  <2> QED
    BY <1>3, <2>1, <2>2, Zenon DEF Before
<1>7. c.op = "feat_end" => row.null = b0
  <2>1. ASSUME c.op = "feat_end"
        PROVE  Has(row.calls, "feat_end") /\ i = Len(row.calls)
    BY <1>1, <1>2, <1>5, <2>1, CallsOfRow DEF Has
  <2> QED
    BY <1>3, <2>1, CallsOfRow
<1>8. i > 1 => row.calls[i - 1].op # "feat_end"
  BY <1>2, CallsOfRow
<1>9. CASE r.code # "ok"
  <2>1. i # 1
    BY <1>9 DEF TextAt, Done, Result
  <2>2. Hear(r, c) = r
    BY <1>9 DEF Hear
  <2>3. /\ r.code = "EAGAIN" => ~row.null
        /\ r.code = "EAGAIN" => /\ r.w.length = w.length + 1
                                /\ r.w.bitmap = w.bitmap /\ r.w.nulls = w.nulls
                                /\ r.w.isNull = b0
    BY <1>2, <1>3, <1>9, <2>1 DEF TextAt
  <2>4. r \in TextAt(w, row, i)
    BY <1>2, <1>3, <1>4, <1>6, <1>9, <2>3 DEF TextAt
  <2> QED
    BY <1>1, <2>2, <2>4
<1>10. CASE r.code = "ok"
  <2>1. PICK u, q : u = r.w /\ q = HandleWKT(u, c)
    OBVIOUS
  <2>2. u \in Writers /\ Hear(r, c) = q
    BY <1>2, <1>10, <2>1, Handles DEF Results, Hear
  <2>3. /\ i = 1 => u = w
        /\ i > 1 => /\ u.length = w.length + 1 /\ u.bitmap = w.bitmap
                    /\ u.nulls = w.nulls /\ u.isNull = b0
    BY <1>2, <1>3, <1>8, <1>10, <2>1 DEF TextAt, Done, Result
  <2>4. /\ q \in Results
        /\ q.code = "EAGAIN" => c.op = "coords" /\ c.xs # << >>
        /\ c.op = "feat_start" =>
             /\ q.w.bitmap = u.bitmap /\ q.w.nulls = u.nulls
             /\ q.w.length = u.length + 1 /\ ~q.w.isNull
        /\ c.op = "null_feat" =>
             /\ q.w.bitmap = u.bitmap /\ q.w.nulls = u.nulls
             /\ q.w.length = u.length /\ q.w.isNull
        /\ c.op = "feat_end" => q.code = "ok" /\ Marks(q.w, u, u.isNull)
        /\ c.op \notin {"feat_start", "null_feat", "feat_end"} => SameFlags(q.w, u)
    BY <1>2, <2>1, <2>2, WriterHandles
  <2>5. q.w.isNull \in BOOLEAN
    BY <2>4 DEF Results, Writers
  <2>6. CASE c.op = "feat_start"
    <3>1. q.w.isNull = b
      BY <1>4, <1>5, <2>4, <2>5, <2>6
    <3> QED
      BY <1>1, <1>3, <1>5, <2>2, <2>3, <2>4, <2>6, <3>1 DEF TextAt
  <2>7. CASE c.op = "null_feat"
    <3>1. q.w.isNull = b
      BY <1>4, <2>4, <2>5, <2>7
    <3> QED
      BY <1>1, <1>2, <1>3, <1>5, <2>2, <2>3, <2>4, <2>7, <3>1 DEF TextAt
  <2>8. CASE c.op = "feat_end"
    <3>1. i > 1 /\ u.isNull = row.null
      BY <1>2, <1>5, <1>7, <2>3, <2>8
    <3> QED
      BY <1>1, <1>2, <2>2, <2>3, <2>4, <2>8, <3>1 DEF TextAt, Marks
  <2>9. CASE c.op \notin {"feat_start", "null_feat", "feat_end"}
    <3>1. i > 1 /\ b = b0
      BY <1>2, <1>4, <1>5, <2>9
    <3> QED
      BY <1>1, <1>2, <1>3, <1>5, <2>2, <2>3, <2>4, <2>9, <3>1 DEF TextAt, SameFlags
  <2> QED
    BY <2>6, <2>7, <2>8, <2>9
<1> QED
  BY <1>2, <1>9, <1>10 DEF Results

(* A visitor of a set of results, through the calls of a row. *)
LEMMA TextVisited ==
  ASSUME NEW w \in Writers, NEW row \in Rows, WritesText
  PROVE  Visited(w, row.calls) \in TextAt(w, row, Len(row.calls))
<1>1. PICK n : n = Len(row.calls)
  OBVIOUS
<1>2. n \in Nat /\ row.calls \in Seq(Calls)
  BY <1>1, CallsOfRow
<1> DEFINE at == [i \in 0 .. n |-> TextAt(w, row, i)]
<1>3. Done(w) \in Results /\ Done(w) \in at[0]
  BY <1>2 DEF Done, Result, Results, TextAt
<1>4. \A i \in 0 .. n : at[i] \subseteq Results
  BY DEF TextAt
<1>5. ASSUME NEW i \in 1 .. n, NEW r \in at[i - 1]
      PROVE  Hear(r, row.calls[i]) \in at[i]
  <2>1. r \in TextAt(w, row, i - 1) /\ i \in 1 .. Len(row.calls)
    BY <1>1, <1>2, <1>5
  <2>2. Hear(r, row.calls[i]) \in TextAt(w, row, i)
    BY <2>1, TextHears
  <2> QED
    BY <2>2
<1>6. \A r \in Results, c \in Calls : Hear(r, c) \in Results
  BY WriterHandles, Handles DEF Hear, Results
<1>7. at[n] = TextAt(w, row, n)
  BY <1>2
<1> HIDE DEF at
<1>8. Visited(w, row.calls) \in at[Len(row.calls)]
  BY <1>1, <1>2, <1>3, <1>4, <1>5, <1>6, HearFold
<1> QED
  BY <1>1, <1>7, <1>8

(* A row that was visited to its end is counted and marked, ... *)
LEMMA TextOfFeature ==
  ASSUME NEW w \in Writers, NEW row \in Rows, WritesText, NEW v,
         v = Visited(w, row.calls), NEW r,
         r = IF ByFeature /\ v.code = "EAGAIN" THEN Enough(v) ELSE v
  PROVE  /\ r.w \in Writers
         /\ \/ ByFeature /\ v.code = "EAGAIN"
            \/ v.code = "ok" /\ Has(row.calls, "feat_end")
            => /\ r.w.length = w.length + 1
               /\ r.w.bitmap = Marked(w.bitmap, row.null, w.length + 1)
               /\ r.w.nulls = IF row.null THEN w.nulls + 1 ELSE w.nulls
<1>1. PICK n : n = Len(row.calls)
  OBVIOUS
<1>2. n \in Nat /\ v \in TextAt(w, row, n) /\ v \in Results
  BY <1>1, TextVisited, CallsOfRow DEF TextAt
<1>3. CASE ByFeature /\ v.code = "EAGAIN"
  <2>1. n # 0 /\ ~row.null
    BY <1>2, <1>3 DEF TextAt, Done, Result
  <2>2. ~Before(row, "null_feat", n)
    BY <1>1, <1>2, <2>1, CallsOfRow DEF Before
  <2>3. /\ v.w \in Writers /\ v.w.isNull \in BOOLEAN /\ v.w.length = w.length + 1
        /\ v.w.bitmap = w.bitmap /\ v.w.nulls = w.nulls
        /\ v.w.isNull = Before(row, "null_feat", n)
    BY <1>2, <1>3, <2>1 DEF TextAt, Results, Writers
  <2>4. r = feat_end_wkt(v.w)
    <3>1. FeatEnd.op = "feat_end"
      BY DEF FeatEnd
    <3> QED
      BY <1>3, <3>1, Handles DEF Enough, HandleWKT
  <2>5. r \in Results /\ Marks(r.w, v.w, v.w.isNull)
    BY <2>3, <2>4, FeatEndText
  <2> QED
    BY <2>1, <2>2, <2>3, <2>5 DEF Marks, Marked, Results
<1>4. CASE ~(ByFeature /\ v.code = "EAGAIN")
  <2>1. r = v /\ r.w \in Writers
    BY <1>2, <1>4 DEF Results
  <2>2. ASSUME v.code = "ok", Has(row.calls, "feat_end")
        PROVE  n > 1 /\ row.calls[n].op = "feat_end"
    BY <1>1, <2>2, CallsOfRow
  <2> QED
    BY <1>2, <1>4, <2>1, <2>2 DEF TextAt
<1> QED
  BY <1>3, <1>4

-----------------------------------------------------------------------------
(* The rows that were visited, and the flags for them.                     *)
Seen == [row : Rows, ended : BOOLEAN]

BitsFit(bitmap, vs) ==
  IF bitmap.data
  THEN /\ Len(bitmap.bits) = Len(vs)
       /\ \A i \in 1 .. Len(vs) : bitmap.bits[i] = IF i \in NullsAmong(vs) THEN 0 ELSE 1
  ELSE bitmap.bits = << >> /\ NullsAmong(vs) = {}
FlagsFit(w, vs) ==
  BitsFit(w.bitmap, vs) /\ w.nulls = Cardinality(NullsAmong(vs))

(* The nulls among rows are some of their positions. *)
LEMMA NullsFinite ==
  ASSUME NEW vs \in Seq(Seen)
  PROVE  IsFiniteSet(NullsAmong(vs)) /\ NullsAmong(vs) \subseteq 1 .. Len(vs)
<1>1. PICK n : n = Len(vs)
  OBVIOUS
<1>2. NullsAmong(vs) \subseteq 1 .. n /\ n \in Nat
  BY <1>1 DEF NullsAmong
<1>3. IsFiniteSet(1 .. n)
  BY <1>2, FS_Interval
<1>4. IsFiniteSet(NullsAmong(vs))
  BY <1>2, <1>3, FS_Subset
<1> QED
  BY <1>1, <1>2, <1>4

(* One more row is marked. *)
LEMMA FlagsStep ==
  ASSUME NEW vs \in Seq(Seen), NEW v \in Seen, NEW bitmap \in Bitmap, NEW nulls,
         BitsFit(bitmap, vs), nulls = Cardinality(NullsAmong(vs))
  PROVE  /\ BitsFit(Marked(bitmap, v.row.null, Len(vs) + 1), Append(vs, v))
         /\ (IF v.row.null THEN nulls + 1 ELSE nulls)
              = Cardinality(NullsAmong(Append(vs, v)))
<1>1. PICK n, t, null : n = Len(vs) /\ t = Append(vs, v) /\ null = v.row.null
  OBVIOUS
<1>2. /\ n \in Nat /\ Len(t) = n + 1 /\ DOMAIN t = 1 .. n + 1 /\ DOMAIN vs = 1 .. n
      /\ t[n + 1] = v /\ \A i \in 1 .. n : t[i] = vs[i] /\ vs[i] \in Seen
  BY <1>1
<1>3. \A u \in Seen : u.row.null \in BOOLEAN
  BY CallsOfRow DEF Seen
<1>4. NullsAmong(t) = IF null THEN NullsAmong(vs) \cup {n + 1} ELSE NullsAmong(vs)
  BY <1>1, <1>2 DEF NullsAmong
<1>5. n + 1 \notin NullsAmong(vs) /\ IsFiniteSet(NullsAmong(vs))
  BY <1>1, <1>2, NullsFinite
<1>6. Cardinality(NullsAmong(vs)) \in Nat
  BY <1>5, FS_CardinalityType
<1>7. null => Cardinality(NullsAmong(t)) = nulls + 1
  BY <1>4, <1>5, FS_AddElement
<1>8. ~null => Cardinality(NullsAmong(t)) = nulls
  BY <1>4
<1>9. PICK bits, nulled : bits = bitmap.bits /\ nulled = NullsAmong(vs)
  OBVIOUS
<1>10. bits \in Seq(Bit) /\ bitmap.data \in BOOLEAN
  BY <1>9 DEF Bitmap
<1>11. CASE null
  <2>1. PICK b : b = MarkNull(bitmap, n + 1)
    OBVIOUS
  <2>2. ASSUME bitmap.data
        PROVE  BitsFit(b, t)
    <3>1. b.data /\ b.bits = Append(bits, 0)
      BY <1>9, <2>1, <2>2 DEF MarkNull, AppendBit
    <3>2. Len(bits) = n /\ \A i \in 1 .. n : bits[i] = IF i \in nulled THEN 0 ELSE 1
      BY <1>1, <1>9, <2>2 DEF BitsFit
    <3>3. /\ Len(b.bits) = n + 1 /\ b.bits[n + 1] = 0
          /\ \A i \in 1 .. n : b.bits[i] = bits[i]
      BY <1>2, <1>10, <3>1, <3>2
    <3>4. ASSUME NEW i \in 1 .. n + 1
          PROVE  b.bits[i] = IF i \in NullsAmong(t) THEN 0 ELSE 1
      BY <1>4, <1>9, <1>11, <3>2, <3>3
    <3> QED
      BY <1>2, <3>1, <3>3, <3>4, Zenon DEF BitsFit
  <2>3. ASSUME ~bitmap.data
        PROVE  BitsFit(b, t)
    <3>1. b.data /\ b.bits = [i \in 1 .. n + 1 |-> IF i = n + 1 THEN 0 ELSE 1]
      BY <2>1, <2>3 DEF MarkNull
    <3>2. nulled = {}
      BY <1>9, <2>3 DEF BitsFit
    <3>3. Len(b.bits) = n + 1
      BY <1>2, <3>1
    <3>4. ASSUME NEW i \in 1 .. n + 1
          PROVE  b.bits[i] = IF i \in NullsAmong(t) THEN 0 ELSE 1
      BY <1>4, <1>9, <1>11, <3>1, <3>2
    <3> QED
      BY <1>2, <3>1, <3>3, <3>4, Zenon DEF BitsFit
  <2>4. BitsFit(b, t)
    BY <2>2, <2>3, Zenon
  <2> QED
    BY <1>1, <1>7, <1>11, <2>1, <2>4 DEF Marked
<1>12. CASE ~null
  <2>1. PICK b : b = MarkValid(bitmap)
    OBVIOUS
  <2>2. ASSUME bitmap.data
        PROVE  BitsFit(b, t)
    <3>1. b.data /\ b.bits = Append(bits, 1)
      BY <1>9, <2>1, <2>2 DEF MarkValid, AppendBit
    <3>2. Len(bits) = n /\ \A i \in 1 .. n : bits[i] = IF i \in nulled THEN 0 ELSE 1
      BY <1>1, <1>9, <2>2 DEF BitsFit
    <3>3. /\ Len(b.bits) = n + 1 /\ b.bits[n + 1] = 1
          /\ \A i \in 1 .. n : b.bits[i] = bits[i]
      BY <1>2, <1>10, <3>1, <3>2
    <3>4. ASSUME NEW i \in 1 .. n + 1
          PROVE  b.bits[i] = IF i \in NullsAmong(t) THEN 0 ELSE 1
      BY <1>4, <1>9, <1>12, <3>2, <3>3, <1>2, <1>5
    <3> QED
      BY <1>2, <3>1, <3>3, <3>4, Zenon DEF BitsFit
  <2>3. ASSUME ~bitmap.data
        PROVE  BitsFit(b, t)
    <3>1. b = bitmap /\ NullsAmong(t) = NullsAmong(vs)
      BY <1>4, <1>12, <2>1, <2>3 DEF MarkValid
    <3> QED
      BY <2>3, <3>1, Zenon DEF BitsFit
  <2>4. BitsFit(b, t)
    BY <2>2, <2>3, Zenon
  <2> QED
    BY <1>1, <1>8, <1>12, <2>1, <2>4 DEF Marked
<1>13. null \in BOOLEAN
  BY <1>1, <1>3
<1> QED
  BY <1>11, <1>12, <1>13

(* No rows need no flags. *)
LEMMA NoFlags == BitsFit(NoBitmap, << >>) /\ Cardinality(NullsAmong(<< >>)) = 0
<1>1. NullsAmong(<< >>) = {}
  BY DEF NullsAmong
<1> QED
  BY <1>1, FS_EmptySet DEF BitsFit, NoBitmap

(* Flags that fit say which rows are null, ... *)
LEMMA FlagsRead ==
  ASSUME NEW vs \in Seq(Seen), NEW bitmap \in Bitmap, BitsFit(bitmap, vs),
         NEW i \in DOMAIN vs
  PROVE  IsValid(bitmap, i) = ~vs[i].row.null
<1>1. vs[i].row.null \in BOOLEAN /\ i \in 1 .. Len(vs) /\ i \in DOMAIN vs
  <2>1. vs[i] \in Seen
    OBVIOUS
  <2>2. vs[i].row \in Rows
    BY <2>1 DEF Seen
  <2> QED
    BY <2>2, CallsOfRow
<1>2. CASE bitmap.data
  <2>1. bitmap.bits # << >>
    <3>1. Len(bitmap.bits) = Len(vs) /\ Len(vs) \in Nat
      BY <1>2 DEF BitsFit
    <3> QED
      BY <1>1, <3>1
  <2>2. bitmap.bits[i] = IF vs[i].row.null THEN 0 ELSE 1
    BY <1>1, <1>2 DEF BitsFit, NullsAmong
  <2> QED
    BY <1>1, <2>1, <2>2 DEF IsValid
<1>3. CASE ~bitmap.data
  BY <1>1, <1>3 DEF BitsFit, NullsAmong, IsValid
<1> QED
  BY <1>2, <1>3

(* ... and if they count none, the bitmap is not needed. *)
LEMMA NoNullsRead ==
  ASSUME NEW vs \in Seq(Seen), Cardinality(NullsAmong(vs)) = 0, NEW i \in DOMAIN vs
  PROVE  IsValid(NoBitmap, i) = ~vs[i].row.null
<1>1. NullsAmong(vs) = {}
  BY NullsFinite, FS_EmptySet
<1>2. ~vs[i].row.null
  BY <1>1 DEF NullsAmong
<1> QED
  BY <1>2 DEF IsValid, NoBitmap

(* The rows that were visited to their end. *)
LEMMA EndedType ==
  ASSUME NEW vs \in Seq(Seen), NEW v \in Seen
  PROVE  /\ EndedOf(<< >>) = << >> /\ EndedOf(vs) \in Seq(Seen)
         /\ EndedOf(Append(vs, v)) =
              IF v.ended THEN Append(EndedOf(vs), v) ELSE EndedOf(vs)
         /\ AllEnded(Append(vs, v)) <=> AllEnded(vs) /\ v.ended
<1> DEFINE one(u) == IF u.ended THEN << u >> ELSE << >>
           ones(s) == [i \in DOMAIN s |-> one(s[i])]
<1>1. PICK t, n : t = Append(vs, v) /\ n = Len(vs)
  OBVIOUS
<1>2. /\ n \in Nat /\ Len(t) = n + 1 /\ DOMAIN t = 1 .. n + 1 /\ DOMAIN vs = 1 .. n
      /\ t[n + 1] = v /\ \A i \in 1 .. n : t[i] = vs[i] /\ vs[i] \in Seen
  BY <1>1
<1>3. \A u \in Seen : one(u) \in Seq(Seen)
  <2>1. \A u \in Seen : << u >> \in Seq(Seen) /\ << >> \in Seq(Seen)
    OBVIOUS
  <2> QED
    BY <2>1
<1> HIDE DEF one
<1>4. PICK a, e, W : a = ones(vs) /\ e = one(v) /\ W = Seq(Seen)
  OBVIOUS
<1>5. a \in Seq(W) /\ e \in W /\ Len(a) = n
  <2>1. a \in [1 .. n -> W] /\ e \in W
    BY <1>2, <1>3, <1>4
  <2> QED
    BY <1>2, <2>1
<1>6. ones(t) = Append(a, e)
  <2>1. PICK p, q : p = ones(t) /\ q = Append(a, e)
    OBVIOUS
  <2>2. p \in Seq(W) /\ Len(p) = n + 1 /\ \A i \in 1 .. n + 1 : p[i] = one(t[i])
    <3>1. t \in Seq(Seen)
      BY <1>1
    <3>2. p = [i \in 1 .. n + 1 |-> one(t[i])] /\ \A i \in 1 .. n + 1 : one(t[i]) \in W
      BY <1>2, <1>3, <1>4, <2>1
    <3>3. p \in [1 .. n + 1 -> W]
      BY <3>2
    <3> QED
      BY <1>2, <3>2, <3>3
  <2>3. q \in Seq(W) /\ Len(q) = n + 1 /\ q[n + 1] = e /\ \A i \in 1 .. n : q[i] = a[i]
    BY <1>2, <1>5, <2>1
  <2>4. \A i \in 1 .. n + 1 : p[i] = q[i]
    BY <1>2, <1>4, <2>2, <2>3
  <2>5. p = q
    BY <2>2, <2>3, <2>4
  <2> QED
    BY <2>1, <2>5
<1>7. FlattenSeq(Append(a, e)) = FlattenSeq(a) \o e /\ FlattenSeq(a) \in Seq(Seen)
  BY <1>4, <1>5, FlattenAppend
<1>8. \A s : EndedOf(s) = FlattenSeq(ones(s))
  BY DEF EndedOf, one
<1>9. /\ EndedOf(vs) \in Seq(Seen)
      /\ EndedOf(Append(vs, v)) =
           IF v.ended THEN Append(EndedOf(vs), v) ELSE EndedOf(vs)
  <2>1. PICK f : f = FlattenSeq(a)
    OBVIOUS
  <2>2. f \in Seq(Seen) /\ EndedOf(vs) = f /\ EndedOf(t) = f \o e
    BY <1>4, <1>6, <1>7, <1>8, <2>1
  <2>3. e = IF v.ended THEN << v >> ELSE << >>
    BY <1>4 DEF one
  <2>4. f \o << v >> = Append(f, v) /\ f \o << >> = f
    BY <2>2
  <2> QED
    BY <1>1, <2>2, <2>3, <2>4
<1>10. EndedOf(<< >>) = << >>
  BY DEF EndedOf, FlattenSeq
<1>11. AllEnded(t) <=> AllEnded(vs) /\ v.ended
  <2>1. v.ended \in BOOLEAN
    BY DEF Seen
  <2>2. 1 .. n + 1 = (1 .. n) \cup {n + 1}
    BY <1>2
  <2> QED
    BY <1>2, <2>1, <2>2 DEF AllEnded
<1> QED
  BY <1>1, <1>9, <1>10, <1>11

(* The rows since the last array. *)
LEMMA PendingSteps ==
  ASSUME NEW vs \in Seq(Seen), NEW v \in Seen, NEW d \in 0 .. Len(vs)
  PROVE  /\ SubSeq(vs, d + 1, Len(vs)) \in Seq(Seen)
         /\ SubSeq(Append(vs, v), d + 1, Len(Append(vs, v)))
              = Append(SubSeq(vs, d + 1, Len(vs)), v)
         /\ SubSeq(vs, Len(vs) + 1, Len(vs)) = << >>
<1>1. PICK n, s, t : n = Len(vs) /\ s = SubSeq(vs, d + 1, n) /\ t = Append(vs, v)
  OBVIOUS
<1>2. n \in Nat /\ d \in 0 .. n /\ t \in Seq(Seen) /\ Len(t) = n + 1
  BY <1>1
<1>3. s \in Seq(Seen) /\ Len(s) = n - d /\ \A i \in 1 .. n - d : s[i] = vs[d + i]
  <2>1. CASE d = n
    BY <1>1, <1>2, <2>1
  <2>2. CASE d < n
    BY <1>1, <1>2, <2>2
  <2> QED
    BY <1>2, <2>1, <2>2
<1>4. PICK p, q : p = SubSeq(t, d + 1, n + 1) /\ q = Append(s, v)
  OBVIOUS
<1>5. p \in Seq(Seen) /\ Len(p) = n + 1 - d /\ \A i \in 1 .. n + 1 - d : p[i] = t[d + i]
  BY <1>2, <1>4
<1>6. q \in Seq(Seen) /\ Len(q) = n - d + 1 /\ q[n - d + 1] = v /\ \A i \in 1 .. n - d : q[i] = s[i]
  <2>1. PICK m : m = n - d
    OBVIOUS
  <2>2. m \in Nat /\ Len(s) = m
    BY <1>2, <1>3, <2>1
  <2>3. /\ q \in Seq(Seen) /\ Len(q) = m + 1 /\ q[m + 1] = v
        /\ \A i \in 1 .. m : q[i] = s[i]
    BY <1>3, <1>4, <2>2
  <2> QED
    BY <2>1, <2>3
<1>7. t[n + 1] = v /\ \A i \in 1 .. n : t[i] = vs[i]
  BY <1>1
<1>8. ASSUME NEW i \in 1 .. n + 1 - d
      PROVE  p[i] = q[i]
  <2>1. CASE i = n - d + 1
    <3>1. d + i = n + 1
      BY <1>2, <2>1
    <3> QED
      BY <1>5, <1>6, <1>7, <2>1, <3>1
  <2>2. CASE i # n - d + 1
    <3>1. i \in 1 .. n - d /\ d + i \in 1 .. n
      BY <1>2, <2>2
    <3>2. p[i] = t[d + i] /\ t[d + i] = vs[d + i] /\ s[i] = vs[d + i] /\ q[i] = s[i]
      BY <1>3, <1>5, <1>6, <1>7, <3>1
    <3> QED
      BY <3>2
  <2> QED
    BY <2>1, <2>2
<1>9. p = q
  <2>1. Len(p) = Len(q) /\ Len(p) \in Nat
    BY <1>2, <1>5, <1>6
  <2>2. \A i \in 1 .. Len(p) : p[i] = q[i]
    BY <1>5, <1>8
  <2> QED
    BY <1>5, <1>6, <2>1, <2>2
<1>10. SubSeq(vs, n + 1, n) = << >>
  BY <1>1, <1>2
<1> QED
  BY <1>1, <1>2, <1>3, <1>4, <1>9, <1>10

(* The bounds of a call, coordinate by coordinate. *)
LEMMA WidenedFold ==
  ASSUME NEW w, NEW E, NEW seq \in Seq(E), NEW S, w \in S,
         \A r \in S, x \in E : Widened(r, x) \in S,
         NEW at, w \in at[0], \A i \in 0 .. Len(seq) : at[i] \subseteq S,
         \A i \in 1 .. Len(seq) : \A r \in at[i - 1] : Widened(r, seq[i]) \in at[i]
  PROVE  WidenedBy(w, seq) \in at[Len(seq)]
<1> DEFINE n == Len(seq)
           base == w
           g == [p \in S \X (1 .. n) |-> Widened(p[1], seq[p[2]])]
           next(f, s) == IF s = {} THEN base ELSE Widened(f[s \ {Max(s)}], seq[Max(s)])
           iter == CHOOSE f : f = [s \in SUBSET (1 .. n) |-> next(f, s)]
<1>1. n \in Nat /\ DOMAIN seq = 1 .. n /\ \A i \in 1 .. n : seq[i] \in E
  OBVIOUS
<1> HIDE DEF n
<1>2. g \in [S \X (1 .. n) -> S]
  BY <1>1
<1>3. WidenedBy(w, seq) = iter[1 .. n]
  <2>1. WidenedBy(w, seq) =
          (LET f[s \in SUBSET DOMAIN seq] == next(f, s) IN f[DOMAIN seq])
    BY DEF WidenedBy, FoldLeft, MapThenFoldSet
  <2> QED
    BY <1>1, <2>1
<1>4. \E f : f = [s \in SUBSET (1 .. n) |-> next(f, s)]
  <2>1. PICK f \in [SUBSET (1 .. n) -> S] : Iterates(f, n, base, g)
    <3> HIDE DEF g
    <3> QED
      BY <1>1, <1>2, LeftFoldExists
  <2>2. ASSUME NEW s \in SUBSET (1 .. n)
        PROVE  f[s] = next(f, s)
    <3>1. CASE s # {}
      <4>1. Max(s) \in 1 .. n /\ s \ {Max(s)} \in SUBSET (1 .. n)
        BY <1>1, <3>1, MaxOf
      <4>2. << f[s \ {Max(s)}], Max(s) >> \in S \X (1 .. n)
        BY <4>1
      <4>3. g[f[s \ {Max(s)}], Max(s)] = Widened(f[s \ {Max(s)}], seq[Max(s)])
        BY <4>2
      <4> HIDE DEF g
      <4> QED
        BY <2>1, <3>1, <4>3 DEF Iterates
    <3>2. CASE s = {}
      <4> HIDE DEF g
      <4> QED
        BY <2>1, <3>2 DEF Iterates
    <3> QED
      BY <3>1, <3>2
  <2> HIDE DEF next
  <2>3. f = [s \in SUBSET (1 .. n) |-> next(f, s)]
    BY <2>1, <2>2
  <2> QED
    BY <2>3
<1>5. \A s \in SUBSET (1 .. n) : iter[s] = next(iter, s)
  <2> HIDE DEF next
  <2>1. iter = [s \in SUBSET (1 .. n) |-> next(iter, s)]
    BY <1>4
  <2> HIDE DEF iter
  <2> QED
    BY <2>1
<1> HIDE DEF iter
<1> DEFINE h == [i \in 0 .. n |-> iter[1 .. i]]
<1>6. h[0] = base /\ h[n] = iter[1 .. n]
  <2>1. 1 .. 0 = {} /\ {} \in SUBSET (1 .. n) /\ 0 \in 0 .. n /\ n \in 0 .. n
    BY <1>1
  <2>2. iter[{}] = base
    BY <1>5, <2>1
  <2> QED
    BY <2>1, <2>2
<1>7. ASSUME NEW i \in 1 .. n
      PROVE  h[i] = Widened(h[i - 1], seq[i])
  <2> HIDE DEF base
  <2>1. /\ Max(1 .. i) = i /\ (1 .. i) \ {i} = 1 .. i - 1 /\ 1 .. i # {}
        /\ 1 .. i \in SUBSET (1 .. n)
    BY <1>1, PrefixSteps
  <2>2. iter[1 .. i] = Widened(iter[1 .. i - 1], seq[i])
    BY <1>5, <2>1
  <2>3. i \in 0 .. n /\ i - 1 \in 0 .. n
    BY <1>1
  <2> QED
    BY <2>2, <2>3
<1> HIDE DEF h
<1> DEFINE reached == {i \in 0 .. n : h[i] \in at[i]}
<1>8. 0 \in reached
  BY <1>1, <1>6 DEF base
<1>9. ASSUME NEW i \in 0 .. n - 1, i \in reached
      PROVE  i + 1 \in reached
  <2>1. i + 1 \in 1 .. n /\ (i + 1) - 1 = i /\ i + 1 \in 0 .. n
    BY <1>1
  <2>2. h[i] \in at[i] /\ h[i + 1] = Widened(h[i], seq[i + 1])
    BY <1>7, <1>9, <2>1
  <2>3. \A r \in at[i] : Widened(r, seq[i + 1]) \in at[i + 1]
    BY <2>1 DEF n
  <2> QED
    BY <2>1, <2>2, <2>3
<1> HIDE DEF reached
<1>10. \A i \in 0 .. n : i \in reached
  BY <1>1, <1>8, <1>9, IntervalInduction
<1>11. h[n] \in at[n]
  BY <1>1, <1>10 DEF reached
<1> QED
  BY <1>3, <1>6, <1>11 DEF n

-----------------------------------------------------------------------------
(* The least and the greatest of some ordinates.                           *)
LEMMA LeastIs ==
  ASSUME NEW S \in SUBSET Int, NEW m \in S
  PROVE  /\ (\A y \in S : m <= y) => Min(S) = m
         /\ (\A y \in S : m >= y) => Max(S) = m
<1>1. ASSUME \A y \in S : m <= y
      PROVE  Min(S) = m
  <2>1. Min(S) \in S /\ \A y \in S : Min(S) <= y
    BY <1>1 DEF Min
  <2>2. PICK k : k = Min(S)
    OBVIOUS
  <2>3. k \in S /\ k <= m /\ m <= k
    BY <1>1, <2>1, <2>2
  <2> QED
    BY <2>2, <2>3
<1>2. ASSUME \A y \in S : m >= y
      PROVE  Max(S) = m
  <2>1. Max(S) \in S /\ \A y \in S : Max(S) >= y
    BY <1>2 DEF Max
  <2>2. PICK k : k = Max(S)
    OBVIOUS
  <2>3. k \in S /\ k >= m /\ m >= k
    BY <1>2, <2>1, <2>2
  <2> QED
    BY <2>2, <2>3
<1> QED
  BY <1>1, <1>2

(* Some coordinates have a least and a greatest. *)
LEMMA LeastOf ==
  ASSUME NEW S \in SUBSET (0 .. 9), S # {}
  PROVE  /\ Min(S) \in S /\ \A y \in S : Min(S) <= y
         /\ Max(S) \in S /\ \A y \in S : Max(S) >= y
<1>1. PICK m \in S : \A y \in S : m <= y
  BY Least
<1>2. PICK k \in {9 - y : y \in S} : \A z \in {9 - y : y \in S} : k <= z
  <2>1. PICK T : T = {9 - y : y \in S}
    OBVIOUS
  <2>2. T \in SUBSET Nat /\ T # {}
    BY <2>1
  <2> QED
    BY <2>1, <2>2, Least
<1>3. 9 - k \in S /\ \A y \in S : 9 - k >= y
  <2>1. PICK x \in S : k = 9 - x
    BY <1>2
  <2>2. 9 - k = x
    BY <2>1
  <2>3. \A y \in S : k <= 9 - y
    BY <1>2
  <2> QED
    BY <2>1, <2>2, <2>3
<1>4. S \in SUBSET Int
  OBVIOUS
<1> QED
  BY <1>1, <1>3, <1>4, LeastIs

(* The boxes, and the state of the visitors that collect them. *)
BoxSet == [min : [1 .. 2 -> Int], max : [1 .. 2 -> Int]]
BoxVisitors ==
  [bounds : BoxSet, isNull : BOOLEAN, bitmap : Bitmap, values : Seq(BoxSet), nulls : Nat]

(* No coordinates are bounded by the bounds a box starts with. *)
LEMMA EmptyBox == EmptyBounds \in BoxSet /\ Bounds({}, EmptyBounds)
  BY DEF EmptyBounds, BoxSet, Infinite, Bounds

(* A box that bounds some coordinates, widened by one, bounds them and it. *)
LEMMA BoundsWidened ==
  ASSUME NEW xs \in SUBSET (0 .. 9), NEW b \in BoxSet, Bounds(xs, b), NEW x \in 0 .. 9
  PROVE  Widened(b, x) \in BoxSet /\ Bounds(xs \cup {x}, Widened(b, x))
<1>1. /\ b.min \in [1 .. 2 -> Int] /\ b.max \in [1 .. 2 -> Int]
  BY DEF BoxSet
<1>2. PICK c : c = Widened(b, x)
  OBVIOUS
<1>3. \A y \in 0 .. 9, j \in 1 .. 2 : Ordinate(y, j) \in 0 .. 9
  BY DEF Ordinate
<1>4. /\ c \in BoxSet
      /\ \A j \in 1 .. 2 : /\ c.min[j] = Lower(b.min[j], Ordinate(x, j))
                           /\ c.max[j] = Higher(b.max[j], Ordinate(x, j))
  BY <1>1, <1>2, <1>3 DEF Widened, BoxSet, Lower, Higher
<1>5. ASSUME NEW j \in 1 .. 2
      PROVE  LET vs == {Ordinate(y, j) : y \in xs \cup {x}}
             IN c.min[j] = Min(vs) /\ c.max[j] = Max(vs)
  <2>1. PICK o, old, new : /\ o = Ordinate(x, j) /\ old = {Ordinate(y, j) : y \in xs}
                           /\ new = {Ordinate(y, j) : y \in xs \cup {x}}
    OBVIOUS
  <2>2. /\ o \in 0 .. 9 /\ old \in SUBSET (0 .. 9) /\ new = old \cup {o}
        /\ new \in SUBSET Int
    BY <1>3, <2>1
  <2>3. PICK lo, hi : lo = c.min[j] /\ hi = c.max[j]
    OBVIOUS
  <2>4. lo = Lower(b.min[j], o) /\ hi = Higher(b.max[j], o)
    BY <1>4, <2>1, <2>3
  <2>5. CASE xs = {}
    <3>1. b.min[j] = 100 /\ b.max[j] = -100
      BY <2>5 DEF Bounds, EmptyBounds, Infinite
    <3>2. lo = o /\ hi = o /\ new = {o}
      BY <2>1, <2>2, <2>4, <2>5, <3>1 DEF Lower, Higher
    <3>3. Min(new) = o /\ Max(new) = o
      BY <2>2, <3>2, LeastIs
    <3> QED
      BY <2>1, <2>3, <3>2, <3>3
  <2>6. CASE xs # {}
    <3>1. b.min[j] = Min(old) /\ b.max[j] = Max(old) /\ old # {}
      BY <2>1, <2>6 DEF Bounds
    <3>2. /\ Min(old) \in old /\ \A y \in old : Min(old) <= y
          /\ Max(old) \in old /\ \A y \in old : Max(old) >= y
      BY <2>2, <3>1, LeastOf
    <3>3. /\ lo \in new /\ \A y \in new : lo <= y
          /\ hi \in new /\ \A y \in new : hi >= y
      <4>1. PICK m, k : m = Min(old) /\ k = Max(old)
        OBVIOUS
      <4>2. /\ m \in old /\ \A y \in old : m <= y /\ y \in Int
            /\ k \in old /\ \A y \in old : k >= y /\ y \in Int
        BY <2>2, <3>2, <4>1
      <4>3. lo = Lower(m, o) /\ hi = Higher(k, o)
        BY <2>4, <3>1, <4>1
      <4> QED
        BY <2>2, <4>2, <4>3 DEF Lower, Higher
    <3>4. Min(new) = lo /\ Max(new) = hi
      BY <2>2, <3>3, LeastIs
    <3> QED
      BY <2>1, <2>3, <3>4
  <2> QED
    BY <2>5, <2>6
<1>6. Bounds(xs \cup {x}, c)
  BY <1>5 DEF Bounds
<1> QED
  BY <1>2, <1>4, <1>6

(* ... and so by the coordinates of a call. *)
LEMMA BoundsWidenedBy ==
  ASSUME NEW X \in SUBSET (0 .. 9), NEW b \in BoxSet, Bounds(X, b), NEW xs \in Seq(0 .. 9)
  PROVE  WidenedBy(b, xs) \in BoxSet /\ Bounds(X \cup ToSet(xs), WidenedBy(b, xs))
<1> DEFINE told(i) == X \cup {xs[k] : k \in 1 .. i}
           n == Len(xs)
           at == [i \in 0 .. n |-> {c \in BoxSet : Bounds(told(i), c)}]
<1>1. n \in Nat /\ \A i \in 1 .. n : xs[i] \in 0 .. 9
  OBVIOUS
<1>2. told(0) = X /\ told(n) = X \cup ToSet(xs)
  BY DEF ToSet
<1>3. ASSUME NEW i \in 1 .. n
      PROVE  told(i) = told(i - 1) \cup {xs[i]} /\ told(i - 1) \in SUBSET (0 .. 9)
  <2>1. 1 .. i = (1 .. i - 1) \cup {i} /\ 1 .. i - 1 \subseteq 1 .. n
    BY <1>1
  <2>2. {xs[k] : k \in 1 .. i} = {xs[k] : k \in 1 .. i - 1} \cup {xs[i]}
    BY <2>1
  <2>3. {xs[k] : k \in 1 .. i - 1} \in SUBSET (0 .. 9)
    BY <1>1, <2>1
  <2> QED
    BY <2>2, <2>3
<1>4. \A r \in BoxSet, x \in 0 .. 9 : Widened(r, x) \in BoxSet
  BY DEF Widened, BoxSet, Lower, Higher, Ordinate
<1> HIDE DEF told, n
<1>0. \A i \in 0 .. n : at[i] = {c \in BoxSet : Bounds(told(i), c)}
  OBVIOUS
<1> HIDE DEF at
<1>5. /\ b \in at[0] /\ \A i \in 0 .. n : at[i] \subseteq BoxSet
      /\ at[n] = {c \in BoxSet : Bounds(told(n), c)}
  <2>1. 0 \in 0 .. n /\ n \in 0 .. n
    BY <1>1
  <2> QED
    BY <1>0, <1>2, <2>1
<1>6. ASSUME NEW i \in 1 .. n, NEW r \in at[i - 1]
      PROVE  Widened(r, xs[i]) \in at[i]
  <2>0. i - 1 \in 0 .. n /\ i \in 0 .. n
    BY <1>1
  <2>1. r \in BoxSet /\ Bounds(told(i - 1), r)
    BY <1>0, <1>6, <2>0
  <2>2. /\ Widened(r, xs[i]) \in BoxSet
        /\ Bounds(told(i - 1) \cup {xs[i]}, Widened(r, xs[i]))
    BY <1>1, <1>3, <2>1, BoundsWidened
  <2>3. told(i) = told(i - 1) \cup {xs[i]}
    BY <1>3
  <2> QED
    BY <1>0, <2>0, <2>2, <2>3
<1>7. WidenedBy(b, xs) \in at[Len(xs)]
  BY <1>4, <1>5, <1>6, WidenedFold DEF n
<1> QED
  BY <1>2, <1>5, <1>7 DEF n

(* The coordinates of the first calls of a row. *)
Heard(row, i) == UNION {ToSet(row.calls[k].xs) : k \in 1 .. i}

(* The coordinates of the first calls grow by those of each call. *)
LEMMA HeardSteps ==
  ASSUME NEW row \in Rows
  PROVE  /\ Heard(row, 0) = {} /\ Heard(row, Len(row.calls)) = CoordsOf(row)
         /\ \A i \in 1 .. Len(row.calls) :
              /\ Heard(row, i) = Heard(row, i - 1) \cup ToSet(row.calls[i].xs)
              /\ Heard(row, i - 1) \in SUBSET (0 .. 9)
              /\ row.calls[i].xs \in Seq(0 .. 9)
              /\ row.calls[i].op # "coords" => Heard(row, i) = Heard(row, i - 1)
<1>1. PICK n : n = Len(row.calls)
  OBVIOUS
<1>2. n \in Nat /\ DOMAIN row.calls = 1 .. n /\ \A i \in 1 .. n : row.calls[i] \in Calls
  BY <1>1, CallsOfRow
<1>3. \A i \in 1 .. n : row.calls[i].xs \in Seq(0 .. 9)
  BY <1>2 DEF Calls
<1>4. \A i \in 1 .. n : ToSet(row.calls[i].xs) \in SUBSET (0 .. 9)
  BY <1>3 DEF ToSet
<1>5. ASSUME NEW i \in 1 .. n
      PROVE  /\ Heard(row, i) = Heard(row, i - 1) \cup ToSet(row.calls[i].xs)
             /\ Heard(row, i - 1) \in SUBSET (0 .. 9)
  <2>1. 1 .. i = (1 .. i - 1) \cup {i} /\ 1 .. i - 1 \subseteq 1 .. n
    BY <1>2
  <2>2. {ToSet(row.calls[k].xs) : k \in 1 .. i} =
          {ToSet(row.calls[k].xs) : k \in 1 .. i - 1} \cup {ToSet(row.calls[i].xs)}
    BY <2>1
  <2>3. UNION {ToSet(row.calls[k].xs) : k \in 1 .. i - 1} \in SUBSET (0 .. 9)
    BY <1>4, <2>1
  <2>4. Heard(row, i) = UNION {ToSet(row.calls[k].xs) : k \in 1 .. i}
    BY DEF Heard
  <2>5. Heard(row, i - 1) = UNION {ToSet(row.calls[k].xs) : k \in 1 .. i - 1}
    BY DEF Heard
  <2>6. PICK A, T : A = {ToSet(row.calls[k].xs) : k \in 1 .. i - 1} /\ T = ToSet(row.calls[i].xs)
    OBVIOUS
  <2>7. Heard(row, i) = UNION (A \cup {T}) /\ Heard(row, i - 1) = UNION A
    BY <2>2, <2>4, <2>5, <2>6
  <2>8. UNION (A \cup {T}) = (UNION A) \cup T
    OBVIOUS
  <2>9. Heard(row, i) = Heard(row, i - 1) \cup T
    BY <2>7, <2>8
  <2> QED
    BY <2>3, <2>5, <2>6, <2>9
<1>6. ASSUME NEW i \in 1 .. n, row.calls[i].op # "coords"
      PROVE  ToSet(row.calls[i].xs) = {}
  <2>1. row.calls[i].xs = << >>
    BY <1>1, <1>6, CallsOfRow
  <2> QED
    BY <2>1 DEF ToSet
<1>7. Heard(row, 0) = {}
  BY DEF Heard
<1>8. Heard(row, n) = CoordsOf(row)
  BY <1>1, <1>2 DEF Heard, CoordsOf
<1>9. ASSUME NEW i \in 1 .. n, row.calls[i].op # "coords"
      PROVE  Heard(row, i) = Heard(row, i - 1)
  BY <1>5, <1>6, <1>9
<1> QED
  BY <1>1, <1>3, <1>5, <1>7, <1>8, <1>9

(* The coordinates of the rows that were visited. *)
LEMMA CoordsInRange ==
  ASSUME NEW row \in Rows
  PROVE  CoordsOf(row) \in SUBSET (0 .. 9)
<1>1. PICK n : n = Len(row.calls)
  OBVIOUS
<1>2. n \in Nat /\ Heard(row, n) = CoordsOf(row) /\ Heard(row, 0) = {}
  BY <1>1, CallsOfRow, HeardSteps
<1>3. CASE n = 0
  BY <1>2, <1>3
<1>4. CASE n # 0
  <2>1. n \in 1 .. n
    BY <1>2, <1>4
  <2>2. row.calls[n].xs \in Seq(0 .. 9)
    BY <1>1, <2>1, HeardSteps
  <2>3. ToSet(row.calls[n].xs) \in SUBSET (0 .. 9)
    BY <2>2 DEF ToSet
  <2> QED
    <3>1. /\ Heard(row, n) = Heard(row, n - 1) \cup ToSet(row.calls[n].xs)
          /\ Heard(row, n - 1) \in SUBSET (0 .. 9)
      BY <1>1, <2>1, HeardSteps
    <3> QED
      BY <1>2, <2>3, <3>1
<1> QED
  BY <1>2, <1>3, <1>4

(* The results of the handlers that collect boxes: none of them refuses.   *)
BoxResults == [code : {"ok"}, w : BoxVisitors]

(* A call with coordinates widens the bounds and does nothing else. *)
LEMMA BoxCoords ==
  ASSUME NEW w \in BoxVisitors, NEW xs \in Seq(0 .. 9)
  PROVE  LET r == coords_box(w, xs)
         IN /\ r \in BoxResults
            /\ r.w.bitmap = w.bitmap /\ r.w.nulls = w.nulls
            /\ r.w.isNull = w.isNull /\ r.w.values = w.values
            /\ \A X \in SUBSET (0 .. 9) :
                 Bounds(X, w.bounds) => Bounds(X \cup ToSet(xs), r.w.bounds)
<1>1. PICK b : b = WidenedBy(w.bounds, xs)
  OBVIOUS
<1>2. /\ b \in BoxSet
      /\ \A X \in SUBSET (0 .. 9) : Bounds(X, w.bounds) => Bounds(X \cup ToSet(xs), b)
  <2>1. w.bounds \in BoxSet
    BY DEF BoxVisitors
  <2>2. b \in BoxSet
    <3> DEFINE at == [i \in 0 .. Len(xs) |-> BoxSet]
    <3>1. \A r \in BoxSet, x \in 0 .. 9 : Widened(r, x) \in BoxSet
      BY DEF Widened, BoxSet, Lower, Higher, Ordinate
    <3>2. /\ Len(xs) \in Nat /\ w.bounds \in at[0] /\ \A i \in 0 .. Len(xs) : at[i] \subseteq BoxSet
          /\ \A i \in 1 .. Len(xs) : \A r \in at[i - 1] : Widened(r, xs[i]) \in at[i]
          /\ at[Len(xs)] = BoxSet
      BY <2>1, <3>1
    <3> HIDE DEF at
    <3> QED
      BY <1>1, <2>1, <3>1, <3>2, WidenedFold
  <2> QED
    BY <1>1, <2>1, <2>2, BoundsWidenedBy
<1>3. PICK v : v = [w EXCEPT !.bounds = b]
  OBVIOUS
<1>4. /\ v \in BoxVisitors /\ v.bounds = b /\ v.bitmap = w.bitmap
      /\ v.nulls = w.nulls /\ v.isNull = w.isNull /\ v.values = w.values
  BY <1>2, <1>3 DEF BoxVisitors
<1>5. coords_box(w, xs) = Done(v)
  BY <1>1, <1>3 DEF coords_box, BoxVisitors
<1> QED
  BY <1>2, <1>4, <1>5 DEF Done, Result, BoxResults

(* What the visitor of the boxes does at a call. *)
LEMMA BoxHandles ==
  ASSUME NEW w \in BoxVisitors, NEW c \in Calls
  PROVE  LET r == HandleBox(w, c)
         IN /\ r \in BoxResults
            /\ c.op # "feat_end" =>
                 /\ r.w.bitmap = w.bitmap /\ r.w.nulls = w.nulls /\ r.w.values = w.values
            /\ c.op = "feat_start" => ~r.w.isNull /\ r.w.bounds = EmptyBounds
            /\ \A X \in SUBSET (0 .. 9) : Bounds(X, w.bounds) =>
                 /\ c.op = "coords" => Bounds(X \cup ToSet(c.xs), r.w.bounds)
                 /\ c.op \notin {"feat_start", "coords"} => Bounds(X, r.w.bounds)
            /\ c.op = "null_feat" => r.w.isNull
            /\ c.op \notin {"feat_start", "null_feat", "feat_end"} => r.w.isNull = w.isNull
            /\ c.op = "feat_end" =>
                 /\ r.w.values = Append(w.values, w.bounds)
                 /\ r.w.bitmap = Marked(w.bitmap, w.isNull, Len(w.values) + 1)
                 /\ r.w.nulls = IF w.isNull THEN w.nulls + 1 ELSE w.nulls
<1>1. c.op \in Ops /\ c.xs \in Seq(0 .. 9)
  BY DEF Calls
<1>2. CASE c.op = "feat_start"
  <2>1. PICK v, e : e = EmptyBounds /\ v = [w EXCEPT !.bounds = e, !.isNull = FALSE]
    OBVIOUS
  <2>2. /\ v \in BoxVisitors /\ v.bounds = e /\ v.isNull = FALSE /\ v.bitmap = w.bitmap
        /\ v.nulls = w.nulls /\ v.values = w.values
    BY <2>1, EmptyBox DEF BoxVisitors
  <2>3. HandleBox(w, c) = Done(v)
    BY <1>2, <2>1 DEF HandleBox, feat_start_box
  <2>20. PICK r : r = HandleBox(w, c)
    OBVIOUS
  <2>21. r \in BoxResults /\ r.w = v
    BY <2>3, <2>20, <2>2 DEF Done, Result, BoxResults
  <2> QED
    BY <1>2, <2>1, <2>2, <2>20, <2>21
<1>3. CASE c.op = "null_feat"
  <2>1. PICK v : v = [w EXCEPT !.isNull = TRUE]
    OBVIOUS
  <2>2. /\ v \in BoxVisitors /\ v.bounds = w.bounds /\ v.isNull = TRUE /\ v.bitmap = w.bitmap
        /\ v.nulls = w.nulls /\ v.values = w.values
    BY <2>1 DEF BoxVisitors
  <2>3. HandleBox(w, c) = Done(v)
    BY <1>3, <2>1 DEF HandleBox, null_feat_box
  <2>20. PICK r : r = HandleBox(w, c)
    OBVIOUS
  <2>21. r \in BoxResults /\ r.w = v
    BY <2>3, <2>20, <2>2 DEF Done, Result, BoxResults
  <2> QED
    BY <1>3, <2>1, <2>2, <2>20, <2>21
<1>4. CASE c.op = "coords"
  <2>1. HandleBox(w, c) = coords_box(w, c.xs)
    BY <1>4 DEF HandleBox
  <2> QED
    BY <1>1, <1>4, <2>1, BoxCoords
<1>5. CASE c.op = "feat_end"
  <2>0. /\ w.values \in Seq(BoxSet) /\ w.bounds \in BoxSet /\ w.nulls \in Nat
        /\ w.bitmap \in Bitmap /\ w.isNull \in BOOLEAN
    BY DEF BoxVisitors
  <2>1. PICK n, b, k : /\ n = Len(w.values) + 1 /\ b = Marked(w.bitmap, w.isNull, n)
                       /\ k = IF w.isNull THEN w.nulls + 1 ELSE w.nulls
    OBVIOUS
  <2>2. n \in Nat /\ k \in Nat
    BY <2>0, <2>1
  <2>3. b \in Bitmap
    BY <2>0, <2>1, <2>2, BitmapTypes DEF Marked
  <2>4. PICK u : u = IF w.isNull
                     THEN [w EXCEPT !.bitmap = MarkNull(@, Len(w.values) + 1), !.nulls = @ + 1]
                     ELSE [w EXCEPT !.bitmap = MarkValid(@)]
    OBVIOUS
  <2>5. u = [w EXCEPT !.bitmap = b, !.nulls = k]
    <3>1. CASE w.isNull
      BY <2>1, <2>4, <3>1 DEF BoxVisitors, Marked
    <3>2. CASE ~w.isNull
      BY <2>1, <2>4, <3>2 DEF BoxVisitors, Marked
    <3> QED
      BY <2>0, <3>1, <3>2
  <2>6. /\ u \in BoxVisitors /\ u.bounds = w.bounds /\ u.bitmap = b
        /\ u.nulls = k /\ u.values = w.values
    BY <2>2, <2>3, <2>5 DEF BoxVisitors
  <2>7. PICK vs, v : vs = Append(w.values, w.bounds) /\ v = [u EXCEPT !.values = vs]
    OBVIOUS
  <2>8. vs \in Seq(BoxSet)
    BY <2>0, <2>7
  <2>9. /\ v \in BoxVisitors /\ v.bounds = w.bounds /\ v.bitmap = b
        /\ v.nulls = k /\ v.values = vs
    BY <2>6, <2>7, <2>8 DEF BoxVisitors
  <2>10. HandleBox(w, c) = Done(v)
    <3>1. box_flush(u) = v
      BY <2>6, <2>7 DEF box_flush, BoxVisitors
    <3>2. HandleBox(w, c) = feat_end_box(w)
      BY <1>5 DEF HandleBox
    <3> QED
      BY <2>4, <3>1, <3>2 DEF feat_end_box
  <2>20. PICK r : r = HandleBox(w, c)
    OBVIOUS
  <2>21. r \in BoxResults /\ r.w = v
    BY <2>10, <2>20, <2>9 DEF Done, Result, BoxResults
  <2> QED
    BY <1>5, <2>1, <2>7, <2>9, <2>20, <2>21
<1>6. CASE c.op \notin {"feat_start", "null_feat", "coords", "feat_end"}
  <2>1. HandleBox(w, c) = Done(w)
    BY <1>6 DEF HandleBox
  <2> QED
    BY <1>6, <2>1 DEF Done, Result, BoxResults
<1> QED
  BY <1>2, <1>3, <1>4, <1>5, <1>6

(* What the visitor of box has after i calls of a row: the bounds of what  *)
(* it was told of since the row began, and after the last call its box.    *)
BoxAt(w, row, i) ==
  {r \in BoxResults :
     IF i = 0 THEN r = Done(w)
     ELSE IF row.calls[i].op = "feat_end"
     THEN /\ \E b \in BoxSet : r.w.values = Append(w.values, b) /\ Bounds(CoordsOf(row), b)
          /\ r.w.bitmap = Marked(w.bitmap, row.null, Len(w.values) + 1)
          /\ r.w.nulls = IF row.null THEN w.nulls + 1 ELSE w.nulls
     ELSE /\ r.w.values = w.values /\ r.w.bitmap = w.bitmap /\ r.w.nulls = w.nulls
          /\ r.w.isNull = Before(row, "null_feat", i)
          /\ Bounds(Heard(row, i), r.w.bounds)}

(* One more call, for the boxes. *)
LEMMA BoxHears ==
  ASSUME NEW w \in BoxVisitors, NEW row \in Rows, kernel.name = "box",
         NEW i \in 1 .. Len(row.calls), NEW r \in BoxAt(w, row, i - 1)
  PROVE  Hear(r, row.calls[i]) \in BoxAt(w, row, i)
<1>1. PICK c, n : c = row.calls[i] /\ n = Len(row.calls)
  OBVIOUS
<1>2. c \in Calls /\ n \in Nat /\ row.null \in BOOLEAN /\ r \in BoxResults /\ i \in 1 .. n
  BY <1>1, CallsOfRow DEF BoxAt
<1>3. PICK b0, b : b0 = Before(row, "null_feat", i - 1) /\ b = Before(row, "null_feat", i)
  OBVIOUS
<1>4. /\ b0 \in BOOLEAN /\ b \in BOOLEAN /\ (b <=> b0 \/ c.op = "null_feat")
      /\ i = 1 => ~b0
  BY <1>1, <1>2, <1>3, BeforeNext DEF Before
<1>5. /\ c.op = "feat_start" <=> i = 1
      /\ c.op = "feat_end" => i = n
  BY <1>1, <1>2, CallsOfRow
<1>6. c.op = "feat_end" => row.null = b0
  <2>1. ASSUME c.op = "feat_end"
        PROVE  Has(row.calls, "feat_end") /\ i = Len(row.calls)
    BY <1>1, <1>2, <1>5, <2>1, CallsOfRow DEF Has
  <2> QED
    BY <1>3, <2>1, CallsOfRow
<1>7. i > 1 => row.calls[i - 1].op # "feat_end"
  BY <1>2, CallsOfRow
<1>8. PICK X, Y : X = Heard(row, i - 1) /\ Y = Heard(row, i)
  OBVIOUS
<1>9. /\ X \in SUBSET (0 .. 9) /\ Y = X \cup ToSet(c.xs)
      /\ c.op # "coords" => Y = X
      /\ c.op = "feat_end" => X = CoordsOf(row)
      /\ i = 1 => X = {}
  BY <1>1, <1>2, <1>5, <1>8, HeardSteps
<1>10. PICK u, q : u = r.w /\ q = HandleBox(u, c)
  OBVIOUS
<1>11. u \in BoxVisitors /\ Hear(r, c) = q
  BY <1>2, <1>10, Handles DEF BoxResults, Hear
<1>12. /\ i = 1 => u = w
       /\ i > 1 => /\ u.values = w.values /\ u.bitmap = w.bitmap /\ u.nulls = w.nulls
                   /\ u.isNull = b0 /\ Bounds(X, u.bounds)
  BY <1>2, <1>3, <1>7, <1>8, <1>10 DEF BoxAt, Done, Result
<1>13. /\ q \in BoxResults
       /\ c.op # "feat_end" =>
            /\ q.w.bitmap = u.bitmap /\ q.w.nulls = u.nulls /\ q.w.values = u.values
       /\ c.op = "feat_start" => ~q.w.isNull /\ q.w.bounds = EmptyBounds
       /\ \A Z \in SUBSET (0 .. 9) : Bounds(Z, u.bounds) =>
            /\ c.op = "coords" => Bounds(Z \cup ToSet(c.xs), q.w.bounds)
            /\ c.op \notin {"feat_start", "coords"} => Bounds(Z, q.w.bounds)
       /\ c.op = "null_feat" => q.w.isNull
       /\ c.op \notin {"feat_start", "null_feat", "feat_end"} => q.w.isNull = u.isNull
       /\ c.op = "feat_end" =>
            /\ q.w.values = Append(u.values, u.bounds)
            /\ q.w.bitmap = Marked(u.bitmap, u.isNull, Len(u.values) + 1)
            /\ q.w.nulls = IF u.isNull THEN u.nulls + 1 ELSE u.nulls
  <2>1. q \in BoxResults
    BY <1>2, <1>10, <1>11, BoxHandles
  <2>2. c.op # "feat_end" =>
          q.w.bitmap = u.bitmap /\ q.w.nulls = u.nulls /\ q.w.values = u.values
    BY <1>2, <1>10, <1>11, BoxHandles
  <2>3. /\ c.op = "feat_start" => ~q.w.isNull /\ q.w.bounds = EmptyBounds
        /\ c.op = "null_feat" => q.w.isNull
        /\ c.op \notin {"feat_start", "null_feat", "feat_end"} => q.w.isNull = u.isNull
    BY <1>2, <1>10, <1>11, BoxHandles
  <2>4. \A Z \in SUBSET (0 .. 9) : Bounds(Z, u.bounds) =>
          /\ c.op = "coords" => Bounds(Z \cup ToSet(c.xs), q.w.bounds)
          /\ c.op \notin {"feat_start", "coords"} => Bounds(Z, q.w.bounds)
    BY <1>2, <1>10, <1>11, BoxHandles
  <2>5. c.op = "feat_end" =>
          /\ q.w.values = Append(u.values, u.bounds)
          /\ q.w.bitmap = Marked(u.bitmap, u.isNull, Len(u.values) + 1)
          /\ q.w.nulls = IF u.isNull THEN u.nulls + 1 ELSE u.nulls
    BY <1>2, <1>10, <1>11, BoxHandles
  <2> QED
    BY <2>1, <2>2, <2>3, <2>4, <2>5, Zenon
<1>14. q.w.isNull \in BOOLEAN /\ u.bounds \in BoxSet
  BY <1>11, <1>13 DEF BoxResults, BoxVisitors
<1>15. CASE c.op = "feat_end"
  <2>1. i > 1 /\ u.isNull = row.null
    BY <1>2, <1>5, <1>6, <1>12, <1>15
  <2>2. Bounds(CoordsOf(row), u.bounds)
    BY <1>9, <1>12, <1>15, <2>1
  <2>3. \E b1 \in BoxSet : q.w.values = Append(w.values, b1) /\ Bounds(CoordsOf(row), b1)
    BY <1>12, <1>13, <1>14, <1>15, <2>1, <2>2, Zenon
  <2>4. /\ q.w.bitmap = Marked(w.bitmap, row.null, Len(w.values) + 1)
        /\ q.w.nulls = IF row.null THEN w.nulls + 1 ELSE w.nulls
    BY <1>12, <1>13, <1>15, <2>1
  <2>5. q \in BoxResults /\ ~(i = 0)
    BY <1>2, <1>13
  <2> QED
    BY <1>1, <1>11, <1>15, <2>3, <2>4, <2>5 DEF BoxAt
<1>16. CASE c.op # "feat_end"
  <2>1. q.w.isNull = b
    BY <1>2, <1>4, <1>5, <1>12, <1>13, <1>14, <1>16
  <2>2. Bounds(Y, q.w.bounds)
    <3>1. CASE i = 1
      BY <1>5, <1>9, <1>13, <3>1, EmptyBox
    <3>2. CASE i > 1
      <4>1. c.op # "feat_start" /\ Bounds(X, u.bounds)
        BY <1>2, <1>5, <1>12, <3>2
      <4>2. CASE c.op = "coords"
        BY <1>9, <1>13, <4>1, <4>2
      <4>3. CASE c.op # "coords"
        BY <1>9, <1>13, <4>1, <4>3
      <4> QED
        BY <4>2, <4>3
    <3> QED
      BY <1>2, <3>1, <3>2
  <2>3. q.w.values = w.values /\ q.w.bitmap = w.bitmap /\ q.w.nulls = w.nulls
    BY <1>2, <1>12, <1>13, <1>16
  <2> QED
    BY <1>1, <1>2, <1>3, <1>8, <1>11, <1>13, <1>16, <2>1, <2>2, <2>3 DEF BoxAt
<1> QED
  BY <1>15, <1>16

(* A row for box: if it was visited to its end it has its box, and         *)
(* otherwise the boxes are those there were.                               *)
LEMMA BoxOfFeature ==
  ASSUME NEW w \in BoxVisitors, NEW row \in Rows, kernel.name = "box",
         NEW r, r = Visited(w, row.calls)
  PROVE  /\ r \in BoxResults
         /\ Has(row.calls, "feat_end") =>
              /\ \E b \in BoxSet : r.w.values = Append(w.values, b) /\ Bounds(CoordsOf(row), b)
              /\ r.w.bitmap = Marked(w.bitmap, row.null, Len(w.values) + 1)
              /\ r.w.nulls = IF row.null THEN w.nulls + 1 ELSE w.nulls
         /\ ~Has(row.calls, "feat_end") =>
              r.w.values = w.values /\ r.w.bitmap = w.bitmap /\ r.w.nulls = w.nulls
<1>1. PICK n : n = Len(row.calls)
  OBVIOUS
<1>2. n \in Nat /\ row.calls \in Seq(Calls) /\ DOMAIN row.calls = 1 .. n
  BY <1>1, CallsOfRow
<1> DEFINE at == [i \in 0 .. n |-> BoxAt(w, row, i)]
<1>3. Done(w) \in BoxResults /\ Done(w) \in at[0]
  BY <1>2 DEF Done, Result, BoxResults, BoxAt
<1>4. \A i \in 0 .. n : at[i] \subseteq BoxResults
  BY DEF BoxAt
<1>5. ASSUME NEW i \in 1 .. n, NEW q \in at[i - 1]
      PROVE  Hear(q, row.calls[i]) \in at[i]
  <2>1. q \in BoxAt(w, row, i - 1) /\ i \in 1 .. Len(row.calls)
    BY <1>1, <1>2, <1>5
  <2>2. Hear(q, row.calls[i]) \in BoxAt(w, row, i)
    BY <2>1, BoxHears
  <2> QED
    BY <2>2
<1>6. ASSUME NEW q \in BoxResults, NEW c \in Calls
      PROVE  Hear(q, c) \in BoxResults
  <2>1. q.w \in BoxVisitors /\ Hear(q, c) = HandleBox(q.w, c) /\ {} \in SUBSET (0 .. 9)
    BY Handles DEF Hear, BoxResults
  <2> QED
    BY <2>1, BoxHandles
<1>7. at[n] = BoxAt(w, row, n)
  BY <1>2
<1> HIDE DEF at
<1>8. Visited(w, row.calls) \in at[Len(row.calls)]
  BY <1>1, <1>2, <1>3, <1>4, <1>5, <1>6, HearFold
<1>9. r \in BoxAt(w, row, n) /\ r \in BoxResults
  BY <1>1, <1>7, <1>8 DEF BoxAt
<1>10. CASE Has(row.calls, "feat_end")
  <2>1. n > 1 /\ row.calls[n].op = "feat_end"
    BY <1>1, <1>10, CallsOfRow
  <2> QED
    BY <1>9, <1>10, <2>1 DEF BoxAt
<1>11. CASE ~Has(row.calls, "feat_end")
  <2>1. CASE n = 0
    BY <1>9, <1>11, <2>1 DEF BoxAt, Done, Result
  <2>2. CASE n # 0
    <3>1. row.calls[n].op # "feat_end"
      BY <1>2, <1>11, <2>2 DEF Has
    <3> QED
      BY <1>2, <1>9, <1>11, <2>2, <3>1 DEF BoxAt
  <2> QED
    BY <2>1, <2>2
<1> QED
  BY <1>9, <1>10, <1>11

(* A row for box_agg: the bounds are widened by all its coordinates.       *)
LEMMA BoxAggOfFeature ==
  ASSUME NEW w \in BoxVisitors, NEW row \in Rows, kernel.name = "box_agg",
         NEW X \in SUBSET (0 .. 9), Bounds(X, w.bounds), NEW r, r = Visited(w, row.calls)
  PROVE  /\ r \in BoxResults /\ r.w.values = w.values
         /\ Bounds(X \cup CoordsOf(row), r.w.bounds)
<1> DEFINE n == Len(row.calls)
           at == [i \in 0 .. n |-> {q \in BoxResults : /\ q.w.values = w.values
                                                       /\ Bounds(X \cup Heard(row, i), q.w.bounds)}]
<1>1. n \in Nat /\ row.calls \in Seq(Calls) /\ Heard(row, 0) = {} /\ Heard(row, n) = CoordsOf(row)
  BY CallsOfRow, HeardSteps
<1> HIDE DEF n
<1>2. /\ Done(w) \in BoxResults /\ Done(w) \in at[0]
      /\ \A i \in 0 .. n : at[i] \subseteq BoxResults
      /\ at[n] = {q \in BoxResults : /\ q.w.values = w.values
                                     /\ Bounds(X \cup CoordsOf(row), q.w.bounds)}
  <2>1. X \cup {} = X /\ 0 \in 0 .. n /\ n \in 0 .. n
    BY <1>1
  <2>2. Done(w).w = w /\ Done(w) \in BoxResults
    BY DEF Done, Result, BoxResults
  <2> QED
    BY <1>1, <2>1, <2>2
<1>3. ASSUME NEW q \in BoxResults, NEW c \in Calls, NEW Y \in SUBSET (0 .. 9)
      PROVE  /\ Hear(q, c) \in BoxResults /\ Hear(q, c).w.values = q.w.values
             /\ Bounds(Y, q.w.bounds) =>
                  /\ c.op = "coords" => Bounds(Y \cup ToSet(c.xs), Hear(q, c).w.bounds)
                  /\ c.op # "coords" => Bounds(Y, Hear(q, c).w.bounds)
  <2>1. /\ q.w \in BoxVisitors /\ q.code = "ok" /\ c.xs \in Seq(0 .. 9)
        /\ Hear(q, c) = HandleBoxAgg(q.w, c)
    BY Handles DEF Hear, BoxResults, Calls
  <2>2. CASE c.op = "coords"
    <3>1. HandleBoxAgg(q.w, c) = coords_box(q.w, c.xs)
      BY <2>2 DEF HandleBoxAgg
    <3>2. PICK u, xs, s : u = q.w /\ xs = c.xs /\ s = coords_box(u, xs)
      OBVIOUS
    <3>3. /\ s \in BoxResults /\ s.w.values = u.values
          /\ \A Z \in SUBSET (0 .. 9) : Bounds(Z, u.bounds) => Bounds(Z \cup ToSet(xs), s.w.bounds)
      BY <2>1, <3>2, BoxCoords
    <3> QED
      BY <2>1, <2>2, <3>1, <3>2, <3>3
  <2>3. CASE c.op # "coords"
    <3>1. HandleBoxAgg(q.w, c) = Done(q.w)
      BY <2>3 DEF HandleBoxAgg
    <3> QED
      BY <2>1, <2>3, <3>1 DEF Done, Result, BoxResults
  <2> QED
    BY <2>2, <2>3
<1>4. \A q \in BoxResults, c \in Calls : Hear(q, c) \in BoxResults
  <2>1. {} \in SUBSET (0 .. 9)
    OBVIOUS
  <2> QED
    BY <1>3, <2>1
<1>5. ASSUME NEW i \in 1 .. n, NEW q \in at[i - 1]
      PROVE  Hear(q, row.calls[i]) \in at[i]
  <2>1. PICK c, Y : c = row.calls[i] /\ Y = X \cup Heard(row, i - 1)
    OBVIOUS
  <2>2. /\ c \in Calls /\ Y \in SUBSET (0 .. 9)
        /\ X \cup Heard(row, i) = IF c.op = "coords" THEN Y \cup ToSet(c.xs) ELSE Y
    <3>1. /\ Heard(row, i) = Heard(row, i - 1) \cup ToSet(row.calls[i].xs)
          /\ Heard(row, i - 1) \in SUBSET (0 .. 9)
          /\ row.calls[i].op # "coords" => Heard(row, i) = Heard(row, i - 1)
      BY <1>1, HeardSteps DEF n
    <3>2. row.calls[i] \in Calls
      BY CallsOfRow DEF n
    <3>3. \A T : X \cup (Heard(row, i - 1) \cup T) = (X \cup Heard(row, i - 1)) \cup T
      OBVIOUS
    <3> QED
      BY <2>1, <3>1, <3>2, <3>3
  <2>3. i - 1 \in 0 .. n /\ i \in 0 .. n
    BY <1>1
  <2>4. q \in BoxResults /\ q.w.values = w.values /\ Bounds(Y, q.w.bounds)
    BY <1>5, <2>1, <2>3
  <2>5. /\ Hear(q, c) \in BoxResults /\ Hear(q, c).w.values = w.values
        /\ Bounds(X \cup Heard(row, i), Hear(q, c).w.bounds)
    BY <1>3, <2>2, <2>4
  <2> QED
    BY <2>1, <2>3, <2>5
<1> HIDE DEF at
<1>6. Visited(w, row.calls) \in at[Len(row.calls)]
  BY <1>1, <1>2, <1>4, <1>5, HearFold DEF n
<1> QED
  BY <1>2, <1>6 DEF n

-----------------------------------------------------------------------------
(* The visitor that collects geometry types.                               *)
TypeVisitors == [type : 0 .. 7, dims : 0 .. 4, mask : SUBSET (0 .. 39)]
TypeResults == [code : {"ok", "EAGAIN"}, w : TypeVisitors]
BitOf(row) == Outermost(row).dims * 8 + Outermost(row).type

(* The outermost geometry of a row is the first that starts. *)
LEMMA OutermostIs ==
  ASSUME NEW row \in Rows, NEW i \in 1 .. Len(row.calls),
         row.calls[i].op = "geom_start", ~Before(row, "geom_start", i - 1)
  PROVE  Outermost(row) = row.calls[i]
<1>1. PICK S : S = {k \in DOMAIN row.calls : row.calls[k].op = "geom_start"}
  OBVIOUS
<1>2. DOMAIN row.calls = 1 .. Len(row.calls) /\ Len(row.calls) \in Nat
  BY CallsOfRow
<1>3. S \in SUBSET Int /\ i \in S
  BY <1>1, <1>2
<1>4. ASSUME NEW k \in S
      PROVE  i <= k
  <2>1. k \in 1 .. Len(row.calls) /\ row.calls[k].op = "geom_start"
    BY <1>1, <1>2
  <2>2. k \notin 1 .. i - 1
    BY <2>1 DEF Before
  <2> QED
    BY <1>2, <2>1, <2>2
<1>5. Min(S) = i
  BY <1>3, <1>4, LeastIs
<1> QED
  BY <1>1, <1>5 DEF Outermost

(* What it does at a call. *)
LEMMA TypesHandles ==
  ASSUME NEW w \in TypeVisitors, NEW c \in Calls
  PROVE  LET r == HandleGeometryTypes(w, c)
         IN /\ r \in TypeResults
            /\ c.op = "feat_start" =>
                 r.code = "ok" /\ r.w.mask = w.mask /\ r.w.type = 0
            /\ c.op = "geom_start" =>
                 /\ r.code = "ok" /\ r.w.mask = w.mask
                 /\ w.type = 0 => r.w.type = c.type /\ r.w.dims = c.dims
                 /\ w.type # 0 => r.w = w
            /\ c.op = "coords" /\ c.xs # << >> =>
                 /\ r.code = "EAGAIN" /\ r.w.mask = w.mask \cup {w.dims * 8 + w.type}
            /\ (c.op \notin {"feat_start", "geom_start", "coords"}
                \/ (c.op = "coords" /\ c.xs = << >>)) => r = Done(w)
<1>1. c.type \in 0 .. 7 /\ c.dims \in 1 .. 4 /\ c.op \in Ops
  BY DEF Calls
<1>2. ASSUME c.op = "feat_start"
      PROVE  LET r == HandleGeometryTypes(w, c)
             IN /\ r \in TypeResults
                /\ r.code = "ok" /\ r.w.mask = w.mask /\ r.w.type = 0
  <2>1. HandleGeometryTypes(w, c) = feat_start_geometry_types(w)
    BY <1>2 DEF HandleGeometryTypes
  <2>2. PICK v : v = [w EXCEPT !.type = 0, !.dims = 0]
    OBVIOUS
  <2>3. v \in TypeVisitors /\ v.mask = w.mask /\ v.type = 0
    <3>1. PICK z : z = 0
      OBVIOUS
    <3>2. z \in 0 .. 7 /\ z \in 0 .. 4
      BY <3>1
    <3>3. w.mask \in SUBSET (0 .. 39)
      BY DEF TypeVisitors
    <3>4. v = [type |-> z, dims |-> z, mask |-> w.mask]
      BY <2>2, <3>1 DEF TypeVisitors
    <3> QED
      BY <3>1, <3>2, <3>3, <3>4 DEF TypeVisitors
  <2>4. HandleGeometryTypes(w, c) = Result("ok", v)
    BY <2>1, <2>2 DEF feat_start_geometry_types, Done
  <2>5. PICK r : r = Result("ok", v)
    OBVIOUS
  <2>6. r \in TypeResults /\ r.code = "ok" /\ r.w = v
    BY <2>3, <2>5 DEF Result, TypeResults
  <2>7. HandleGeometryTypes(w, c) = r
    BY <2>4, <2>5
  <2> QED
    BY <2>3, <2>6, <2>7
<1>3. ASSUME c.op = "geom_start"
      PROVE  LET r == HandleGeometryTypes(w, c)
             IN /\ r \in TypeResults /\ r.code = "ok" /\ r.w.mask = w.mask
                /\ w.type = 0 => r.w.type = c.type /\ r.w.dims = c.dims
                /\ w.type # 0 => r.w = w
  <2>1. HandleGeometryTypes(w, c) = geom_start_geometry_types(w, c.type, c.dims)
    BY <1>3 DEF HandleGeometryTypes
  <2>2. PICK v : v = IF w.type = 0 THEN [w EXCEPT !.type = c.type, !.dims = c.dims] ELSE w
    OBVIOUS
  <2>3. /\ v \in TypeVisitors /\ v.mask = w.mask
        /\ w.type = 0 => v.type = c.type /\ v.dims = c.dims
        /\ w.type # 0 => v = w
    <3>1. w.mask \in SUBSET (0 .. 39) /\ c.dims \in 0 .. 4
      BY <1>1 DEF TypeVisitors
    <3>2. CASE w.type = 0
      <4>1. v = [type |-> c.type, dims |-> c.dims, mask |-> w.mask]
        BY <2>2, <3>2 DEF TypeVisitors
      <4> QED
        BY <1>1, <3>1, <3>2, <4>1 DEF TypeVisitors
    <3>3. CASE w.type # 0
      BY <2>2, <3>3
    <3> QED
      BY <3>2, <3>3
  <2>4. HandleGeometryTypes(w, c) = Result("ok", v)
    BY <2>1, <2>2 DEF geom_start_geometry_types, Done
  <2>5. PICK r : r = Result("ok", v)
    OBVIOUS
  <2>6. r \in TypeResults /\ r.code = "ok" /\ r.w = v
    BY <2>3, <2>5 DEF Result, TypeResults
  <2>7. HandleGeometryTypes(w, c) = r
    BY <2>4, <2>5
  <2> QED
    BY <2>3, <2>6, <2>7
<1>4. ASSUME c.op = "coords"
      PROVE  HandleGeometryTypes(w, c) = coords_geometry_types(w, c.xs)
  BY <1>4 DEF HandleGeometryTypes
<1>5. ASSUME c.op = "coords", c.xs # << >>
      PROVE  LET r == HandleGeometryTypes(w, c)
             IN /\ r \in TypeResults /\ r.code = "EAGAIN"
                /\ r.w.mask = w.mask \cup {w.dims * 8 + w.type}
  <2>1. PICK bit, v : /\ bit = w.dims * 8 + w.type
                      /\ v = [w EXCEPT !.mask = @ \cup {bit}]
    OBVIOUS
  <2>2. bit \in 0 .. 39
    <3>1. PICK d, t : d = w.dims /\ t = w.type
      OBVIOUS
    <3>2. d \in 0 .. 4 /\ t \in 0 .. 7 /\ bit = d * 8 + t
      BY <2>1, <3>1 DEF TypeVisitors
    <3> QED
      BY <3>2
  <2>3. v \in TypeVisitors /\ v.mask = w.mask \cup {bit}
    BY <2>1, <2>2 DEF TypeVisitors
  <2>4. HandleGeometryTypes(w, c) = Result("EAGAIN", v)
    BY <1>4, <1>5, <2>1 DEF coords_geometry_types
  <2>5. PICK r : r = Result("EAGAIN", v)
    OBVIOUS
  <2>6. r \in TypeResults /\ r.code = "EAGAIN" /\ r.w = v
    BY <2>3, <2>5 DEF Result, TypeResults
  <2>7. HandleGeometryTypes(w, c) = r
    BY <2>4, <2>5
  <2> QED
    BY <2>1, <2>3, <2>6, <2>7
<1>6. ASSUME c.op \notin {"feat_start", "geom_start", "coords"}
             \/ (c.op = "coords" /\ c.xs = << >>)
      PROVE  HandleGeometryTypes(w, c) = Done(w)
  <2>1. CASE c.op \notin {"feat_start", "geom_start", "coords"}
    BY <2>1 DEF HandleGeometryTypes
  <2>2. CASE c.op = "coords" /\ c.xs = << >>
    BY <1>4, <2>2 DEF coords_geometry_types
  <2> QED
    BY <1>6, <2>1, <2>2
<1>7. Done(w) \in TypeResults
  BY DEF Done, Result, TypeResults
<1>8. \/ c.op = "feat_start" \/ c.op = "geom_start" \/ (c.op = "coords" /\ c.xs # << >>)
      \/ c.op \notin {"feat_start", "geom_start", "coords"} \/ (c.op = "coords" /\ c.xs = << >>)
  <2>1. CASE c.op = "coords"
    BY <2>1
  <2>2. CASE c.op # "coords"
    BY <2>2
  <2> QED
    BY <2>1, <2>2
<1> QED
  BY <1>2, <1>3, <1>5, <1>6, <1>7, <1>8

(* After i calls: the first geometry is remembered, and at the first       *)
(* coordinate its bit is in the mask and the row has been heard.           *)
TypesAt(w, row, i) ==
  {r \in TypeResults :
     IF i = 0 THEN r = Done(w)
     ELSE IF r.code = "ok"
     THEN /\ r.w.mask = w.mask /\ Heard(row, i) = {}
          /\ IF Before(row, "geom_start", i)
             THEN /\ r.w.type = Outermost(row).type /\ r.w.dims = Outermost(row).dims
                  /\ r.w.type \in 1 .. 7 /\ r.w.dims \in 1 .. 4
             ELSE r.w.type = 0
     ELSE r.w.mask = w.mask \cup {BitOf(row)} /\ CoordsOf(row) # {}}

(* One more call, for the geometry types. *)
LEMMA TypesHears ==
  ASSUME NEW w \in TypeVisitors, NEW row \in Rows,
         kernel.name = "unique_geometry_types_agg",
         NEW i \in 1 .. Len(row.calls), NEW r \in TypesAt(w, row, i - 1)
  PROVE  Hear(r, row.calls[i]) \in TypesAt(w, row, i)
<1>1. PICK c, n : c = row.calls[i] /\ n = Len(row.calls)
  OBVIOUS
<1>2. /\ c \in Calls /\ n \in Nat /\ r \in TypeResults /\ i \in 1 .. n
      /\ DOMAIN row.calls = 1 .. n
  BY <1>1, CallsOfRow DEF TypesAt
<1>3. PICK b0, b : b0 = Before(row, "geom_start", i - 1) /\ b = Before(row, "geom_start", i)
  OBVIOUS
<1>4. /\ b0 \in BOOLEAN /\ b \in BOOLEAN /\ (b <=> b0 \/ c.op = "geom_start")
      /\ i = 1 => ~b0
  BY <1>1, <1>2, <1>3, BeforeNext DEF Before
<1>5. /\ c.op = "feat_start" <=> i = 1
      /\ c.op = "geom_start" => c.type \in 1 .. 7
      /\ c.xs # << >> => c.op = "coords" /\ b
  BY <1>1, <1>2, <1>3, CallsOfRow
<1>6. /\ c.dims \in 1 .. 4 /\ c.xs \in Seq(0 .. 9)
  BY <1>2 DEF Calls
<1>7. PICK X, Y : X = Heard(row, i - 1) /\ Y = Heard(row, i)
  OBVIOUS
<1>8. /\ c.op # "coords" => Y = X
      /\ Y = X \cup ToSet(c.xs)
      /\ i = 1 => X = {}
  BY <1>1, <1>2, <1>7, HeardSteps
<1>9. CASE r.code # "ok"
  <2>1. i # 1
    BY <1>9 DEF TypesAt, Done, Result
  <2>2. Hear(r, c) = r
    BY <1>9 DEF Hear
  <2>3. r \in TypesAt(w, row, i)
    BY <1>2, <1>9, <2>1 DEF TypesAt
  <2> QED
    BY <1>1, <2>2, <2>3
<1>10. CASE r.code = "ok"
  <2>1. PICK u, q : u = r.w /\ q = HandleGeometryTypes(u, c)
    OBVIOUS
  <2>2. u \in TypeVisitors /\ Hear(r, c) = q
    BY <1>2, <1>10, <2>1, Handles DEF TypeResults, Hear
  <2>3. /\ i = 1 => u = w
        /\ i > 1 => /\ u.mask = w.mask /\ X = {}
                    /\ IF b0 THEN /\ u.type = Outermost(row).type /\ u.dims = Outermost(row).dims
                                  /\ u.type \in 1 .. 7 /\ u.dims \in 1 .. 4
                       ELSE u.type = 0
    BY <1>2, <1>3, <1>7, <1>10, <2>1 DEF TypesAt, Done, Result
  <2>4. CASE c.op = "feat_start"
    <3>1. q.code = "ok" /\ q.w.mask = u.mask /\ q.w.type = 0
      BY <1>2, <2>1, <2>2, <2>4, TypesHandles
    <3>2. q \in TypeResults
      BY <1>2, <2>1, <2>2, TypesHandles
    <3>3. i = 1 /\ Y = {} /\ ~b
      BY <1>4, <1>5, <1>8, <2>4
    <3> QED
      BY <1>1, <1>3, <1>7, <2>2, <2>3, <3>1, <3>2, <3>3 DEF TypesAt
  <2>5. CASE c.op = "geom_start"
    <3>1. /\ q.code = "ok" /\ q.w.mask = u.mask
          /\ u.type = 0 => q.w.type = c.type /\ q.w.dims = c.dims
          /\ u.type # 0 => q.w = u
      BY <1>2, <2>1, <2>2, <2>5, TypesHandles
    <3>2. q \in TypeResults
      BY <1>2, <2>1, <2>2, TypesHandles
    <3>3. i > 1 /\ Y = {} /\ b
      BY <1>2, <1>4, <1>5, <1>8, <2>3, <2>5
    <3>4. ~b0 => Outermost(row) = c
      BY <1>1, <1>3, <2>5, OutermostIs
    <3>5. /\ q.w.type = Outermost(row).type /\ q.w.dims = Outermost(row).dims
          /\ q.w.type \in 1 .. 7 /\ q.w.dims \in 1 .. 4
      <4>1. CASE b0
        BY <1>5, <2>3, <2>5, <3>1, <3>3, <4>1
      <4>2. CASE ~b0
        BY <1>5, <1>6, <2>3, <2>5, <3>1, <3>3, <3>4, <4>2
      <4> QED
        BY <4>1, <4>2
    <3> QED
      BY <1>1, <1>3, <1>7, <2>2, <2>3, <3>1, <3>2, <3>3, <3>5 DEF TypesAt
  <2>6. CASE c.op = "coords" /\ c.xs # << >>
    <3>1. i > 1 /\ b0
      BY <1>2, <1>4, <1>5, <2>6
    <3>3. /\ q.code = "EAGAIN" /\ q.w.mask = u.mask \cup {u.dims * 8 + u.type}
      BY <1>2, <2>1, <2>2, <2>6, TypesHandles
    <3>4. q \in TypeResults
      BY <1>2, <2>1, <2>2, TypesHandles
    <3>5. u.dims * 8 + u.type = BitOf(row)
      BY <2>3, <3>1 DEF BitOf
    <3>6. CoordsOf(row) # {}
      <4>1. c.xs[1] \in ToSet(c.xs)
        BY <1>6, <2>6 DEF ToSet
      <4>2. ToSet(c.xs) \subseteq CoordsOf(row)
        BY <1>1, <1>2 DEF CoordsOf
      <4> QED
        BY <4>1, <4>2
    <3> QED
      BY <1>1, <2>2, <2>3, <3>1, <3>3, <3>4, <3>5, <3>6 DEF TypesAt
  <2>7. CASE c.op \notin {"feat_start", "geom_start", "coords"} \/ (c.op = "coords" /\ c.xs = << >>)
    <3>1. q = Done(u) /\ q \in TypeResults
      BY <1>2, <2>1, <2>2, <2>7, TypesHandles DEF Done, Result, TypeResults
    <3>2. q.code = "ok" /\ q.w = u
      BY <3>1 DEF Done, Result
    <3>3. i > 1 /\ b = b0
      BY <1>2, <1>4, <1>5, <2>7
    <3>4. Y = {}
      <4>1. c.xs = << >>
        BY <1>5, <2>7
      <4> QED
        BY <1>8, <2>3, <3>3, <4>1 DEF ToSet
    <3> QED
      BY <1>1, <1>3, <1>7, <2>2, <2>3, <3>1, <3>2, <3>3, <3>4 DEF TypesAt
  <2>8. \/ c.op = "feat_start" \/ c.op = "geom_start" \/ (c.op = "coords" /\ c.xs # << >>)
        \/ c.op \notin {"feat_start", "geom_start", "coords"} \/ (c.op = "coords" /\ c.xs = << >>)
    <3>1. CASE c.op = "coords"
      BY <3>1
    <3>2. CASE c.op # "coords"
      BY <3>2
    <3> QED
      BY <3>1, <3>2
  <2> QED
    BY <2>4, <2>5, <2>6, <2>7, <2>8
<1> QED
  BY <1>9, <1>10

(* A row with coordinates leaves the bit of its outermost geometry. *)
LEMMA TypesOfFeature ==
  ASSUME NEW w \in TypeVisitors, NEW row \in Rows,
         kernel.name = "unique_geometry_types_agg", NEW v, v = Visited(w, row.calls),
         NEW r, r = IF ByFeature /\ v.code = "EAGAIN" THEN Enough(v) ELSE v
  PROVE  /\ r.w \in TypeVisitors
         /\ CoordsOf(row) = {} => r.w.mask = w.mask
         /\ CoordsOf(row) # {} => r.w.mask = w.mask \cup {BitOf(row)}
<1>1. PICK n : n = Len(row.calls)
  OBVIOUS
<1>2. /\ n \in Nat /\ row.calls \in Seq(Calls)
      /\ Heard(row, 0) = {} /\ Heard(row, n) = CoordsOf(row)
  BY <1>1, CallsOfRow, HeardSteps
<1> DEFINE at == [i \in 0 .. n |-> TypesAt(w, row, i)]
<1>3. Done(w) \in TypeResults /\ Done(w) \in at[0]
  BY <1>2 DEF Done, Result, TypeResults, TypesAt
<1>4. \A i \in 0 .. n : at[i] \subseteq TypeResults
  BY DEF TypesAt
<1>5. ASSUME NEW i \in 1 .. n, NEW q \in at[i - 1]
      PROVE  Hear(q, row.calls[i]) \in at[i]
  <2>1. q \in TypesAt(w, row, i - 1) /\ i \in 1 .. Len(row.calls)
    BY <1>1, <1>2, <1>5
  <2>2. Hear(q, row.calls[i]) \in TypesAt(w, row, i)
    BY <2>1, TypesHears
  <2> QED
    BY <2>2
<1>6. ASSUME NEW q \in TypeResults, NEW c \in Calls
      PROVE  Hear(q, c) \in TypeResults
  <2>1. q.w \in TypeVisitors /\ Handle(q.w, c) = HandleGeometryTypes(q.w, c)
    BY Handles DEF TypeResults
  <2>2. HandleGeometryTypes(q.w, c) \in TypeResults
    BY <2>1, TypesHandles
  <2> QED
    BY <2>1, <2>2 DEF Hear
<1>7. at[n] = TypesAt(w, row, n)
  BY <1>2
<1> HIDE DEF at
<1>8. Visited(w, row.calls) \in at[Len(row.calls)]
  BY <1>1, <1>2, <1>3, <1>4, <1>5, <1>6, HearFold
<1>9. v \in TypesAt(w, row, n) /\ v \in TypeResults
  BY <1>1, <1>7, <1>8 DEF TypesAt
<1>10. Enough(v) = Done(v.w)
  <2>1. Enough(v) = HandleGeometryTypes(v.w, FeatEnd)
    BY Handles DEF Enough
  <2> QED
    BY <2>1 DEF FeatEnd, HandleGeometryTypes
<1>11. r.w = v.w /\ r.w \in TypeVisitors
  BY <1>9, <1>10 DEF Done, Result, TypeResults
<1>12. CASE n = 0
  BY <1>2, <1>9, <1>11, <1>12 DEF TypesAt, Done, Result
<1>13. CASE n # 0 /\ v.code = "ok"
  BY <1>2, <1>9, <1>11, <1>13 DEF TypesAt
<1>14. CASE n # 0 /\ v.code # "ok"
  BY <1>9, <1>11, <1>14 DEF TypesAt
<1> QED
  BY <1>12, <1>13, <1>14

-----------------------------------------------------------------------------
(* The codes of the bits are in the order of the bits.                     *)
LEMMA WkbIncreases ==
  ASSUME NEW a \in 0 .. 39, NEW b \in 0 .. 39, a < b
  PROVE  WkbValue(a) \in Int /\ WkbValue(b) \in Int /\ WkbValue(a) < WkbValue(b)
<1>1. PICK p, q, s, t : p = a \div 8 /\ q = a % 8 /\ s = b \div 8 /\ t = b % 8
  OBVIOUS
<1>2. /\ p \in Int /\ q \in 0 .. 7 /\ a = 8 * p + q
      /\ s \in Int /\ t \in 0 .. 7 /\ b = 8 * s + t
  BY <1>1
<1>3. WkbValue(a) = (p - 1) * 1000 + q /\ WkbValue(b) = (s - 1) * 1000 + t
  BY <1>1 DEF WkbValue
<1> QED
  BY <1>2, <1>3

(* The codes of the bits in a set, in order and each once; one more code   *)
(* when a higher bit comes.                                                *)
Codes(f, B) ==
  /\ ToSet(f) = {WkbValue(b) : b \in B}
  /\ \A j, k \in 1 .. Len(f) : j < k => f[j] < f[k]

(* A higher bit adds its code at the end. *)
LEMMA OneMoreCode ==
  ASSUME NEW f \in Seq(Int), NEW i \in 0 .. 39, NEW B \in SUBSET (0 .. i - 1), Codes(f, B),
         NEW g, g = f \o << WkbValue(i) >>
  PROVE  Codes(g, B \cup {i})
<1>1. PICK v, n : v = WkbValue(i) /\ n = Len(f)
  OBVIOUS
<1>2. v \in Int
  BY <1>1 DEF WkbValue
<1>3. /\ n \in Nat /\ DOMAIN f = 1 .. n /\ Len(g) = n + 1 /\ DOMAIN g = 1 .. n + 1
      /\ g[n + 1] = v /\ \A j \in 1 .. n : g[j] = f[j] /\ f[j] \in Int
  <2>1. g = f \o << v >> /\ << v >> \in Seq(Int)
    BY <1>1, <1>2
  <2> QED
    BY <1>1, <2>1
<1>4. 1 .. n + 1 = (1 .. n) \cup {n + 1} /\ n + 1 \notin 1 .. n
  BY <1>3
<1>5. ToSet(g) = ToSet(f) \cup {v}
  <2>1. \A x : x \in ToSet(g) <=> \E j \in 1 .. n + 1 : g[j] = x
    BY <1>3 DEF ToSet
  <2>2. \A x : x \in ToSet(f) <=> \E j \in 1 .. n : f[j] = x
    BY <1>3 DEF ToSet
  <2> QED
    BY <1>3, <1>4, <2>1, <2>2
<1>6. \A x \in ToSet(f) : x < v
  <2>1. ASSUME NEW x \in ToSet(f)
        PROVE  x < v
    <3>1. PICK b \in B : x = WkbValue(b)
      BY DEF Codes
    <3>2. b \in 0 .. 39 /\ b < i
      BY <3>1
    <3> QED
      BY <1>1, <3>1, <3>2, WkbIncreases
  <2> QED
    BY <2>1
<1>7. \A j \in 1 .. n : f[j] < v
  BY <1>3, <1>6 DEF ToSet
<1>8. \A j, k \in 1 .. n : j < k => f[j] < f[k]
  BY <1>1 DEF Codes
<1>9. \A j, k \in 1 .. n + 1 : j < k => g[j] < g[k]
  <2>1. ASSUME NEW j \in 1 .. n + 1, NEW k \in 1 .. n + 1, j < k
        PROVE  g[j] < g[k]
    <3>1. j \in 1 .. n /\ g[j] = f[j]
      BY <1>3, <2>1
    <3>2. CASE k \in 1 .. n
      BY <1>3, <1>8, <2>1, <3>1, <3>2
    <3>3. CASE k = n + 1
      BY <1>3, <1>7, <3>1, <3>3
    <3> QED
      BY <1>4, <3>2, <3>3
  <2> QED
    BY <2>1
<1>10. ToSet(g) = {WkbValue(b) : b \in B \cup {i}}
  BY <1>1, <1>5 DEF Codes
<1> QED
  BY <1>3, <1>9, <1>10 DEF Codes

(* The array has the codes of the bits that are set. *)
LEMMA TypesRead ==
  ASSUME NEW w, NEW mask \in SUBSET (0 .. 39), w.mask = mask,
         NEW s, s = UniqueGeometryTypes(w).values
  PROVE  s \in Seq(Int) /\ Codes(s, mask)
<1> DEFINE one(b) == IF b \in mask THEN << WkbValue(b) >> ELSE << >>
           M(i) == {b \in mask : b < i}
<1>1. PICK seqs : seqs = [i \in 1 .. 40 |-> one(i - 1)]
  OBVIOUS
<1>2. s = FlattenSeq(seqs)
  BY <1>1 DEF UniqueGeometryTypes
<1>3. \A i \in 1 .. 40 : seqs[i] = one(i - 1) /\ seqs[i] \in Seq(Int)
  <2>1. ASSUME NEW i \in 1 .. 40
        PROVE  seqs[i] = one(i - 1) /\ seqs[i] \in Seq(Int)
    <3>1. seqs[i] = one(i - 1)
      BY <1>1
    <3>2. PICK v : v = WkbValue(i - 1)
      OBVIOUS
    <3>3. v \in Int
      BY <3>2 DEF WkbValue
    <3>4. one(i - 1) = IF i - 1 \in mask THEN << v >> ELSE << >>
      BY <3>2
    <3> QED
      BY <3>1, <3>3, <3>4
  <2> QED
    BY <2>1
<1>4. PICK n : n = 40
  OBVIOUS
<1>5. \A b \in mask : b \in Nat /\ 0 <= b /\ b < n
  <2>1. \A b \in mask : b \in 0 .. 39
    OBVIOUS
  <2> QED
    BY <1>4, <2>1
<1>6. seqs \in Seq(Seq(Int)) /\ Len(seqs) = n /\ n \in Nat
  BY <1>1, <1>3, <1>4
<1>7. PICK h \in [0 .. n -> Seq(Int)] :
        /\ h[0] = << >> /\ FlattenSeq(seqs) = h[n]
        /\ \A i \in 1 .. n : h[i] = h[i - 1] \o seqs[i]
  <2> HIDE DEF one
  <2>1. \E h \in [0 .. Len(seqs) -> Seq(Int)] :
          /\ h[0] = << >>
          /\ \A i \in 1 .. Len(seqs) : h[i] = h[i - 1] \o seqs[i]
          /\ FlattenSeq(seqs) = h[Len(seqs)]
    BY <1>6, FlattenSteps
  <2> QED
    BY <1>6, <2>1
<1>8. PICK T : T = {i \in 0 .. n : Codes(h[i], M(i))}
  OBVIOUS
<1>9. 0 \in T
  <2>1. M(0) = {}
    <3>1. \A b \in mask : ~(b < 0)
      BY <1>5
    <3> QED
      BY <3>1
  <2>2. Codes(<< >>, {})
    BY DEF Codes, ToSet
  <2>3. 0 \in 0 .. n
    BY <1>6
  <2> HIDE DEF M
  <2> QED
    BY <1>7, <1>8, <2>1, <2>2, <2>3
<1>10. ASSUME NEW i \in 0 .. n - 1, i \in T
      PROVE  i + 1 \in T
  <2>1. /\ h[i] \in Seq(Int) /\ i + 1 \in 1 .. n /\ i + 1 \in 0 .. n
        /\ (i + 1) - 1 = i /\ i \in 0 .. 39
    <3>1. i + 1 \in 1 .. n /\ i + 1 \in 0 .. n /\ (i + 1) - 1 = i /\ i \in 0 .. n
      BY <1>6
    <3>2. i \in 0 .. 39
      BY <1>4
    <3> QED
      BY <1>7, <3>1, <3>2
  <2>2. Codes(h[i], M(i))
    BY <1>8, <1>10
  <2>3. h[i + 1] = h[i] \o one(i)
    <3> HIDE DEF one
    <3> QED
      BY <1>3, <1>4, <1>7, <2>1
  <2>4. Codes(h[i + 1], M(i + 1))
    <3>1. CASE i \notin mask
      <4>1. M(i + 1) = M(i) /\ h[i + 1] = h[i]
        <5>1. \A b \in mask : b < i + 1 <=> b < i
          BY <1>5, <2>1, <3>1
        <5>2. M(i + 1) = M(i)
          BY <5>1
        <5>3. h[i] \o << >> = h[i]
          BY <2>1
        <5>4. h[i + 1] = h[i]
          BY <2>3, <3>1, <5>3
        <5> HIDE DEF M
        <5> QED
          BY <5>2, <5>4
      <4> HIDE DEF M
      <4> QED
        BY <2>2, <4>1
    <3>2. CASE i \in mask
      <4>1. M(i) \in SUBSET (0 .. i - 1) /\ M(i + 1) = M(i) \cup {i}
        <5>1. \A b \in mask : /\ b < i + 1 <=> b < i \/ b = i
                              /\ b < i => b \in 0 .. i - 1
          BY <1>5, <2>1
        <5> QED
          BY <2>1, <3>2, <5>1
      <4>2. h[i + 1] = h[i] \o << WkbValue(i) >>
        BY <2>3, <3>2
      <4> HIDE DEF M
      <4> QED
        BY <2>1, <2>2, <4>1, <4>2, OneMoreCode
    <3> QED
      BY <3>1, <3>2
  <2> HIDE DEF M
  <2> QED
    BY <1>8, <2>1, <2>4
<1>11. n \in T
  <2>1. \A i \in 0 .. n - 1 : i \in T => i + 1 \in T
    BY <1>10
  <2>2. n \in 0 .. n
    BY <1>6
  <2> QED
    BY <1>6, <1>9, <2>1, <2>2, IntervalInduction
<1>12. M(n) = mask
  BY <1>5
<1> HIDE DEF M
<1> QED
  BY <1>2, <1>7, <1>8, <1>11, <1>12

(* The bit of a row with coordinates stands for its outermost geometry. *)
LEMMA OutermostBit ==
  ASSUME NEW row \in Rows, CoordsOf(row) # {}
  PROVE  /\ BitOf(row) \in 0 .. 39
         /\ WkbValue(BitOf(row)) = (Outermost(row).dims - 1) * 1000 + Outermost(row).type
<1>1. PICK S : S = {k \in DOMAIN row.calls : row.calls[k].op = "geom_start"}
  OBVIOUS
<1>2. /\ DOMAIN row.calls = 1 .. Len(row.calls) /\ Len(row.calls) \in Nat
      /\ S \in SUBSET Nat
  BY <1>1, CallsOfRow
<1>3. S # {}
  <2>1. PICK i \in DOMAIN row.calls : ToSet(row.calls[i].xs) # {}
    BY DEF CoordsOf
  <2>2. row.calls[i].xs # << >>
    BY <2>1 DEF ToSet
  <2>3. Before(row, "geom_start", i)
    BY <1>2, <2>1, <2>2, CallsOfRow
  <2>4. PICK k \in 1 .. i : row.calls[k].op = "geom_start"
    BY <2>3 DEF Before
  <2>5. k \in DOMAIN row.calls
    BY <1>2, <2>1, <2>4
  <2> QED
    BY <1>1, <2>4, <2>5
<1>4. PICK m \in S : \A k \in S : m <= k
  BY <1>2, <1>3, Least
<1>5. Min(S) = m
  BY <1>2, <1>4, LeastIs
<1>6. PICK c : c = Outermost(row)
  OBVIOUS
<1>7. c = row.calls[m] /\ m \in 1 .. Len(row.calls) /\ c.op = "geom_start"
  BY <1>1, <1>2, <1>4, <1>5, <1>6 DEF Outermost
<1>8. c \in Calls /\ c.type \in 1 .. 7
  BY <1>7, CallsOfRow
<1>9. PICK d, t, bit : d = c.dims /\ t = c.type /\ bit = BitOf(row)
  OBVIOUS
<1>10. d \in 1 .. 4 /\ t \in 1 .. 7 /\ bit = d * 8 + t
  BY <1>6, <1>8, <1>9 DEF Calls, BitOf
<1>11. bit \in 0 .. 39 /\ bit \div 8 = d /\ bit % 8 = t
  BY <1>10
<1> QED
  BY <1>6, <1>9, <1>11 DEF WkbValue

-----------------------------------------------------------------------------
(* What a visitor holds of the rows that no array has yet, or of all of    *)
(* them.  Text is only sure of its flags while no feature is left unended; *)
(* a box has the features that ended, whatever failed between them.        *)
TextFits(w, vs) ==
  w \in Writers /\ (AllEnded(vs) => FlagsFit(w, vs) /\ w.length = Len(vs))

BoundsFit(values, es) ==
  /\ Len(values) = Len(es)
  /\ \A i \in 1 .. Len(es) : Bounds(CoordsOf(es[i].row), values[i])
BoxesFit(w, vs) ==
  w \in BoxVisitors /\ FlagsFit(w, EndedOf(vs)) /\ BoundsFit(w.values, EndedOf(vs))

CoordsHeard(vs) == UNION {CoordsOf(vs[i].row) : i \in DOMAIN vs}
BoxAggFits(w, vs) ==
  w \in BoxVisitors /\ w.values = << >> /\ Bounds(CoordsHeard(vs), w.bounds)

BitsOf(vs) == {BitOf(row) : row \in {u \in {vs[i].row : i \in DOMAIN vs} : CoordsOf(u) # {}}}
TypesFit(w, vs) == w \in TypeVisitors /\ w.mask = BitsOf(vs)

Pending == SubSeq(visited, due + 1, Len(visited))

VisitorFits(w, pending, all) ==
  /\ WritesText => TextFits(w, pending)
  /\ kernel.name = "box" => BoxesFit(w, pending)
  /\ kernel.name = "box_agg" => BoxAggFits(w, all)
  /\ kernel.name = "unique_geometry_types_agg" => TypesFit(w, all)

Phases ==
  /\ kernel \in [name : Names, started : BOOLEAN]
  /\ visited \in Seq(Seen) /\ rest \in Seq(Rows) /\ due \in 0 .. Len(visited)
  /\ phase = "visiting" => kernel.started /\ out = NoArray
  /\ ~kernel.started => due = 0 /\ visited = << >>

(* The inductive invariant: nothing is visited before the kernel is        *)
(* started, the last array is out of the way while a batch is visited, and *)
(* the visitor holds what it was told.                                     *)
KernelInv ==
  Phases /\ (kernel.started => VisitorFits(visitor, Pending, visited))

-----------------------------------------------------------------------------
(* Parts of what was seen are sequences of it, even where nothing can be    *)
(* seen at all.                                                            *)
LEMMA SeenTypes ==
  ASSUME NEW vs \in Seq(Seen)
  PROVE  /\ EndedOf(<< >>) = << >> /\ EndedOf(vs) \in Seq(Seen)
         /\ \A d \in 0 .. Len(vs) : SubSeq(vs, d + 1, Len(vs)) \in Seq(Seen)
<1>1. CASE Seen # {}
  <2>1. PICK v \in Seen : TRUE
    BY <1>1
  <2>2. EndedOf(<< >>) = << >> /\ EndedOf(vs) \in Seq(Seen)
    BY <2>1, EndedType
  <2>3. \A d \in 0 .. Len(vs) : SubSeq(vs, d + 1, Len(vs)) \in Seq(Seen)
    BY <2>1, PendingSteps
  <2> QED
    BY <2>2, <2>3
<1>2. CASE Seen = {}
  <2>1. vs = << >> /\ << >> \in Seq(Seen)
    BY <1>2
  <2>2. EndedOf(<< >>) = << >>
    <3>1. [i \in DOMAIN << >> |-> IF << >>[i].ended THEN << << >>[i] >> ELSE << >>] = << >>
      OBVIOUS
    <3>2. << >> \in Seq(Seq(Seen)) /\ Len(<< >>) = 0
      OBVIOUS
    <3>3. PICK h \in [0 .. 0 -> Seq(Seen)] : h[0] = << >> /\ FlattenSeq(<< >>) = h[0]
      BY <3>2, FlattenSteps
    <3> QED
      BY <3>1, <3>3 DEF EndedOf
  <2>3. \A d \in 0 .. 0 : SubSeq(<< >>, d + 1, 0) \in Seq(Seen)
    OBVIOUS
  <2>4. \A d \in 0 .. Len(vs) : SubSeq(vs, d + 1, Len(vs)) \in Seq(Seen)
    BY <2>1, <2>3
  <2> QED
    BY <2>1, <2>2, <2>4
<1> QED
  BY <1>1, <1>2

(* What starts with no rows fits no rows. *)
LEMMA NothingHeard ==
  /\ EndedOf(<< >>) = << >> /\ AllEnded(<< >>) /\ CoordsHeard(<< >>) = {} /\ BitsOf(<< >>) = {}
  /\ \A w \in Writers : w.bitmap = NoBitmap /\ w.nulls = 0 /\ w.length = 0 => TextFits(w, << >>)
  /\ \A w \in BoxVisitors : /\ w.bitmap = NoBitmap /\ w.nulls = 0 /\ w.values = << >>
                              => BoxesFit(w, << >>)
                            /\ w.values = << >> /\ w.bounds = EmptyBounds
                              => BoxAggFits(w, << >>)
  /\ \A w \in TypeVisitors : w.mask = {} => TypesFit(w, << >>)
<1>1. << >> \in Seq(Seen) /\ EndedOf(<< >>) = << >>
  <2>1. << >> \in Seq(Seen)
    OBVIOUS
  <2> QED
    BY <2>1, SeenTypes
<1>2. DOMAIN << >> = {} /\ Len(<< >>) = 0 /\ 1 .. 0 = {}
  OBVIOUS
<1>3. AllEnded(<< >>) /\ CoordsHeard(<< >>) = {} /\ BitsOf(<< >>) = {}
  BY <1>2 DEF AllEnded, CoordsHeard, BitsOf
<1>4. BoundsFit(<< >>, << >>)
  BY <1>2 DEF BoundsFit
<1>5. \A w \in Writers : w.bitmap = NoBitmap /\ w.nulls = 0 /\ w.length = 0 => TextFits(w, << >>)
  BY <1>2, NoFlags DEF TextFits, FlagsFit
<1>6. \A w \in BoxVisitors : /\ w.bitmap = NoBitmap /\ w.nulls = 0 /\ w.values = << >>
                               => BoxesFit(w, << >>)
                             /\ w.values = << >> /\ w.bounds = EmptyBounds
                               => BoxAggFits(w, << >>)
  BY <1>1, <1>3, <1>4, NoFlags, EmptyBox DEF BoxesFit, BoxAggFits, FlagsFit
<1> QED
  BY <1>1, <1>3, <1>5, <1>6 DEF TypesFit

(* The visitors as finish_start sets them up. *)
LEMMA PrivateDataFits ==
  ASSUME NEW options \in Options
  PROVE  VisitorFits(PrivateData(options), << >>, << >>)
<1>1. \A limit \in Int : WKTWriterInit(TRUE, limit) \in Writers
  <2>1. ASSUME NEW limit \in Int
        PROVE  WKTWriterInit(TRUE, limit) \in Writers
    <3>1. /\ << >> \in Seq(FrameSet) /\ << >> \in Seq(Token) /\ << >> \in Seq(Nat)
          /\ NoBitmap \in Bitmap
      BY Tuples, NoBitmapType
    <3> QED
      BY <3>1 DEF WKTWriterInit, Writers
  <2> QED
    BY <2>1
<1>2. \A limit \in Int : TextFits(WKTWriterInit(TRUE, limit), << >>)
  <2>1. \A limit : LET w == WKTWriterInit(TRUE, limit)
                   IN w.bitmap = NoBitmap /\ w.nulls = 0 /\ w.length = 0
    BY DEF WKTWriterInit
  <2> QED
    BY <1>1, <2>1, NothingHeard
<1>3. options.limit \in Int /\ Unlimited \in Int
  BY KernelAssumption, WriterAssumption
<1>4. BoxesFit(BoxInit, << >>) /\ BoxAggFits(BoxInit, << >>)
  <2>1. PICK b : b = EmptyBounds
    OBVIOUS
  <2>2. b \in BoxSet /\ << >> \in Seq(BoxSet) /\ NoBitmap \in Bitmap /\ 0 \in Nat
    BY <2>1, EmptyBox, Tuples, NoBitmapType
  <2>3. BoxInit = [bounds |-> b, isNull |-> FALSE, bitmap |-> NoBitmap,
                   values |-> << >>, nulls |-> 0]
    BY <2>1 DEF BoxInit
  <2>4. BoxInit \in BoxVisitors
    BY <2>2, <2>3 DEF BoxVisitors
  <2> QED
    BY <2>1, <2>3, <2>4, NothingHeard
<1>5. TypesFit(GeometryTypesInit, << >>)
  <2>1. GeometryTypesInit \in TypeVisitors /\ GeometryTypesInit.mask = {}
    BY DEF GeometryTypesInit, TypeVisitors
  <2> QED
    BY <2>1, NothingHeard
<1>6. WritesText => TextFits(PrivateData(options), << >>)
  <2>1. CASE kernel.name = "format_wkt"
    BY <1>2, <1>3, <2>1 DEF PrivateData
  <2>2. CASE kernel.name = "as_geoarrow"
    <3>1. PrivateData(options) = WKTWriterInit(TRUE, Unlimited)
      BY <2>2 DEF PrivateData
    <3> QED
      BY <1>2, <1>3, <3>1
  <2> QED
    BY <2>1, <2>2 DEF WritesText
<1>7. kernel.name \in {"box", "box_agg"} => PrivateData(options) = BoxInit
  BY DEF PrivateData
<1>8. kernel.name = "unique_geometry_types_agg" => PrivateData(options) = GeometryTypesInit
  BY DEF PrivateData
<1> QED
  BY <1>4, <1>5, <1>6, <1>7, <1>8 DEF VisitorFits

-----------------------------------------------------------------------------
(* One more row.  What a visitor holds of the rows before goes on to hold   *)
(* of them and of this one.                                                 *)
AfterFeature(r, w, row, ended) ==
  \E v : /\ v = Visited(w, row.calls)
         /\ r = IF ByFeature /\ v.code = "EAGAIN" THEN Enough(v) ELSE v
         /\ ended <=> (ByFeature /\ v.code = "EAGAIN")
                            \/ (v.code = "ok" /\ Has(row.calls, "feat_end"))

(* Flags, for a visitor that marks the row. *)
LEMMA FlagsMore ==
  ASSUME NEW w, NEW u, NEW vs \in Seq(Seen), NEW v \in Seen, w.bitmap \in Bitmap,
         FlagsFit(w, vs), u.bitmap = Marked(w.bitmap, v.row.null, Len(vs) + 1),
         u.nulls = IF v.row.null THEN w.nulls + 1 ELSE w.nulls
  PROVE  FlagsFit(u, Append(vs, v))
<1>1. PICK b, n : b = w.bitmap /\ n = w.nulls
  OBVIOUS
<1>2. b \in Bitmap /\ BitsFit(b, vs) /\ n = Cardinality(NullsAmong(vs))
  BY <1>1 DEF FlagsFit
<1>3. /\ BitsFit(Marked(b, v.row.null, Len(vs) + 1), Append(vs, v))
      /\ (IF v.row.null THEN n + 1 ELSE n) = Cardinality(NullsAmong(Append(vs, v)))
  BY <1>2, FlagsStep
<1> QED
  BY <1>1, <1>3 DEF FlagsFit

(* The writer of text. *)
LEMMA TextMore ==
  ASSUME NEW w, NEW vs \in Seq(Seen), TextFits(w, vs), WritesText, NEW row \in Rows,
         NEW ended \in BOOLEAN, NEW r, AfterFeature(r, w, row, ended)
  PROVE  TextFits(r.w, Append(vs, [row |-> row, ended |-> ended]))
<1>1. PICK v : /\ v = Visited(w, row.calls)
               /\ r = IF ByFeature /\ v.code = "EAGAIN" THEN Enough(v) ELSE v
               /\ ended <=> (ByFeature /\ v.code = "EAGAIN")
                            \/ (v.code = "ok" /\ Has(row.calls, "feat_end"))
  BY DEF AfterFeature
<1>2. w \in Writers
  BY DEF TextFits
<1>3. r.w \in Writers
  BY <1>1, <1>2, TextOfFeature
<1>4. ended => /\ r.w.length = w.length + 1
               /\ r.w.bitmap = Marked(w.bitmap, row.null, w.length + 1)
               /\ r.w.nulls = IF row.null THEN w.nulls + 1 ELSE w.nulls
  <2>1. \/ ByFeature /\ v.code = "EAGAIN"
        \/ v.code = "ok" /\ Has(row.calls, "feat_end")
        => /\ r.w.length = w.length + 1
           /\ r.w.bitmap = Marked(w.bitmap, row.null, w.length + 1)
           /\ r.w.nulls = IF row.null THEN w.nulls + 1 ELSE w.nulls
    BY <1>1, <1>2, TextOfFeature
  <2> QED
    BY <1>1, <2>1
<1>5. PICK s : s = [row |-> row, ended |-> ended]
  OBVIOUS
<1>6. s \in Seen /\ s.row = row /\ s.ended = ended
  BY <1>5 DEF Seen
<1>7. ASSUME AllEnded(Append(vs, s))
      PROVE  FlagsFit(r.w, Append(vs, s)) /\ r.w.length = Len(Append(vs, s))
  <2>1. AllEnded(vs) /\ ended
    BY <1>6, <1>7, EndedType
  <2>2. FlagsFit(w, vs) /\ w.length = Len(vs) /\ Len(vs) \in Nat /\ w.bitmap \in Bitmap
    BY <1>2, <2>1 DEF TextFits, Writers
  <2>3. /\ r.w.bitmap = Marked(w.bitmap, s.row.null, Len(vs) + 1)
        /\ r.w.nulls = IF s.row.null THEN w.nulls + 1 ELSE w.nulls
    BY <1>4, <1>6, <2>1, <2>2
  <2>4. FlagsFit(r.w, Append(vs, s))
    BY <1>6, <2>2, <2>3, FlagsMore
  <2>5. r.w.length = Len(Append(vs, s))
    BY <1>4, <2>1, <2>2
  <2> QED
    BY <2>4, <2>5
<1> QED
  BY <1>3, <1>5, <1>7 DEF TextFits

(* The boxes of the features that ended. *)
LEMMA BoxesMore ==
  ASSUME NEW w, NEW vs \in Seq(Seen), BoxesFit(w, vs), kernel.name = "box", NEW row \in Rows,
         NEW ended \in BOOLEAN, NEW r, AfterFeature(r, w, row, ended)
  PROVE  BoxesFit(r.w, Append(vs, [row |-> row, ended |-> ended]))
<1>1. PICK v : /\ v = Visited(w, row.calls)
               /\ r = IF ByFeature /\ v.code = "EAGAIN" THEN Enough(v) ELSE v
               /\ ended <=> (ByFeature /\ v.code = "EAGAIN")
                            \/ (v.code = "ok" /\ Has(row.calls, "feat_end"))
  BY DEF AfterFeature
<1>2. w \in BoxVisitors /\ ~ByFeature
  BY DEF BoxesFit, ByFeature
<1>3. r = v /\ r = Visited(w, row.calls)
  BY <1>1, <1>2
<1>4. r \in BoxResults
  BY <1>2, <1>3, BoxOfFeature
<1>5. r.w \in BoxVisitors /\ r.code = "ok"
  BY <1>4 DEF BoxResults
<1>6. ended <=> Has(row.calls, "feat_end")
  BY <1>1, <1>2, <1>3, <1>5
<1>7. PICK s, es : s = [row |-> row, ended |-> ended] /\ es = EndedOf(vs)
  OBVIOUS
<1>8. /\ s \in Seen /\ s.row = row /\ s.ended = ended /\ es \in Seq(Seen)
      /\ FlagsFit(w, es) /\ BoundsFit(w.values, es)
  <2>1. s \in Seen /\ s.row = row /\ s.ended = ended
    BY <1>7 DEF Seen
  <2>2. es \in Seq(Seen)
    BY <1>7, <2>1, EndedType
  <2> QED
    BY <1>7, <2>1, <2>2 DEF BoxesFit
<1>9. EndedOf(Append(vs, s)) = IF ended THEN Append(es, s) ELSE es
  BY <1>7, <1>8, EndedType
<1>10. CASE ~ended
  <2>1. r.w.values = w.values /\ r.w.bitmap = w.bitmap /\ r.w.nulls = w.nulls
    BY <1>2, <1>3, <1>6, <1>10, BoxOfFeature
  <2> QED
    BY <1>5, <1>7, <1>8, <1>9, <1>10, <2>1 DEF BoxesFit, FlagsFit
<1>11. CASE ended
  <2>1. /\ \E b \in BoxSet : r.w.values = Append(w.values, b) /\ Bounds(CoordsOf(row), b)
        /\ r.w.bitmap = Marked(w.bitmap, row.null, Len(w.values) + 1)
        /\ r.w.nulls = IF row.null THEN w.nulls + 1 ELSE w.nulls
    BY <1>2, <1>3, <1>6, <1>11, BoxOfFeature
  <2>2. PICK b \in BoxSet : r.w.values = Append(w.values, b) /\ Bounds(CoordsOf(row), b)
    BY <2>1
  <2>3. PICK n, values : n = Len(es) /\ values = w.values
    OBVIOUS
  <2>4. values \in Seq(BoxSet) /\ n \in Nat /\ Len(values) = n /\ w.bitmap \in Bitmap
    BY <1>2, <1>8, <2>3 DEF BoxVisitors, BoundsFit
  <2>5. FlagsFit(r.w, Append(es, s))
    BY <1>8, <2>1, <2>3, <2>4, FlagsMore
  <2>6. /\ Len(Append(values, b)) = n + 1 /\ Len(Append(es, s)) = n + 1
        /\ Append(values, b)[n + 1] = b /\ Append(es, s)[n + 1] = s
        /\ \A i \in 1 .. n : Append(values, b)[i] = values[i] /\ Append(es, s)[i] = es[i]
    BY <1>8, <2>3, <2>4
  <2>7. BoundsFit(Append(values, b), Append(es, s))
    <3>1. \A i \in 1 .. n : Bounds(CoordsOf(es[i].row), values[i])
      BY <1>8, <2>3 DEF BoundsFit
    <3>2. ASSUME NEW i \in 1 .. n + 1
          PROVE  Bounds(CoordsOf(Append(es, s)[i].row), Append(values, b)[i])
      <4>1. CASE i = n + 1
        BY <1>8, <2>2, <2>6, <4>1
      <4>2. CASE i \in 1 .. n
        BY <2>6, <3>1, <4>2
      <4>3. i = n + 1 \/ i \in 1 .. n
        BY <2>4
      <4> QED
        BY <4>1, <4>2, <4>3
    <3> QED
      BY <2>6, <3>2 DEF BoundsFit
  <2> QED
    BY <1>5, <1>7, <1>9, <1>11, <2>2, <2>3, <2>5, <2>7 DEF BoxesFit
<1> QED
  BY <1>10, <1>11

(* The rows that were seen, and one more. *)
LEMMA RowsMore ==
  ASSUME NEW vs \in Seq(Seen), NEW s \in Seen
  PROVE  /\ {Append(vs, s)[i].row : i \in DOMAIN Append(vs, s)}
              = {vs[i].row : i \in DOMAIN vs} \cup {s.row}
         /\ {vs[i].row : i \in DOMAIN vs} \subseteq Rows
<1>1. PICK n, t : n = Len(vs) /\ t = Append(vs, s)
  OBVIOUS
<1>2. /\ n \in Nat /\ DOMAIN vs = 1 .. n /\ DOMAIN t = 1 .. n + 1 /\ t[n + 1] = s
      /\ \A i \in 1 .. n : t[i] = vs[i] /\ vs[i] \in Seen
  BY <1>1
<1>3. 1 .. n + 1 = (1 .. n) \cup {n + 1}
  BY <1>2
<1>4. {t[i].row : i \in DOMAIN t} = {vs[i].row : i \in DOMAIN vs} \cup {s.row}
  <2>1. {t[i].row : i \in DOMAIN t} \subseteq {vs[i].row : i \in DOMAIN vs} \cup {s.row}
    BY <1>2, <1>3
  <2>2. {vs[i].row : i \in DOMAIN vs} \subseteq {t[i].row : i \in DOMAIN t}
    BY <1>2, <1>3
  <2>3. s.row \in {t[i].row : i \in DOMAIN t}
    BY <1>2, <1>3
  <2> QED
    BY <2>1, <2>2, <2>3
<1>5. \A i \in DOMAIN vs : vs[i].row \in Rows
  BY <1>2 DEF Seen
<1> QED
  BY <1>1, <1>4, <1>5

(* The box of everything. *)
LEMMA BoxAggMore ==
  ASSUME NEW w, NEW vs \in Seq(Seen), BoxAggFits(w, vs), kernel.name = "box_agg",
         NEW row \in Rows, NEW ended \in BOOLEAN, NEW r, AfterFeature(r, w, row, ended)
  PROVE  BoxAggFits(r.w, Append(vs, [row |-> row, ended |-> ended]))
<1>1. r = Visited(w, row.calls)
  <2>1. ~ByFeature
    BY DEF ByFeature
  <2> QED
    BY <2>1 DEF AfterFeature
<1>2. PICK s, t, X : /\ s = [row |-> row, ended |-> ended] /\ t = Append(vs, s)
                     /\ X = CoordsHeard(vs)
  OBVIOUS
<1>3. s \in Seen /\ s.row = row
  BY <1>2 DEF Seen
<1>4. PICK R : R = {vs[i].row : i \in DOMAIN vs}
  OBVIOUS
<1>5. {t[i].row : i \in DOMAIN t} = R \cup {row} /\ R \subseteq Rows
  BY <1>2, <1>3, <1>4, RowsMore
<1>6. X = UNION {CoordsOf(u) : u \in R}
  BY <1>2, <1>4 DEF CoordsHeard
<1>7. CoordsHeard(t) = X \cup CoordsOf(row)
  <2>1. CoordsHeard(t) = UNION {CoordsOf(u) : u \in {t[i].row : i \in DOMAIN t}}
    BY DEF CoordsHeard
  <2> QED
    BY <1>5, <1>6, <2>1
<1>8. X \in SUBSET (0 .. 9)
  BY <1>5, <1>6, CoordsInRange
<1>9. w \in BoxVisitors /\ w.values = << >> /\ Bounds(X, w.bounds)
  BY <1>2 DEF BoxAggFits
<1>10. r \in BoxResults /\ r.w.values = w.values /\ Bounds(X \cup CoordsOf(row), r.w.bounds)
  BY <1>1, <1>8, <1>9, BoxAggOfFeature
<1>11. r.w \in BoxVisitors
  BY <1>10 DEF BoxResults
<1> QED
  BY <1>2, <1>7, <1>9, <1>10, <1>11 DEF BoxAggFits

(* The geometry types. *)
LEMMA TypesMore ==
  ASSUME NEW w, NEW vs \in Seq(Seen), TypesFit(w, vs),
         kernel.name = "unique_geometry_types_agg",
         NEW row \in Rows, NEW ended \in BOOLEAN, NEW r, AfterFeature(r, w, row, ended)
  PROVE  TypesFit(r.w, Append(vs, [row |-> row, ended |-> ended]))
<1>1. PICK v : /\ v = Visited(w, row.calls)
               /\ r = IF ByFeature /\ v.code = "EAGAIN" THEN Enough(v) ELSE v
  BY DEF AfterFeature
<1>2. PICK s, t, R : /\ s = [row |-> row, ended |-> ended] /\ t = Append(vs, s)
                     /\ R = {vs[i].row : i \in DOMAIN vs}
  OBVIOUS
<1>3. s \in Seen /\ s.row = row
  BY <1>2 DEF Seen
<1>4. {t[i].row : i \in DOMAIN t} = R \cup {row}
  BY <1>2, <1>3, RowsMore
<1>5. BitsOf(vs) = {BitOf(u) : u \in {q \in R : CoordsOf(q) # {}}}
  BY <1>2 DEF BitsOf
<1>6. BitsOf(t) = {BitOf(u) : u \in {q \in R \cup {row} : CoordsOf(q) # {}}}
  BY <1>4 DEF BitsOf
<1>7. /\ CoordsOf(row) = {} => BitsOf(t) = BitsOf(vs)
      /\ CoordsOf(row) # {} => BitsOf(t) = BitsOf(vs) \cup {BitOf(row)}
  BY <1>5, <1>6
<1>8. w \in TypeVisitors /\ w.mask = BitsOf(vs)
  BY DEF TypesFit
<1>9. r.w \in TypeVisitors
  BY <1>1, <1>8, TypesOfFeature
<1>10. /\ CoordsOf(row) = {} => r.w.mask = w.mask
       /\ CoordsOf(row) # {} => r.w.mask = w.mask \cup {BitOf(row)}
  BY <1>1, <1>8, TypesOfFeature
<1> QED
  BY <1>2, <1>7, <1>8, <1>9, <1>10 DEF TypesFit

-----------------------------------------------------------------------------
(* finish_push_batch: nothing, the text, or the boxes. *)
LEMMA FinishedPush ==
  ASSUME FinishPush
  PROVE  \/ out' = out /\ visitor' = visitor /\ due' = due
         \/ /\ WritesText /\ visitor' = WKTWriterFinished(visitor) /\ due' = Len(visited)
            /\ out' = Handed("text", WKTWriterFinish(visitor))
         \/ /\ kernel.name = "box" /\ visitor' = box_finished(visitor) /\ due' = Len(visited)
            /\ out' = Handed("boxes", box_finish(visitor))
<1>1. CASE WritesText /\ CanFinish(visitor)
  BY <1>1 DEF FinishPush, WritesText
<1>2. CASE kernel.name = "box"
  BY <1>2 DEF FinishPush, WritesText
<1>3. CASE ~(WritesText /\ CanFinish(visitor)) /\ kernel.name # "box"
  BY <1>3 DEF FinishPush
<1> QED
  BY <1>1, <1>2, <1>3

(* The finish functions: nothing, the types, or the box of everything. *)
LEMMA Finished ==
  ASSUME Finish
  PROVE  \/ visitor' = visitor /\ out'.kind \in {"none", "void"}
         \/ /\ kernel.name = "unique_geometry_types_agg" /\ visitor' = visitor
            /\ out' = Handed("types", UniqueGeometryTypes(visitor))
         \/ /\ kernel.name = "box_agg" /\ visitor' = box_finished(box_flush(visitor))
            /\ out' = Handed("boxes", box_finish(box_flush(visitor)))
<1>1. CASE Scalar
  BY <1>1 DEF Finish, Scalar, NoArray
<1>2. CASE kernel.name = "unique_geometry_types_agg"
  BY <1>2 DEF Finish, Scalar
<1>3. CASE kernel.name = "box_agg"
  BY <1>3 DEF Finish, Scalar
<1>4. CASE ~Scalar /\ kernel.name \notin {"unique_geometry_types_agg", "box_agg"}
  BY <1>4 DEF Finish, Handed
<1> QED
  BY <1>1, <1>2, <1>3, <1>4

-----------------------------------------------------------------------------
(* The invariant holds at the start, ... *)
LEMMA KernelInvInit == Init => KernelInv
<1>1. 0 \in 0 .. Len(<< >>) /\ << >> \in Seq(Seen) /\ << >> \in Seq(Rows)
  OBVIOUS
<1> QED
  BY <1>1 DEF Init, KernelInv, Phases

(* ... and no step changes the name of the kernel or breaks it. *)
LEMMA KernelInvNext == KernelInv /\ [Next]_vars => KernelInv' /\ kernel'.name = kernel.name
<1> SUFFICES ASSUME KernelInv, [Next]_vars
             PROVE  KernelInv' /\ kernel'.name = kernel.name
  OBVIOUS
<1>1. /\ kernel \in [name : Names, started : BOOLEAN]
      /\ visited \in Seq(Seen) /\ rest \in Seq(Rows) /\ due \in 0 .. Len(visited)
      /\ phase = "visiting" => kernel.started /\ out = NoArray
      /\ ~kernel.started => due = 0 /\ visited = << >>
  BY DEF KernelInv, Phases
<1>2. kernel.started => VisitorFits(visitor, Pending, visited)
  BY DEF KernelInv
<1>3. Pending \in Seq(Seen)
  BY <1>1, SeenTypes DEF Pending
<1>4. ASSUME NEW options \in Options, Start(options)
      PROVE  KernelInv' /\ kernel'.name = kernel.name
  <2>1. /\ ~kernel.started /\ visitor' = PrivateData(options)
        /\ rest' = rest /\ out' = out /\ visited' = visited /\ due' = due
        /\ phase' \in {"idle", "unusable"}
        /\ kernel' = kernel \/ kernel' = [kernel EXCEPT !.started = TRUE]
    BY <1>4 DEF Start
  <2>2. kernel' \in [name : Names, started : BOOLEAN] /\ kernel'.name = kernel.name
    BY <1>1, <2>1
  <2>3. visited' = << >> /\ due' = 0
    BY <1>1, <2>1
  <2>4. Pending' = << >>
    BY <2>3 DEF Pending
  <2>5. VisitorFits(PrivateData(options), << >>, << >>)
    BY PrivateDataFits
  <2>6. VisitorFits(visitor, Pending, visited)'
    BY <2>1, <2>2, <2>3, <2>4, <2>5 DEF VisitorFits, WritesText
  <2>7. Phases'
    BY <1>1, <2>1, <2>2, <2>3 DEF Phases
  <2> QED
    BY <2>2, <2>6, <2>7 DEF KernelInv
<1>5. ASSUME NEW batch \in Batches, PushBatch(batch)
      PROVE  KernelInv' /\ kernel'.name = kernel.name
  <2>1. /\ kernel' = kernel /\ visitor' = visitor /\ visited' = visited /\ due' = due
        /\ kernel.started
        /\ IF Visits THEN phase' = "visiting" /\ rest' = batch
           ELSE phase' = phase /\ rest' = rest
        /\ phase = "idle"
    BY <1>5 DEF PushBatch
  <2>2. Visits => out' = NoArray
    BY <1>5 DEF PushBatch, Visits
  <2>3. batch \in Seq(Rows)
    BY KernelAssumption
  <2>4. Phases'
    BY <1>1, <2>1, <2>2, <2>3 DEF Phases, NoArray
  <2>5. Pending' = Pending
    BY <2>1 DEF Pending
  <2> QED
    BY <1>2, <2>1, <2>4, <2>5 DEF KernelInv, VisitorFits, WritesText
<1>6. ASSUME VisitFeature
      PROVE  KernelInv' /\ kernel'.name = kernel.name
  <2>1. PICK row, v, enough, r, ended, s :
          /\ row = Head(rest) /\ v = Visited(visitor, row.calls)
          /\ enough = (ByFeature /\ v.code = "EAGAIN")
          /\ r = (IF enough THEN Enough(v) ELSE v)
          /\ ended = (enough \/ (v.code = "ok" /\ Has(row.calls, "feat_end")))
          /\ s = [row |-> row, ended |-> ended]
    OBVIOUS
  <2>2. /\ phase = "visiting" /\ rest # << >> /\ visitor' = r.w
        /\ visited' = Append(visited, s)
        /\ kernel' = kernel /\ out' = out /\ due' = due
    BY <1>6, <2>1 DEF VisitFeature
  <2>3. \/ phase' = "idle" /\ rest' = << >>
        \/ phase' = phase /\ rest' = Tail(rest)
    BY <1>6 DEF VisitFeature
  <2>4. row \in Rows /\ Tail(rest) \in Seq(Rows) /\ << >> \in Seq(Rows)
    BY <1>1, <2>1, <2>2
  <2>5. ended \in BOOLEAN /\ s \in Seen
    BY <2>1, <2>4 DEF Seen
  <2>6. AfterFeature(r, visitor, row, ended)
    BY <2>1 DEF AfterFeature
  <2>7. /\ visited' \in Seq(Seen) /\ due \in 0 .. Len(visited')
        /\ Pending' = Append(Pending, s)
    <3>1. visited' \in Seq(Seen) /\ Len(visited') = Len(visited) + 1 /\ Len(visited) \in Nat
      BY <1>1, <2>2, <2>5
    <3>2. SubSeq(Append(visited, s), due + 1, Len(Append(visited, s)))
            = Append(SubSeq(visited, due + 1, Len(visited)), s)
      BY <1>1, <2>5, PendingSteps
    <3>3. due \in 0 .. Len(visited')
      <4>1. PICK m, n, d : m = Len(visited) /\ n = Len(visited') /\ d = due
        OBVIOUS
      <4>2. m \in Nat /\ n = m + 1 /\ d \in 0 .. m
        BY <1>1, <3>1, <4>1
      <4>3. d \in 0 .. n
        BY <4>2
      <4> QED
        BY <4>1, <4>3
    <3>4. Pending' = SubSeq(Append(visited, s), due + 1, Len(Append(visited, s)))
      BY <2>2 DEF Pending
    <3> QED
      BY <3>1, <3>2, <3>3, <3>4 DEF Pending
  <2>8. Phases'
    BY <1>1, <2>2, <2>3, <2>4, <2>7 DEF Phases, NoArray
  <2>9. VisitorFits(visitor, Pending, visited)
    BY <1>1, <1>2, <2>2
  <2>10. WritesText => TextFits(r.w, Append(Pending, s))
    BY <1>3, <2>1, <2>4, <2>5, <2>6, <2>9, TextMore DEF VisitorFits
  <2>11. kernel.name = "box" => BoxesFit(r.w, Append(Pending, s))
    BY <1>3, <2>1, <2>4, <2>5, <2>6, <2>9, BoxesMore DEF VisitorFits
  <2>12. kernel.name = "box_agg" => BoxAggFits(r.w, Append(visited, s))
    BY <1>1, <2>1, <2>4, <2>5, <2>6, <2>9, BoxAggMore DEF VisitorFits
  <2>13. kernel.name = "unique_geometry_types_agg" => TypesFit(r.w, Append(visited, s))
    BY <1>1, <2>1, <2>4, <2>5, <2>6, <2>9, TypesMore DEF VisitorFits
  <2>14. VisitorFits(visitor, Pending, visited)'
    BY <2>2, <2>7, <2>10, <2>11, <2>12, <2>13 DEF VisitorFits, WritesText
  <2> QED
    BY <2>2, <2>8, <2>14 DEF KernelInv
<1>7. ASSUME FinishPush
      PROVE  KernelInv' /\ kernel'.name = kernel.name
  <2>1. /\ phase = "visiting" /\ phase' = "idle"
        /\ kernel' = kernel /\ rest' = rest /\ visited' = visited
    BY <1>7 DEF FinishPush
  <2>2. kernel.started /\ VisitorFits(visitor, Pending, visited)
    BY <1>1, <1>2, <2>1
  <2>3. CASE visitor' = visitor /\ due' = due
    <3>1. Phases'
      BY <1>1, <2>1, <2>3 DEF Phases, NoArray
    <3> QED
      BY <2>1, <2>2, <2>3, <3>1 DEF KernelInv, Pending, VisitorFits, WritesText
  <2>4. ASSUME due' = Len(visited)
        PROVE  Phases' /\ Pending' = << >>
    <3>1. Len(visited) \in 0 .. Len(visited)
      BY <1>1
    <3>2. Pending' = << >>
      <4>1. Pending' = SubSeq(visited, Len(visited) + 1, Len(visited))
        BY <2>1, <2>4 DEF Pending
      <4> QED
        BY <1>1, <4>1
    <3> QED
      BY <1>1, <2>1, <2>2, <2>4, <3>1, <3>2 DEF Phases, NoArray
  <2>5. CASE WritesText /\ visitor' = WKTWriterFinished(visitor) /\ due' = Len(visited)
    <3>1. visitor \in Writers
      BY <2>2, <2>5 DEF VisitorFits, TextFits
    <3>2. PICK u : u = WKTWriterFinished(visitor)
      OBVIOUS
    <3>3. u \in Writers /\ u.bitmap = NoBitmap /\ u.nulls = 0 /\ u.length = 0
      <4>1. << >> \in Seq(Nat) /\ << >> \in Seq(Token) /\ NoBitmap \in Bitmap
        BY Tuples, NoBitmapType
      <4> QED
        BY <3>1, <3>2, <4>1 DEF WKTWriterFinished, Writers
    <3>4. TextFits(u, << >>)
      BY <3>3, NothingHeard
    <3>5. TextFits(visitor', Pending')
      BY <2>4, <2>5, <3>2, <3>4
    <3>6. kernel'.name \notin {"box", "box_agg", "unique_geometry_types_agg"}
      BY <2>1, <2>5 DEF WritesText
    <3> QED
      BY <2>1, <2>4, <2>5, <3>5, <3>6 DEF KernelInv, VisitorFits
  <2>6. CASE kernel.name = "box" /\ visitor' = box_finished(visitor) /\ due' = Len(visited)
    <3>1. visitor \in BoxVisitors
      BY <2>2, <2>6 DEF VisitorFits, BoxesFit
    <3>2. PICK u : u = box_finished(visitor)
      OBVIOUS
    <3>3. u \in BoxVisitors /\ u.bitmap = NoBitmap /\ u.nulls = 0 /\ u.values = << >>
      <4>1. << >> \in Seq(BoxSet) /\ NoBitmap \in Bitmap
        BY Tuples, NoBitmapType
      <4> QED
        BY <3>1, <3>2, <4>1 DEF box_finished, BoxVisitors
    <3>4. BoxesFit(u, << >>)
      BY <3>3, NothingHeard
    <3>5. BoxesFit(visitor', Pending')
      BY <2>4, <2>6, <3>2, <3>4
    <3>6. /\ kernel'.name \notin {"box_agg", "unique_geometry_types_agg"}
          /\ ~WritesText'
      BY <2>1, <2>6 DEF WritesText
    <3> QED
      BY <2>1, <2>4, <2>6, <3>5, <3>6 DEF KernelInv, VisitorFits
  <2>7. \/ visitor' = visitor /\ due' = due
        \/ WritesText /\ visitor' = WKTWriterFinished(visitor) /\ due' = Len(visited)
        \/ kernel.name = "box" /\ visitor' = box_finished(visitor) /\ due' = Len(visited)
    BY <1>7, FinishedPush
  <2> QED
    BY <2>1, <2>3, <2>5, <2>6, <2>7
<1>8. ASSUME Finish
      PROVE  KernelInv' /\ kernel'.name = kernel.name
  <2>1. /\ kernel' = kernel /\ rest' = rest /\ visited' = visited /\ due' = due
        /\ phase' = phase /\ phase = "idle" /\ kernel.started
    BY <1>8 DEF Finish
  <2>2. Phases'
    BY <1>1, <2>1 DEF Phases, NoArray
  <2>3. Pending' = Pending
    BY <2>1 DEF Pending
  <2>4. CASE visitor' = visitor
    BY <1>2, <2>1, <2>2, <2>3, <2>4 DEF KernelInv, VisitorFits, WritesText
  <2>5. CASE kernel.name = "box_agg" /\ visitor' = box_finished(box_flush(visitor))
    <3>1. BoxAggFits(visitor, visited)
      BY <1>2, <2>1, <2>5 DEF VisitorFits
    <3>2. PICK u : u = box_finished(box_flush(visitor))
      OBVIOUS
    <3>3. u \in BoxVisitors /\ u.values = << >> /\ u.bounds = visitor.bounds
      <4>1. << >> \in Seq(BoxSet) /\ NoBitmap \in Bitmap
        BY Tuples, NoBitmapType
      <4>2. visitor \in BoxVisitors
        BY <3>1 DEF BoxAggFits
      <4> QED
        BY <3>2, <4>1, <4>2 DEF box_finished, box_flush, BoxVisitors
    <3>4. BoxAggFits(u, visited)
      BY <3>1, <3>3 DEF BoxAggFits
    <3>5. BoxAggFits(visitor', visited')
      BY <2>1, <2>5, <3>2, <3>4
    <3>6. kernel'.name \notin {"box", "unique_geometry_types_agg"} /\ ~WritesText'
      BY <2>1, <2>5 DEF WritesText
    <3> QED
      BY <2>1, <2>2, <3>5, <3>6 DEF KernelInv, VisitorFits
  <2>6. visitor' = visitor
        \/ (kernel.name = "box_agg" /\ visitor' = box_finished(box_flush(visitor)))
    BY <1>8, Finished
  <2> QED
    BY <2>1, <2>4, <2>5, <2>6
<1>9. CASE UNCHANGED vars
  <2>1. /\ kernel' = kernel /\ visitor' = visitor /\ rest' = rest /\ phase' = phase
        /\ out' = out /\ visited' = visited /\ due' = due
    BY <1>9 DEF vars
  <2> QED
    BY <1>1, <1>2, <2>1 DEF KernelInv, Phases, Pending, VisitorFits, WritesText, NoArray
<1> QED
  BY <1>4, <1>5, <1>6, <1>7, <1>8, <1>9 DEF Next

(* KernelInv is an invariant. *)
LEMMA KernelInvariant == Spec => []KernelInv
<1>1. KernelInv /\ [Next]_vars => KernelInv'
  BY KernelInvNext
<1> QED
  BY <1>1, KernelInvInit, PTL DEF Spec

(* The steps that hand nothing over leave no array that promises anything, *)
(* or the one before, with what it was made of.                            *)
LEMMA OtherSteps ==
  ASSUME KernelInv, [Next]_vars
  PROVE  \/ out'.kind \in {"none", "void"}
         \/ out' = out /\ visited' = visited /\ due' = due
         \/ FinishPush
         \/ Finish
<1>1. ASSUME NEW options \in Options, Start(options)
      PROVE  out' = out /\ visited' = visited /\ due' = due
  BY <1>1 DEF Start
<1>2. ASSUME NEW batch \in Batches, PushBatch(batch)
      PROVE  out'.kind \in {"none", "void"}
  BY <1>2 DEF PushBatch, NoArray, Handed
<1>3. ASSUME VisitFeature
      PROVE  out'.kind \in {"none", "void"}
  <2>1. out' = out /\ phase = "visiting"
    BY <1>3 DEF VisitFeature
  <2>2. out = NoArray
    BY <2>1 DEF KernelInv, Phases
  <2> QED
    BY <2>1, <2>2 DEF NoArray
<1>4. CASE UNCHANGED vars
  BY <1>4 DEF vars
<1> QED
  BY <1>1, <1>2, <1>3, <1>4 DEF Next

(* An array made now has the rows that were pending. *)
LEMMA DeliveredNow ==
  ASSUME FinishPush, NEW kind, NEW array, out' = Handed(kind, array), due' = Len(visited)
  PROVE  Delivered' = Pending /\ out'.array = array /\ out'.kind = kind
<1>1. visited' = visited
  BY DEF FinishPush
<1>2. out'.start = due /\ out'.array = array /\ out'.kind = kind
  BY DEF Handed
<1> QED
  BY <1>1, <1>2 DEF Delivered, Pending

(* Where KernelInv finds a kernel that visits. *)
LEMMA WhileVisiting ==
  ASSUME KernelInv
  PROVE  /\ FinishPush => /\ VisitorFits(visitor, Pending, visited) /\ out = NoArray
                          /\ kernel' = kernel
         /\ Finish => /\ VisitorFits(visitor, Pending, visited)
                      /\ kernel' = kernel /\ visited' = visited
         /\ Pending \in Seq(Seen) /\ visited \in Seq(Seen)
<1>1. FinishPush => /\ VisitorFits(visitor, Pending, visited) /\ out = NoArray
                    /\ kernel' = kernel
  BY DEF KernelInv, Phases, FinishPush
<1>2. Finish => /\ VisitorFits(visitor, Pending, visited)
                /\ kernel' = kernel /\ visited' = visited
  BY DEF KernelInv, Phases, Finish
<1>3. visited \in Seq(Seen) /\ due \in 0 .. Len(visited)
  BY DEF KernelInv, Phases
<1>4. Pending \in Seq(Seen)
  BY <1>3, SeenTypes DEF Pending
<1> QED
  BY <1>1, <1>2, <1>3, <1>4

-----------------------------------------------------------------------------
(* Flags of an array that fit its rows. *)
LEMMA FlagsOfArray ==
  ASSUME NEW array, NEW vs \in Seq(Seen), NEW bitmap \in Bitmap, BitsFit(bitmap, vs),
         array.nulls = Cardinality(NullsAmong(vs)),
         \/ array.bitmap = bitmap
         \/ array.nulls = 0 /\ array.bitmap = NoBitmap
  PROVE  FlagsMatch(array, vs)
<1>1. ASSUME NEW i \in DOMAIN vs
      PROVE  IsValid(array.bitmap, i) = ~vs[i].row.null
  <2>1. CASE array.bitmap = bitmap
    BY <2>1, FlagsRead
  <2>2. CASE array.nulls = 0 /\ array.bitmap = NoBitmap
    BY <2>2, NoNullsRead
  <2> QED
    BY <2>1, <2>2
<1> QED
  BY <1>1 DEF FlagsMatch

(* The text of a batch has its nulls where the rows were null. *)
LEMMA TextHandedOver ==
  ASSUME KernelInv, FinishPush, WritesText,
         out' = Handed("text", WKTWriterFinish(visitor)), due' = Len(visited)
  PROVE  out'.kind = "text" /\ (AllEnded(Delivered') => FlagsMatch(out'.array, Delivered'))
<1>1. PICK vs, a : vs = Pending /\ a = WKTWriterFinish(visitor)
  OBVIOUS
<1>2. Delivered' = vs /\ out'.array = a /\ out'.kind = "text"
  BY <1>1, DeliveredNow
<1>3. vs \in Seq(Seen) /\ TextFits(visitor, vs)
  BY <1>1, WhileVisiting DEF VisitorFits
<1>4. ASSUME AllEnded(vs)
      PROVE  FlagsMatch(a, vs)
  <2>1. visitor.bitmap \in Bitmap /\ FlagsFit(visitor, vs)
    BY <1>3, <1>4 DEF TextFits, Writers
  <2>2. a.nulls = visitor.nulls /\ a.bitmap = visitor.bitmap
    BY <1>1 DEF WKTWriterFinish
  <2> QED
    BY <1>3, <2>1, <2>2, FlagsOfArray DEF FlagsFit
<1> QED
  BY <1>2, <1>4

(* So have the boxes of a batch, and each bounds its feature. *)
LEMMA BoxesHandedOver ==
  ASSUME KernelInv, FinishPush, kernel.name = "box",
         out' = Handed("boxes", box_finish(visitor)), due' = Len(visited)
  PROVE  /\ out'.kind = "boxes"
         /\ FlagsMatch(out'.array, EndedOf(Delivered'))
         /\ BoundsFit(out'.array.values, EndedOf(Delivered'))
         /\ out'.array.length = Len(out'.array.values)
<1>1. PICK vs, es, a : vs = Pending /\ es = EndedOf(vs) /\ a = box_finish(visitor)
  OBVIOUS
<1>2. Delivered' = vs /\ out'.array = a /\ out'.kind = "boxes"
  BY <1>1, DeliveredNow
<1>3. vs \in Seq(Seen) /\ BoxesFit(visitor, vs)
  BY <1>1, WhileVisiting DEF VisitorFits
<1>4. es \in Seq(Seen)
  BY <1>1, <1>3, SeenTypes
<1>5. visitor.bitmap \in Bitmap /\ FlagsFit(visitor, es) /\ BoundsFit(visitor.values, es)
  BY <1>1, <1>3 DEF BoxesFit, BoxVisitors
<1>6. /\ a.nulls = visitor.nulls /\ a.values = visitor.values /\ a.length = Len(visitor.values)
      /\ visitor.nulls > 0 => a.bitmap = visitor.bitmap
      /\ ~(visitor.nulls > 0) => a.bitmap = NoBitmap
  BY <1>1 DEF box_finish
<1>7. visitor.nulls \in Nat
  BY <1>3 DEF BoxesFit, BoxVisitors
<1>8. \/ a.bitmap = visitor.bitmap
      \/ a.nulls = 0 /\ a.bitmap = NoBitmap
  BY <1>6, <1>7
<1>9. FlagsMatch(a, es)
  BY <1>4, <1>5, <1>6, <1>8, FlagsOfArray DEF FlagsFit
<1> QED
  BY <1>1, <1>2, <1>5, <1>6, <1>9

(* The box of everything bounds everything. *)
LEMMA BoxHandedOver ==
  ASSUME KernelInv, Finish, kernel.name = "box_agg",
         out' = Handed("boxes", box_finish(box_flush(visitor)))
  PROVE  /\ out'.array.length = 1
         /\ Bounds(CoordsHeard(visited), out'.array.values[1])
<1>1. BoxAggFits(visitor, visited)
  BY WhileVisiting DEF VisitorFits
<1>2. PICK b : b = visitor.bounds
  OBVIOUS
<1>3. b \in BoxSet /\ visitor.values = << >> /\ Bounds(CoordsHeard(visited), b)
  BY <1>1, <1>2 DEF BoxAggFits, BoxVisitors
<1>4. PICK f : f = box_flush(visitor)
  OBVIOUS
<1>5. f.values = << b >>
  <2>1. f.values = Append(visitor.values, b)
    BY <1>1, <1>2, <1>4 DEF box_flush, BoxAggFits, BoxVisitors
  <2> QED
    BY <1>3, <2>1
<1>6. PICK a : a = box_finish(f)
  OBVIOUS
<1>7. a.values = f.values /\ a.length = Len(f.values)
  BY <1>6 DEF box_finish
<1>8. out'.array = a
  BY <1>4, <1>6 DEF Handed
<1>9. Len(<< b >>) = 1 /\ << b >>[1] = b
  OBVIOUS
<1> QED
  BY <1>3, <1>5, <1>7, <1>8, <1>9

(* The types are those of the rows with coordinates. *)
LEMMA TypesHandedOver ==
  ASSUME KernelInv, Finish, kernel.name = "unique_geometry_types_agg",
         out' = Handed("types", UniqueGeometryTypes(visitor))
  PROVE  /\ ToSet(out'.array.values) =
              {(Outermost(row).dims - 1) * 1000 + Outermost(row).type : row \in RowsWithCoords}
         /\ \A i, j \in DOMAIN out'.array.values :
              i < j => out'.array.values[i] < out'.array.values[j]
<1>1. TypesFit(visitor, visited) /\ visited \in Seq(Seen)
  BY WhileVisiting DEF VisitorFits
<1>2. PICK s, mask : s = UniqueGeometryTypes(visitor).values /\ mask = visitor.mask
  OBVIOUS
<1>3. mask \in SUBSET (0 .. 39) /\ mask = BitsOf(visited)
  BY <1>1, <1>2 DEF TypesFit, TypeVisitors
<1>4. Codes(s, mask)
  BY <1>2, <1>3, TypesRead
<1>5. out'.array.values = s
  BY <1>2 DEF Handed
<1>6. mask = {BitOf(row) : row \in RowsWithCoords}
  BY <1>3 DEF BitsOf, RowsWithCoords
<1>7. RowsWithCoords \subseteq Rows /\ \A row \in RowsWithCoords : CoordsOf(row) # {}
  <2>1. \A i \in DOMAIN visited : visited[i].row \in Rows
    <3>1. \A i \in DOMAIN visited : visited[i] \in Seen
      BY <1>1
    <3> QED
      BY <3>1 DEF Seen
  <2> QED
    BY <2>1 DEF RowsWithCoords
<1>8. \A row \in RowsWithCoords :
        WkbValue(BitOf(row)) = (Outermost(row).dims - 1) * 1000 + Outermost(row).type
  BY <1>7, OutermostBit
<1>9. {WkbValue(b) : b \in mask} =
        {(Outermost(row).dims - 1) * 1000 + Outermost(row).type : row \in RowsWithCoords}
  <2>1. {WkbValue(b) : b \in mask} = {WkbValue(BitOf(row)) : row \in RowsWithCoords}
    BY <1>6
  <2> QED
    BY <1>8, <2>1
<1>10. DOMAIN s = 1 .. Len(s)
  <2>1. s \in Seq(Int)
    BY <1>2, <1>3, TypesRead
  <2> QED
    BY <2>1
<1> QED
  BY <1>4, <1>5, <1>9, <1>10 DEF Codes

-----------------------------------------------------------------------------
(* No step makes an array that breaks one of the three properties.         *)
LEMMA NullsNext == KernelInv /\ NullsOfRows /\ [Next]_vars => NullsOfRows'
<1> SUFFICES ASSUME KernelInv, NullsOfRows, [Next]_vars
             PROVE  NullsOfRows'
  OBVIOUS
<1>1. kernel'.name = kernel.name
  BY KernelInvNext
<1>2. CASE out'.kind \in {"none", "void"}
  BY <1>2 DEF NullsOfRows
<1>3. CASE out' = out /\ visited' = visited /\ due' = due
  BY <1>1, <1>3 DEF NullsOfRows, Delivered
<1>4. CASE FinishPush
  <2>1. CASE out' = out
    <3>1. out'.kind = "none"
      BY <1>4, <2>1, WhileVisiting DEF NoArray
    <3> QED
      BY <3>1 DEF NullsOfRows
  <2>2. CASE /\ WritesText /\ visitor' = WKTWriterFinished(visitor) /\ due' = Len(visited)
             /\ out' = Handed("text", WKTWriterFinish(visitor))
    BY <1>4, <2>2, TextHandedOver DEF NullsOfRows
  <2>3. CASE /\ kernel.name = "box" /\ visitor' = box_finished(visitor) /\ due' = Len(visited)
             /\ out' = Handed("boxes", box_finish(visitor))
    BY <1>4, <2>3, BoxesHandedOver DEF NullsOfRows
  <2> QED
    BY <1>4, <2>1, <2>2, <2>3, FinishedPush
<1>5. CASE Finish
  <2>1. \/ out'.kind \in {"none", "void", "types"}
        \/ out'.kind = "boxes" /\ kernel.name = "box_agg"
    BY <1>5, Finished DEF Handed
  <2> QED
    BY <1>1, <2>1 DEF NullsOfRows
<1> QED
  BY <1>2, <1>3, <1>4, <1>5, OtherSteps

(* The boxes stay what they bound, ... *)
LEMMA BoxesNext == KernelInv /\ BoxesBound /\ [Next]_vars => BoxesBound'
<1> SUFFICES ASSUME KernelInv, BoxesBound, [Next]_vars
             PROVE  BoxesBound'
  OBVIOUS
<1>1. kernel'.name = kernel.name
  BY KernelInvNext
<1>2. CASE out'.kind # "boxes"
  BY <1>2 DEF BoxesBound
<1>3. CASE out' = out /\ visited' = visited /\ due' = due
  BY <1>1, <1>3 DEF BoxesBound, Delivered
<1>4. CASE FinishPush
  <2>1. CASE out' = out
    <3>1. out'.kind = "none"
      BY <1>4, <2>1, WhileVisiting DEF NoArray
    <3> QED
      BY <3>1 DEF BoxesBound
  <2>2. CASE WritesText /\ out' = Handed("text", WKTWriterFinish(visitor))
    <3>1. out'.kind = "text"
      BY <2>2 DEF Handed
    <3> QED
      BY <3>1 DEF BoxesBound
  <2>3. CASE /\ kernel.name = "box" /\ due' = Len(visited)
             /\ out' = Handed("boxes", box_finish(visitor))
    <3>1. PICK vs, a : vs = EndedOf(Delivered') /\ a = out'.array
      OBVIOUS
    <3>2. BoundsFit(a.values, vs) /\ a.length = Len(a.values)
      BY <1>4, <2>3, <3>1, BoxesHandedOver
    <3>3. DOMAIN vs = 1 .. Len(vs)
      <4>1. vs \in Seq(Seen)
        <5>1. Delivered' = Pending
          BY <1>4, <2>3, DeliveredNow
        <5> QED
          BY <3>1, <5>1, WhileVisiting, SeenTypes
      <4> QED
        BY <4>1
    <3>4. a.length = Len(vs) /\ \A i \in DOMAIN vs : Bounds(CoordsOf(vs[i].row), a.values[i])
      BY <3>2, <3>3 DEF BoundsFit
    <3>5. kernel'.name # "box_agg"
      BY <1>1, <2>3
    <3> QED
      BY <3>1, <3>4, <3>5 DEF BoxesBound
  <2> QED
    BY <1>4, <2>1, <2>2, <2>3, FinishedPush
<1>5. CASE Finish /\ out'.kind = "boxes"
  <2>1. kernel.name = "box_agg" /\ out' = Handed("boxes", box_finish(box_flush(visitor)))
    BY <1>5, Finished DEF Handed
  <2>2. /\ out'.array.length = 1
        /\ Bounds(CoordsHeard(visited), out'.array.values[1])
    BY <1>5, <2>1, BoxHandedOver
  <2>3. visited' = visited
    BY <1>5 DEF Finish
  <2> QED
    BY <1>1, <2>1, <2>2, <2>3 DEF BoxesBound, CoordsHeard
<1> QED
  BY <1>2, <1>3, <1>4, <1>5, OtherSteps

(* ... and the types those of the rows. *)
LEMMA TypesNext == KernelInv /\ TypesCollected /\ [Next]_vars => TypesCollected'
<1> SUFFICES ASSUME KernelInv, TypesCollected, [Next]_vars
             PROVE  TypesCollected'
  OBVIOUS
<1>1. CASE out'.kind # "types"
  BY <1>1 DEF TypesCollected
<1>2. CASE out' = out /\ visited' = visited
  BY <1>2 DEF TypesCollected, RowsWithCoords
<1>3. CASE FinishPush /\ out' # out
  <2>1. out'.kind # "types"
    BY <1>3, FinishedPush DEF Handed
  <2> QED
    BY <2>1 DEF TypesCollected
<1>4. CASE FinishPush /\ out' = out
  <2>1. visited' = visited
    BY <1>4 DEF FinishPush
  <2> QED
    BY <1>2, <1>4, <2>1
<1>5. CASE Finish /\ out'.kind = "types"
  <2>1. /\ kernel.name = "unique_geometry_types_agg"
        /\ out' = Handed("types", UniqueGeometryTypes(visitor))
    BY <1>5, Finished DEF Handed
  <2>2. visited' = visited
    BY <1>5 DEF Finish
  <2> QED
    BY <1>5, <2>1, <2>2, TypesHandedOver DEF TypesCollected, RowsWithCoords
<1> QED
  BY <1>1, <1>2, <1>3, <1>4, <1>5, OtherSteps

-----------------------------------------------------------------------------
(* The nulls of an array are those of the rows it was made of: for a box,   *)
(* of the features that ended, even after a batch that failed; for text,    *)
(* as long as no feature was left unended (kernel.c, wkt_writer.c).         *)
THEOREM NullsCorrect == Spec => []NullsOfRows
<1>1. Init => NullsOfRows
  BY DEF Init, NoArray, NullsOfRows
<1>2. KernelInv /\ NullsOfRows /\ [Next]_vars => NullsOfRows'
  BY NullsNext
<1> QED
  BY <1>1, <1>2, KernelInvariant, PTL DEF Spec

(* The box kernel gives every feature that ended the bounds of its own       *)
(* coordinates, and box_agg one box that bounds every coordinate of every    *)
(* batch, those of features that failed among them (kernel.c).               *)
THEOREM BoxesCorrect == Spec => []BoxesBound
<1>1. Init => BoxesBound
  BY DEF Init, NoArray, BoxesBound
<1>2. KernelInv /\ BoxesBound /\ [Next]_vars => BoxesBound'
  BY BoxesNext
<1> QED
  BY <1>1, <1>2, KernelInvariant, PTL DEF Spec

(* unique_geometry_types_agg gives, in order and each once, the codes of     *)
(* the outermost geometries of the features that have coordinates, though    *)
(* it leaves each of them at its first coordinate (kernel.c).                *)
THEOREM TypesCorrect == Spec => []TypesCollected
<1>1. Init => TypesCollected
  BY DEF Init, NoArray, TypesCollected
<1>2. KernelInv /\ TypesCollected /\ [Next]_vars => TypesCollected'
  BY TypesNext
<1> QED
  BY <1>1, <1>2, KernelInvariant, PTL DEF Spec
=============================================================================
