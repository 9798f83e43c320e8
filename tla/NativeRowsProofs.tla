-------------------------- MODULE NativeRowsProofs --------------------------
(***************************************************************************)
(* What the rows of a native array are, for features of fitting types: the *)
(* lists the callbacks close are, list by list, the shape of the feature.  *)
(* ShapesInv says at every moment of a feature what is in the list that is *)
(* open at each level (Opened), from what is visited so far: the parts     *)
(* that ended and, innermost, the coordinates of the last node.  That      *)
(* needs to know what may be open in what (Parented), that the innermost   *)
(* sequence is the last node, and that level tells what is open.           *)
(* The second part is about geometries that are appended as a whole: the   *)
(* offsets they leave, level by level, cut what is written for the parts.  *)
(***************************************************************************)
EXTENDS NativeWriterProofs, NativeAppend

(* The lists that are not empty, list by list.                             *)
LEMMA KeptType ==
  ASSUME NEW T, NEW x \in Seq(T)
  PROVE  Kept(x) \in Seq(Seq(T)) /\ (x = << >> => Kept(x) = << >>)
<1>1. << x >> \in Seq(Seq(T)) /\ << >> \in Seq(Seq(T))
  OBVIOUS
<1> QED
  BY <1>1 DEF Kept

(* The sequence that is flattened has the lists as sequences of at most    *)
(* one list.                                                               *)
LEMMA KeptLists ==
  ASSUME NEW T, NEW u \in Seq(Seq(T))
  PROVE  LET ks == [i \in DOMAIN u |-> Kept(u[i])]
         IN /\ ks \in Seq(Seq(Seq(T))) /\ Len(ks) = Len(u)
            /\ \A i \in 1 .. Len(u) : ks[i] = Kept(u[i])
            /\ NonEmpty(u) = FlattenSeq(ks)
<1> DEFINE ks == [i \in DOMAIN u |-> Kept(u[i])]
<1>1. Len(u) \in Nat /\ DOMAIN u = 1 .. Len(u)
  OBVIOUS
<1>2. \A i \in 1 .. Len(u) : u[i] \in Seq(T)
  BY <1>1
<1>3. \A i \in 1 .. Len(u) : Kept(u[i]) \in Seq(Seq(T))
  BY <1>2, KeptType
<1>4. NonEmpty(u) = FlattenSeq(ks)
  BY DEF NonEmpty
<1>5. PICK W : W = Seq(Seq(T))
  OBVIOUS
<1>6. ks \in [1 .. Len(u) -> W]
  BY <1>1, <1>3, <1>5
<1>7. ks \in Seq(W) /\ Len(ks) = Len(u)
  <2>1. PICK f, n : f = ks /\ n = Len(u)
    OBVIOUS
  <2>2. n \in Nat /\ f \in [1 .. n -> W]
    BY <1>1, <1>6, <2>1
  <2>3. f \in Seq(W) /\ Len(f) = n
    BY <2>2
  <2> QED
    BY <2>1, <2>3
<1> QED
  BY <1>1, <1>4, <1>5, <1>7

(* One more list at the end. *)
LEMMA NonEmptyAppend ==
  ASSUME NEW T, NEW u \in Seq(Seq(T)), NEW x \in Seq(T)
  PROVE  NonEmpty(Append(u, x)) = NonEmpty(u) \o Kept(x) /\ NonEmpty(u) \in Seq(Seq(T))
<1>1. PICK W : W = Seq(T)
  OBVIOUS
<1>2. PICK v : v = Append(u, x)
  OBVIOUS
<1>3. /\ v \in Seq(W) /\ Len(v) = Len(u) + 1 /\ v[Len(u) + 1] = x /\ Len(u) \in Nat
      /\ \A i \in 1 .. Len(u) : v[i] = u[i]
  BY <1>1, <1>2, AppendProperties
<1>4. PICK ks : /\ ks \in Seq(Seq(W)) /\ Len(ks) = Len(u)
                /\ \A i \in 1 .. Len(u) : ks[i] = Kept(u[i])
                /\ NonEmpty(u) = FlattenSeq(ks)
  BY <1>1, KeptLists
<1>5. PICK kv : /\ kv \in Seq(Seq(W)) /\ Len(kv) = Len(v)
                /\ \A i \in 1 .. Len(v) : kv[i] = Kept(v[i])
                /\ NonEmpty(v) = FlattenSeq(kv)
  BY <1>1, <1>3, KeptLists
<1>6. Kept(x) \in Seq(W)
  BY <1>1, KeptType
<1>7. PICK a, k, X : a = Append(ks, k) /\ k = Kept(x) /\ X = Seq(W)
  OBVIOUS
<1>8. /\ a \in Seq(X) /\ Len(a) = Len(u) + 1 /\ a[Len(u) + 1] = k
      /\ \A i \in 1 .. Len(u) : a[i] = ks[i]
  BY <1>4, <1>6, <1>7, AppendProperties
<1>9. \A i \in 1 .. Len(kv) : kv[i] = a[i]
  <2>1. ASSUME NEW i \in 1 .. Len(u) + 1
        PROVE  kv[i] = a[i]
    <3>1. CASE i = Len(u) + 1
      BY <1>3, <1>5, <1>7, <1>8, <3>1
    <3>2. CASE i # Len(u) + 1
      <4>1. i \in 1 .. Len(u) /\ i \in 1 .. Len(v)
        BY <1>3, <3>2
      <4> QED
        BY <1>3, <1>4, <1>5, <1>8, <4>1
    <3> QED
      BY <3>1, <3>2
  <2> QED
    BY <1>3, <1>5, <2>1
<1>10. kv = a
  BY <1>3, <1>5, <1>7, <1>8, <1>9, SeqEqual
<1>11. FlattenSeq(Append(ks, k)) = FlattenSeq(ks) \o k /\ FlattenSeq(ks) \in Seq(W)
  BY <1>4, <1>6, <1>7, FlattenAppend
<1> QED
  BY <1>1, <1>2, <1>4, <1>5, <1>7, <1>10, <1>11

(* Nothing is left of nothing. *)
LEMMA NonEmptyOfNone == NonEmpty(<< >>) = << >>
<1>1. [i \in DOMAIN << >> |-> Kept(<< >>[i])] = << >>
  OBVIOUS
<1> QED
  BY <1>1, FlattenEmpty DEF NonEmpty

(* Empty lists at the end do not matter.                                   *)
LEMMA NonEmptyPrefix ==
  ASSUME NEW T, NEW u \in Seq(Seq(T)), NEW m \in 0 .. Len(u),
         \A i \in m + 1 .. Len(u) : u[i] = << >>
  PROVE  NonEmpty(u) = NonEmpty(SubSeq(u, 1, m))
<1> DEFINE n == Len(u)
           W == Seq(T)
           E == {k \in 0 .. n - m : NonEmpty(SubSeq(u, 1, m + k)) = NonEmpty(SubSeq(u, 1, m))}
<1>1. n \in Nat /\ m \in Nat /\ m <= n /\ n - m \in Nat
  OBVIOUS
<1>2. 0 \in E
  BY <1>1
<1>3. ASSUME NEW k \in 0 .. (n - m) - 1, k \in E
      PROVE  k + 1 \in E
  <2>1. m + k \in 0 .. n - 1 /\ m + k + 1 \in m + 1 .. n /\ k + 1 \in 0 .. n - m
    <3> HIDE DEF n, W, E
    <3>1. k \in Nat /\ k + 1 <= n - m
      BY <1>1
    <3> QED
      BY <1>1, <3>1
  <2>2. PICK p : p = m + k
    OBVIOUS
  <2>3. p \in Nat /\ p + 1 <= n /\ p + 1 \in 1 .. n /\ u[p + 1] = << >> /\ m + (k + 1) = p + 1
    BY <1>1, <2>1, <2>2
  <2>4. PICK s, t : s = SubSeq(u, 1, p) /\ t = SubSeq(u, 1, p + 1)
    OBVIOUS
  <2>5. s \in Seq(W) /\ Len(s) = p /\ \A i \in 1 .. p : s[i] = u[i]
    <3>1. u \in Seq(W) /\ Len(u) = n
      OBVIOUS
    <3> HIDE DEF W, n
    <3> QED
      BY <2>3, <2>4, <3>1
  <2>6. t \in Seq(W) /\ Len(t) = p + 1 /\ \A i \in 1 .. p + 1 : t[i] = u[i]
    <3>1. u \in Seq(W) /\ Len(u) = n
      OBVIOUS
    <3> HIDE DEF W, n
    <3> QED
      BY <1>1, <2>3, <2>4, <3>1
  <2>7. << >> \in W
    OBVIOUS
  <2>8. PICK a : a = Append(s, << >>)
    OBVIOUS
  <2> HIDE DEF W, n
  <2>9. /\ a \in Seq(W) /\ Len(a) = p + 1 /\ a[p + 1] = << >>
        /\ \A i \in 1 .. p : a[i] = s[i]
    BY <2>5, <2>7, <2>8, AppendProperties
  <2>10. \A i \in 1 .. Len(t) : t[i] = a[i]
    <3>1. ASSUME NEW i \in 1 .. p + 1
          PROVE  t[i] = a[i]
      <4>1. i = p + 1 \/ i \in 1 .. p
        BY <2>3
      <4> QED
        BY <2>3, <2>5, <2>6, <2>9, <4>1
    <3> QED
      BY <2>6, <3>1
  <2>11. t = a
    BY <2>6, <2>9, <2>10, SeqEqual
  <2>12. NonEmpty(Append(s, << >>)) = NonEmpty(s) \o Kept(<< >>) /\ NonEmpty(s) \in Seq(W)
    BY <2>5, <2>7, NonEmptyAppend DEF W
  <2>13. Kept(<< >>) = << >>
    BY DEF Kept
  <2>14. \A q \in Seq(W) : q \o << >> = q
    BY ConcatEmptySeq
  <2>15. NonEmpty(t) = NonEmpty(s)
    BY <2>8, <2>11, <2>12, <2>13, <2>14
  <2>16. NonEmpty(s) = NonEmpty(SubSeq(u, 1, m))
    BY <1>3, <2>2, <2>4
  <2>17. NonEmpty(SubSeq(u, 1, m + (k + 1))) = NonEmpty(SubSeq(u, 1, m))
    BY <2>3, <2>4, <2>15, <2>16
  <2> QED
    BY <2>1, <2>17 DEF n
<1> HIDE DEF E
<1>4. \A k \in 0 .. n - m : k \in E
  <2>1. PICK j : j = n - m
    OBVIOUS
  <2>2. j \in Nat /\ \A k \in 0 .. j - 1 : k \in E => k + 1 \in E
    BY <1>1, <1>3, <2>1
  <2>3. \A k \in 0 .. j : k \in E
    BY <1>2, <2>2, IntervalInduction
  <2> QED
    BY <2>1, <2>3
<1>5. n - m \in E /\ m + (n - m) = n
  BY <1>1, <1>4
<1>6. NonEmpty(SubSeq(u, 1, n)) = NonEmpty(SubSeq(u, 1, m))
  BY <1>5 DEF E
<1>7. SubSeq(u, 1, n) = u
  OBVIOUS
<1> QED
  BY <1>6, <1>7

-----------------------------------------------------------------------------
(* A sequence and its last element.                                        *)
LEMMA FrontAndLast ==
  ASSUME NEW T, NEW s \in Seq(T), s # << >>
  PROVE  /\ Front(s) \in Seq(T) /\ Last(s) \in T /\ s = Append(Front(s), Last(s))
         /\ Len(s) = Len(Front(s)) + 1 /\ Len(Front(s)) \in Nat
         /\ \A i \in 1 .. Len(Front(s)) : Front(s)[i] = s[i]
<1>1. Len(s) \in Nat \ {0} /\ Len(s) \in 1 .. Len(s)
  BY EmptySeq
<1>2. PICK m, front, last : /\ m = Len(s) - 1 /\ front = SubSeq(s, 1, m)
                            /\ last = s[Len(s)]
  OBVIOUS
<1>3. m \in Nat /\ Len(s) = m + 1
  BY <1>1, <1>2
<1>4. /\ front \in Seq(T) /\ Len(front) = m
      /\ \A i \in 1 .. m : front[i] = s[i]
  BY <1>1, <1>2, <1>3
<1>5. last \in T
  BY <1>1, <1>2
<1>6. Append(front, last) \in Seq(T) /\ Len(Append(front, last)) = m + 1
        /\ \A i \in 1 .. m : Append(front, last)[i] = front[i]
        /\ Append(front, last)[m + 1] = last
  BY <1>3, <1>4, <1>5, AppendProperties
<1>7. \A i \in 1 .. Len(s) : s[i] = Append(front, last)[i]
  BY <1>2, <1>3, <1>4, <1>6
<1>8. s = Append(front, last)
  BY <1>3, <1>6, <1>7, SeqEqual
<1>9. Front(s) = front /\ Last(s) = last
  BY <1>2 DEF Front, Last
<1> QED
  BY <1>3, <1>4, <1>5, <1>8, <1>9

(* What Append puts at the end is what Last and Front take apart. *)
LEMMA FrontOfMore ==
  ASSUME NEW T, NEW s \in Seq(T), NEW x \in T
  PROVE  Front(Append(s, x)) = s /\ Last(Append(s, x)) = x /\ Append(s, x) # << >>
<1>1. PICK v : v = Append(s, x)
  OBVIOUS
<1>2. /\ v \in Seq(T) /\ Len(v) = Len(s) + 1 /\ v[Len(s) + 1] = x /\ Len(s) \in Nat
      /\ \A i \in 1 .. Len(s) : v[i] = s[i]
  BY <1>1, AppendProperties
<1>3. v # << >>
  BY <1>2, EmptySeq
<1>4. /\ Front(v) \in Seq(T) /\ Len(v) = Len(Front(v)) + 1 /\ Len(Front(v)) \in Nat
      /\ \A i \in 1 .. Len(Front(v)) : Front(v)[i] = v[i]
  BY <1>2, <1>3, FrontAndLast
<1>5. Front(v) = s
  BY <1>2, <1>4, SeqEqual
<1>6. Last(v) = x
  BY <1>2 DEF Last
<1> QED
  BY <1>1, <1>3, <1>5, <1>6

(* Coordinates go to the last node. *)
Longer(ns, more) == [ns EXCEPT ![Len(ns)].xs = @ \o more]

(* Only the coordinates of the last node grow. *)
LEMMA LongerLast ==
  ASSUME NEW ns \in Seq(NodeSet), ns # << >>, NEW more \in Seq(Nat),
         NEW new, new = Longer(ns, more)
  PROVE  /\ new \in Seq(NodeSet) /\ new # << >> /\ Len(new) = Len(ns)
         /\ Front(new) = Front(ns) /\ Last(new).type = Last(ns).type
         /\ Last(new).xs = Last(ns).xs \o more
         /\ \A i \in 1 .. Len(ns) : new[i].type = ns[i].type
<1>1. Len(ns) \in Nat \ {0} /\ Len(ns) \in 1 .. Len(ns)
  BY EmptySeq
<1>2. PICK last : last = ns[Len(ns)]
  OBVIOUS
<1>3. last \in NodeSet /\ last.xs \in Seq(Nat)
  <2>1. last \in NodeSet
    BY <1>1, <1>2
  <2> QED
    BY <2>1 DEF NodeSet
<1>4. PICK long : long = [last EXCEPT !.xs = @ \o more]
  OBVIOUS
<1>5. long \in NodeSet /\ long.xs = last.xs \o more /\ long.type = last.type
  <2>1. last.xs \o more \in Seq(Nat)
    BY <1>3
  <2> QED
    BY <1>3, <1>4, <2>1 DEF NodeSet
<1>6. new = [ns EXCEPT ![Len(ns)] = long]
  BY <1>2, <1>4 DEF Longer
<1>7. /\ new \in Seq(NodeSet) /\ Len(new) = Len(ns)
      /\ \A j \in 1 .. Len(ns) : new[j] = IF j = Len(ns) THEN long ELSE ns[j]
  <2>1. /\ [ns EXCEPT ![Len(ns)] = long] \in Seq(NodeSet)
        /\ Len([ns EXCEPT ![Len(ns)] = long]) = Len(ns)
        /\ \A j \in 1 .. Len(ns) :
             [ns EXCEPT ![Len(ns)] = long][j] = IF j = Len(ns) THEN long ELSE ns[j]
    BY <1>1, <1>5, ExceptSeq
  <2> QED
    BY <1>6, <2>1, Zenon
<1>8. new # << >>
  BY <1>1, <1>7, EmptySeq
<1>9. /\ Front(new) \in Seq(NodeSet) /\ Len(new) = Len(Front(new)) + 1
      /\ Len(Front(new)) \in Nat
      /\ \A i \in 1 .. Len(Front(new)) : Front(new)[i] = new[i]
  BY <1>7, <1>8, FrontAndLast
<1>10. /\ Front(ns) \in Seq(NodeSet) /\ Len(ns) = Len(Front(ns)) + 1
       /\ Len(Front(ns)) \in Nat
       /\ \A i \in 1 .. Len(Front(ns)) : Front(ns)[i] = ns[i]
  BY FrontAndLast
<1>11. Front(new) = Front(ns)
  <2>1. Len(Front(new)) = Len(Front(ns))
    <3>1. PICK a, b, c : a = Len(Front(new)) /\ b = Len(Front(ns)) /\ c = Len(ns)
      OBVIOUS
    <3>2. a \in Nat /\ b \in Nat /\ c = a + 1 /\ c = b + 1
      BY <1>7, <1>9, <1>10, <3>1, Zenon
    <3> QED
      BY <3>1, <3>2
  <2>2. ASSUME NEW i \in 1 .. Len(Front(ns))
        PROVE  Front(new)[i] = Front(ns)[i]
    <3>1. i \in 1 .. Len(ns) /\ i # Len(ns)
      BY <1>10
    <3> QED
      BY <1>7, <1>9, <1>10, <2>1, <3>1
  <2> QED
    BY <1>9, <1>10, <2>1, <2>2, SeqEqual
<1>12. Last(new) = long /\ Last(ns) = last
  BY <1>1, <1>2, <1>7 DEF Last
<1>13. ASSUME NEW i \in 1 .. Len(ns)
       PROVE  new[i].type = ns[i].type
  BY <1>2, <1>5, <1>7
<1> QED
  BY <1>5, <1>7, <1>8, <1>11, <1>12, <1>13

(* The sequences of one node more.                                         *)
LEMMA SequencesOfMore ==
  ASSUME NEW ns \in Seq(NodeSet), NEW node \in NodeSet
  PROVE  /\ Sequences(Append(ns, node)) = Append(Sequences(ns), node.xs)
         /\ Sequences(ns) \in Seq(Seq(Nat))
         /\ node.xs \in Seq(Nat)
<1> DEFINE more == Append(ns, node)
<1>1. node.xs \in Seq(Nat)
  BY DEF NodeSet
<1>2. /\ more \in Seq(NodeSet) /\ Len(more) = Len(ns) + 1 /\ Len(ns) \in Nat
      /\ more[Len(ns) + 1] = node
      /\ \A i \in 1 .. Len(ns) : more[i] = ns[i]
  OBVIOUS
<1> HIDE DEF more
<1>3. /\ Sequences(ns) \in Seq(Seq(Nat)) /\ Len(Sequences(ns)) = Len(ns)
      /\ \A i \in 1 .. Len(ns) : Sequences(ns)[i] = ns[i].xs
  BY SequencesType
<1>4. /\ Sequences(more) \in Seq(Seq(Nat)) /\ Len(Sequences(more)) = Len(more)
      /\ \A i \in 1 .. Len(more) : Sequences(more)[i] = more[i].xs
  BY <1>2, SequencesType
<1>5. PICK u, v, x, W : /\ u = Sequences(ns) /\ v = Sequences(more) /\ x = node.xs
                        /\ W = Seq(Nat)
  OBVIOUS
<1>6. /\ u \in Seq(W) /\ x \in W /\ v \in Seq(W) /\ Len(u) = Len(ns)
      /\ Len(v) = Len(ns) + 1 /\ v[Len(ns) + 1] = x
      /\ \A i \in 1 .. Len(ns) : v[i] = u[i]
  <2>1. Len(ns) + 1 \in 1 .. Len(more) /\ \A i \in 1 .. Len(ns) : i \in 1 .. Len(more)
    BY <1>2
  <2> QED
    BY <1>1, <1>2, <1>3, <1>4, <1>5, <2>1
<1>7. v = Append(u, x)
  <2>1. /\ Append(u, x) \in Seq(W) /\ Len(Append(u, x)) = Len(u) + 1
        /\ \A i \in 1 .. Len(u) : Append(u, x)[i] = u[i]
        /\ Append(u, x)[Len(u) + 1] = x
    BY <1>6, AppendProperties
  <2>2. \A i \in 1 .. Len(v) : v[i] = Append(u, x)[i]
    BY <1>2, <1>6, <2>1
  <2> QED
    BY <1>6, <2>1, <2>2, SeqEqual
<1> QED
  BY <1>1, <1>3, <1>5, <1>7 DEF more

(* A further node adds its own list to the written sequences. *)
LEMMA SequencesShape ==
  ASSUME NEW ns \in Seq(NodeSet), NEW node \in NodeSet
  PROVE  NonEmpty(Sequences(Append(ns, node)))
           = NonEmpty(Sequences(ns)) \o Kept(node.xs)
BY SequencesOfMore, NonEmptyAppend

-----------------------------------------------------------------------------
(* The lists that Rings takes the rings from. *)
RingLists(ns, i) == [k \in DOMAIN ns |-> IF IsRingOf(ns, i, k) THEN ns[k].xs ELSE << >>]

(* One list for each node, empty where the node is no ring of polygon i. *)
LEMMA RingListsType ==
  ASSUME NEW ns \in Seq(NodeSet), NEW i
  PROVE  /\ RingLists(ns, i) \in Seq(Seq(Nat)) /\ Len(RingLists(ns, i)) = Len(ns)
         /\ \A k \in 1 .. Len(ns) :
              RingLists(ns, i)[k] = IF IsRingOf(ns, i, k) THEN ns[k].xs ELSE << >>
         /\ Rings(ns, i) = NonEmpty(RingLists(ns, i))
<1>1. Len(ns) \in Nat /\ DOMAIN ns = 1 .. Len(ns)
  OBVIOUS
<1>2. \A k \in 1 .. Len(ns) : ns[k].xs \in Seq(Nat)
  <2>1. \A k \in 1 .. Len(ns) : ns[k] \in NodeSet
    OBVIOUS
  <2> QED
    BY <2>1 DEF NodeSet
<1>3. << >> \in Seq(Nat)
  OBVIOUS
<1>4. PICK f, n, W : f = RingLists(ns, i) /\ n = Len(ns) /\ W = Seq(Nat)
  OBVIOUS
<1>5. n \in Nat /\ f \in [1 .. n -> W]
  BY <1>1, <1>2, <1>3, <1>4 DEF RingLists
<1>6. f \in Seq(W) /\ Len(f) = n
  BY <1>5
<1>7. \A k \in 1 .. Len(ns) :
        RingLists(ns, i)[k] = IF IsRingOf(ns, i, k) THEN ns[k].xs ELSE << >>
  BY <1>1 DEF RingLists
<1> QED
  BY <1>4, <1>6, <1>7 DEF Rings, RingLists

(* The rings of a polygon are lists of coordinates. *)
LEMMA RingsType ==
  ASSUME NEW ns \in Seq(NodeSet), NEW i
  PROVE  Rings(ns, i) \in Seq(Seq(Nat))
<1>1. PICK u : u = RingLists(ns, i)
  OBVIOUS
<1>2. u \in Seq(Seq(Nat)) /\ Rings(ns, i) = NonEmpty(u) /\ << >> \in Seq(Nat)
  BY <1>1, RingListsType
<1>3. NonEmpty(u) \in Seq(Seq(Nat))
  BY <1>2, NonEmptyAppend
<1> QED
  BY <1>2, <1>3

(* One node more is one ring more, or none.                                *)
LEMMA RingsOfMore ==
  ASSUME NEW ns \in Seq(NodeSet), NEW node \in NodeSet, NEW i \in 1 .. Len(ns)
  PROVE  LET more == Append(ns, node)
         IN Rings(more, i)
              = Rings(ns, i) \o (IF IsRingOf(more, i, Len(ns) + 1) THEN Kept(node.xs)
                                 ELSE << >>)
<1> DEFINE more == Append(ns, node)
<1>1. /\ more \in Seq(NodeSet) /\ Len(more) = Len(ns) + 1 /\ Len(ns) \in Nat
      /\ more[Len(ns) + 1] = node /\ node.xs \in Seq(Nat)
      /\ \A k \in 1 .. Len(ns) : more[k] = ns[k]
  BY DEF NodeSet
<1> HIDE DEF more
<1>2. PICK n, x : n = Len(ns) /\ x = IF IsRingOf(more, i, Len(ns) + 1) THEN node.xs ELSE << >>
  OBVIOUS
<1>3. PICK u, v, W : u = RingLists(ns, i) /\ v = RingLists(more, i) /\ W = Seq(Nat)
  OBVIOUS
<1>4. /\ u \in Seq(W) /\ Len(u) = n
      /\ \A k \in 1 .. n : u[k] = IF IsRingOf(ns, i, k) THEN ns[k].xs ELSE << >>
      /\ Rings(ns, i) = NonEmpty(u)
  BY <1>2, <1>3, RingListsType
<1>5. /\ v \in Seq(W) /\ Len(v) = n + 1
      /\ \A k \in 1 .. n + 1 : v[k] = IF IsRingOf(more, i, k) THEN more[k].xs ELSE << >>
      /\ Rings(more, i) = NonEmpty(v)
  BY <1>1, <1>2, <1>3, RingListsType
<1>6. n \in Nat /\ x \in W /\ n + 1 \in 1 .. n + 1
  <2>1. << >> \in Seq(Nat)
    OBVIOUS
  <2> QED
    BY <1>1, <1>2, <1>3, <2>1
<1>7. v[n + 1] = x
  BY <1>1, <1>2, <1>5, <1>6
<1>8. ASSUME NEW k \in 1 .. n
      PROVE  v[k] = u[k]
  <2>1. k \in 1 .. n + 1 /\ \A j \in i + 1 .. k : j \in 1 .. n
    BY <1>2, <1>6
  <2>2. \A j \in i + 1 .. k : more[j] = ns[j]
    BY <1>1, <1>2, <2>1
  <2>3. IsRingOf(more, i, k) <=> IsRingOf(ns, i, k)
    BY <2>2 DEF IsRingOf
  <2> QED
    BY <1>1, <1>2, <1>4, <1>5, <2>1, <2>3
<1>9. v = Append(u, x)
  <2>1. /\ Append(u, x) \in Seq(W) /\ Len(Append(u, x)) = n + 1
        /\ \A k \in 1 .. n : Append(u, x)[k] = u[k]
        /\ Append(u, x)[n + 1] = x
    BY <1>4, <1>6, AppendProperties
  <2>2. ASSUME NEW k \in 1 .. n + 1
        PROVE  v[k] = Append(u, x)[k]
    <3>1. k = n + 1 \/ k \in 1 .. n
      BY <1>6
    <3> QED
      BY <1>7, <1>8, <2>1, <3>1
  <2> QED
    BY <1>5, <2>1, <2>2, SeqEqual
<1>10. NonEmpty(Append(u, x)) = NonEmpty(u) \o Kept(x)
  BY <1>3, <1>4, <1>6, NonEmptyAppend
<1>11. Kept(x) = IF IsRingOf(more, i, Len(ns) + 1) THEN Kept(node.xs) ELSE << >>
  BY <1>2 DEF Kept
<1> QED
  BY <1>4, <1>5, <1>9, <1>10, <1>11 DEF more

(* The last node has no rings yet.                                         *)
LEMMA NoRingsYet ==
  ASSUME NEW ns \in Seq(NodeSet), ns # << >>
  PROVE  Rings(ns, Len(ns)) = << >>
<1>1. PICK u, n : u = RingLists(ns, Len(ns)) /\ n = Len(ns)
  OBVIOUS
<1>2. n \in Nat /\ u \in Seq(Seq(Nat)) /\ Len(u) = n /\ Rings(ns, Len(ns)) = NonEmpty(u)
  BY <1>1, RingListsType
<1>3. ASSUME NEW k \in 1 .. n
      PROVE  u[k] = << >>
  <2>1. ~IsRingOf(ns, n, k)
    BY <1>2 DEF IsRingOf
  <2> QED
    BY <1>1, <2>1, RingListsType
<1>4. 0 \in 0 .. Len(u) /\ \A k \in 0 + 1 .. Len(u) : u[k] = << >>
  BY <1>2, <1>3
<1>5. NonEmpty(u) = NonEmpty(SubSeq(u, 1, 0))
  BY <1>2, <1>4, NonEmptyPrefix
<1>6. SubSeq(u, 1, 0) = << >>
  BY <1>2
<1> QED
  BY <1>2, <1>5, <1>6, NonEmptyOfNone

(* Rings are looked for up to the next node that is none.                  *)
LEMMA RingsOfPrefix ==
  ASSUME NEW ns \in Seq(NodeSet), NEW m \in 1 .. Len(ns), ns[m].type # RING,
         NEW i \in 1 .. m - 1
  PROVE  Rings(ns, i) = Rings(SubSeq(ns, 1, m - 1), i)
<1>1. PICK p, q : p = m - 1 /\ q = SubSeq(ns, 1, m - 1)
  OBVIOUS
<1>2. /\ p \in Nat /\ m = p + 1 /\ i \in 1 .. p /\ p <= Len(ns) /\ Len(ns) \in Nat
      /\ q \in Seq(NodeSet) /\ Len(q) = p /\ \A k \in 1 .. p : q[k] = ns[k]
  BY <1>1
<1>3. PICK u, v, W, n : /\ u = RingLists(ns, i) /\ v = RingLists(q, i)
                        /\ W = Seq(Nat) /\ n = Len(ns)
  OBVIOUS
<1>4. /\ u \in Seq(W) /\ Len(u) = n
      /\ \A k \in 1 .. n : u[k] = IF IsRingOf(ns, i, k) THEN ns[k].xs ELSE << >>
      /\ Rings(ns, i) = NonEmpty(u)
  BY <1>3, RingListsType
<1>5. /\ v \in Seq(W) /\ Len(v) = p
      /\ \A k \in 1 .. p : v[k] = IF IsRingOf(q, i, k) THEN q[k].xs ELSE << >>
      /\ Rings(q, i) = NonEmpty(v)
  BY <1>2, <1>3, RingListsType
<1>6. ASSUME NEW k \in p + 1 .. n
      PROVE  u[k] = << >>
  <2>1. k \in 1 .. n /\ m \in i + 1 .. k
    BY <1>2, <1>3
  <2>2. ~IsRingOf(ns, i, k)
    BY <2>1 DEF IsRingOf
  <2> QED
    BY <1>4, <2>1, <2>2
<1>7. NonEmpty(u) = NonEmpty(SubSeq(u, 1, p))
  <2>1. p \in 0 .. Len(u) /\ \A k \in p + 1 .. Len(u) : u[k] = << >>
    BY <1>2, <1>3, <1>4, <1>6
  <2> QED
    BY <1>3, <1>4, <2>1, NonEmptyPrefix
<1>8. ASSUME NEW k \in 1 .. p
      PROVE  u[k] = v[k]
  <2>1. k \in 1 .. n /\ \A j \in i + 1 .. k : j \in 1 .. p
    BY <1>2, <1>3
  <2>2. \A j \in i + 1 .. k : q[j] = ns[j]
    BY <1>2, <2>1
  <2>3. IsRingOf(q, i, k) <=> IsRingOf(ns, i, k)
    BY <2>2 DEF IsRingOf
  <2> QED
    BY <1>2, <1>4, <1>5, <2>1, <2>3
<1>9. SubSeq(u, 1, p) = v
  <2>1. PICK s : s = SubSeq(u, 1, p)
    OBVIOUS
  <2>2. s \in Seq(W) /\ Len(s) = p /\ \A k \in 1 .. p : s[k] = u[k]
    BY <1>2, <1>3, <1>4, <2>1
  <2>3. s = v
    BY <1>5, <1>8, <2>2, SeqEqual
  <2> QED
    BY <2>1, <2>3
<1> QED
  BY <1>1, <1>4, <1>5, <1>7, <1>9

(* The rings of the polygons, polygon by polygon.                          *)
LEMMA PolygonRingsType ==
  ASSUME NEW ns \in Seq(NodeSet)
  PROVE  /\ PolygonRings(ns) \in Seq(Seq(Seq(Nat))) /\ Len(PolygonRings(ns)) = Len(ns)
         /\ \A i \in 1 .. Len(ns) :
              PolygonRings(ns)[i] = IF ns[i].type = POLYGON THEN Rings(ns, i) ELSE << >>
<1>1. Len(ns) \in Nat /\ DOMAIN ns = 1 .. Len(ns)
  OBVIOUS
<1>2. \A i \in 1 .. Len(ns) : Rings(ns, i) \in Seq(Seq(Nat))
  BY RingsType
<1>3. << >> \in Seq(Seq(Nat))
  OBVIOUS
<1>4. PICK f, n, W : f = PolygonRings(ns) /\ n = Len(ns) /\ W = Seq(Seq(Nat))
  OBVIOUS
<1>5. \A i \in 1 .. Len(ns) :
        PolygonRings(ns)[i] = IF ns[i].type = POLYGON THEN Rings(ns, i) ELSE << >>
  BY <1>1 DEF PolygonRings
<1>6. n \in Nat /\ f \in [1 .. n -> W]
  <2>1. f = [i \in 1 .. n |-> f[i]]
    BY <1>1, <1>4 DEF PolygonRings
  <2>2. \A i \in 1 .. n : f[i] \in W
    BY <1>2, <1>3, <1>4, <1>5
  <2> QED
    BY <1>1, <1>4, <2>1, <2>2
<1>7. f \in Seq(W) /\ Len(f) = n
  BY <1>6
<1> QED
  BY <1>4, <1>5, <1>7

(* A node that is no polygon and has no coordinates yet adds nothing.      *)
LEMMA PolygonsOfOther ==
  ASSUME NEW ns \in Seq(NodeSet), NEW node \in NodeSet, node.xs = << >>,
         node.type # POLYGON
  PROVE  NonEmpty(PolygonRings(Append(ns, node))) = NonEmpty(PolygonRings(ns))
<1> DEFINE more == Append(ns, node)
<1>1. /\ more \in Seq(NodeSet) /\ Len(more) = Len(ns) + 1 /\ Len(ns) \in Nat
      /\ more[Len(ns) + 1] = node
      /\ \A k \in 1 .. Len(ns) : more[k] = ns[k]
  OBVIOUS
<1>2. ASSUME NEW i \in 1 .. Len(ns)
      PROVE  Rings(more, i) = Rings(ns, i)
  <2>1. Rings(more, i)
          = Rings(ns, i) \o (IF IsRingOf(more, i, Len(ns) + 1) THEN Kept(node.xs)
                             ELSE << >>)
    BY RingsOfMore
  <2>2. Kept(node.xs) = << >>
    BY DEF Kept
  <2>3. Rings(ns, i) \in Seq(Seq(Nat))
    BY RingsType
  <2>4. \A s \in Seq(Seq(Nat)) : s \o << >> = s
    BY ConcatEmptySeq
  <2> HIDE DEF more
  <2> QED
    BY <2>1, <2>2, <2>3, <2>4
<1> HIDE DEF more
<1>3. PICK u, v, W, n : /\ u = PolygonRings(ns) /\ v = PolygonRings(more)
                        /\ W = Seq(Seq(Nat)) /\ n = Len(ns)
  OBVIOUS
<1>4. /\ u \in Seq(W) /\ Len(u) = n
      /\ \A i \in 1 .. n : u[i] = IF ns[i].type = POLYGON THEN Rings(ns, i) ELSE << >>
  BY <1>3, PolygonRingsType
<1>5. /\ v \in Seq(W) /\ Len(v) = n + 1
      /\ \A i \in 1 .. n + 1 : v[i] = IF more[i].type = POLYGON THEN Rings(more, i) ELSE << >>
  BY <1>1, <1>3, PolygonRingsType
<1>6. n \in Nat /\ << >> \in W /\ n + 1 \in 1 .. n + 1
  <2>1. << >> \in Seq(Seq(Nat))
    OBVIOUS
  <2> QED
    BY <1>1, <1>3, <2>1
<1>7. v[n + 1] = << >>
  BY <1>1, <1>3, <1>5, <1>6
<1>8. ASSUME NEW i \in 1 .. n
      PROVE  v[i] = u[i]
  <2>1. i \in 1 .. n + 1
    BY <1>6
  <2> QED
    BY <1>1, <1>2, <1>3, <1>4, <1>5, <2>1
<1>9. v = Append(u, << >>)
  <2>1. /\ Append(u, << >>) \in Seq(W) /\ Len(Append(u, << >>)) = n + 1
        /\ \A k \in 1 .. n : Append(u, << >>)[k] = u[k]
        /\ Append(u, << >>)[n + 1] = << >>
    BY <1>4, <1>6, AppendProperties
  <2>2. PICK a : a = Append(u, << >>)
    OBVIOUS
  <2>3. ASSUME NEW k \in 1 .. n + 1
        PROVE  v[k] = a[k]
    <3>1. k = n + 1 \/ k \in 1 .. n
      BY <1>6
    <3> QED
      BY <1>7, <1>8, <2>1, <2>2, <3>1
  <2>4. v = a
    BY <1>5, <2>1, <2>2, <2>3, SeqEqual
  <2> QED
    BY <2>2, <2>4
<1>10. NonEmpty(Append(u, << >>)) = NonEmpty(u) \o Kept(<< >>) /\ NonEmpty(u) \in Seq(W)
  BY <1>3, <1>4, <1>6, NonEmptyAppend
<1>11. Kept(<< >>) = << >> /\ \A s \in Seq(W) : s \o << >> = s
  BY ConcatEmptySeq DEF Kept
<1> QED
  BY <1>3, <1>9, <1>10, <1>11 DEF more

(* A polygon and the rings after it.                                       *)
LEMMA PolygonsSplit ==
  ASSUME NEW ns \in Seq(NodeSet), NEW t \in 1 .. Len(ns), ns[t].type = POLYGON,
         \A j \in t + 1 .. Len(ns) : ns[j].type = RING
  PROVE  NonEmpty(PolygonRings(ns))
           = NonEmpty(PolygonRings(SubSeq(ns, 1, t - 1))) \o Kept(Rings(ns, t))
<1>1. PICK p, q : p = t - 1 /\ q = SubSeq(ns, 1, t - 1)
  OBVIOUS
<1>2. /\ p \in Nat /\ t = p + 1 /\ p + 1 <= Len(ns) /\ Len(ns) \in Nat
      /\ q \in Seq(NodeSet) /\ Len(q) = p /\ \A k \in 1 .. p : q[k] = ns[k]
  BY <1>1
<1>3. PICK u, v, W, n, r : /\ u = PolygonRings(ns) /\ v = PolygonRings(q)
                           /\ W = Seq(Seq(Nat)) /\ n = Len(ns) /\ r = Rings(ns, t)
  OBVIOUS
<1>4. /\ u \in Seq(W) /\ Len(u) = n
      /\ \A i \in 1 .. n : u[i] = IF ns[i].type = POLYGON THEN Rings(ns, i) ELSE << >>
  BY <1>3, PolygonRingsType
<1>5. /\ v \in Seq(W) /\ Len(v) = p
      /\ \A i \in 1 .. p : v[i] = IF q[i].type = POLYGON THEN Rings(q, i) ELSE << >>
  BY <1>2, <1>3, PolygonRingsType
<1>6. ASSUME NEW i \in 1 .. p
      PROVE  u[i] = v[i]
  <2>1. ns[t].type # RING /\ i \in 1 .. t - 1 /\ i \in 1 .. n
    BY <1>2, <1>3 DEF POLYGON, RING
  <2>2. Rings(ns, i) = Rings(q, i)
    BY <1>1, <2>1, RingsOfPrefix
  <2> QED
    BY <1>2, <1>4, <1>5, <2>1, <2>2
<1>7. u[p + 1] = r /\ r \in W
  <2>1. p + 1 \in 1 .. n /\ p + 1 = t
    BY <1>2, <1>3
  <2>2. r \in W
    BY <1>3, RingsType
  <2> QED
    BY <1>3, <1>4, <2>1, <2>2
<1>8. ASSUME NEW i \in t + 1 .. Len(u)
      PROVE  u[i] = << >>
  <2>1. i \in 1 .. n /\ ns[i].type = RING
    BY <1>2, <1>3, <1>4
  <2> QED
    BY <1>4, <2>1 DEF POLYGON, RING
<1>9. NonEmpty(u) = NonEmpty(SubSeq(u, 1, t))
  <2>1. t \in 0 .. Len(u)
    BY <1>2, <1>3, <1>4
  <2> QED
    BY <1>3, <1>4, <1>8, <2>1, NonEmptyPrefix
<1>10. SubSeq(u, 1, t) = Append(v, r)
  <2>1. PICK s, a : s = SubSeq(u, 1, t) /\ a = Append(v, r)
    OBVIOUS
  <2>2. s \in Seq(W) /\ Len(s) = p + 1 /\ \A k \in 1 .. p + 1 : s[k] = u[k]
    BY <1>2, <1>3, <1>4, <2>1
  <2>3. /\ a \in Seq(W) /\ Len(a) = p + 1 /\ a[p + 1] = r
        /\ \A k \in 1 .. p : a[k] = v[k]
    BY <1>5, <1>7, <2>1, AppendProperties
  <2>4. ASSUME NEW k \in 1 .. p + 1
        PROVE  s[k] = a[k]
    <3>1. k = p + 1 \/ k \in 1 .. p
      BY <1>2
    <3> QED
      BY <1>6, <1>7, <2>2, <2>3, <3>1
  <2>5. s = a
    BY <2>2, <2>3, <2>4, SeqEqual
  <2> QED
    BY <2>1, <2>5
<1>11. NonEmpty(Append(v, r)) = NonEmpty(v) \o Kept(r)
  BY <1>3, <1>5, <1>7, NonEmptyAppend
<1> QED
  BY <1>1, <1>3, <1>9, <1>10, <1>11

(* No nodes, no polygons and no sequences. *)
LEMMA NoPolygons ==
  /\ NonEmpty(PolygonRings(<< >>)) = << >> /\ NonEmpty(Sequences(<< >>)) = << >>
<1>1. PolygonRings(<< >>) = << >> /\ Sequences(<< >>) = << >>
  BY DEF PolygonRings, Sequences
<1> QED
  BY <1>1, NonEmptyOfNone

-----------------------------------------------------------------------------
(* What is open: rings are in polygons, everything else in a feature or a  *)
(* collection.                                                             *)
Parented ==
  \A i \in 2 .. Len(open) :
    IF open[i].type = RING THEN i > 2 /\ open[i - 1].type = POLYGON
    ELSE open[i - 1].type \in Containers \cup {FEATURE}

(* The sequence or ring that is open is the node visited last. *)
SequenceIsLast ==
  InGeometry /\ HoldsCoords(Top.type) => Last(nodes).type = Top.type

(* A part starts: it becomes the innermost one, and the last node.         *)
LEMMA PartStarted ==
  ASSUME ProtocolTypeOK, open # << >>, NEW type \in RING .. GEOMETRYCOLLECTION,
         NEW dims \in 1 .. 4, ReadPartStart(type, dims)
  PROVE  /\ Len(open') = Len(open) + 1 /\ Len(open) \in Nat \ {0}
         /\ Top'.type = type /\ InGeometry'
         /\ \A i \in 1 .. Len(open) : open'[i].type = open[i].type
         /\ rows' = rows /\ failed' = failed
         /\ Depth \in Nat /\ Node(type, dims, Depth) \in NodeSet
         /\ Node(type, dims, Depth).type = type /\ Node(type, dims, Depth).xs = << >>
         /\ nodes' = Append(nodes, Node(type, dims, Depth)) /\ nodes \in Seq(NodeSet)
         /\ nodes' \in Seq(NodeSet) /\ Len(nodes') = Len(nodes) + 1
         /\ Front(nodes') = nodes /\ Last(nodes') = Node(type, dims, Depth)
         /\ nodes' # << >>
         /\ \A i \in 1 .. Len(nodes) : nodes'[i] = nodes[i]
<1>1. /\ open' \in Seq(FrameSet) /\ Len(open') = Len(open) + 1
      /\ open'[Len(open) + 1] = Frame(type)
      /\ \A i \in 1 .. Len(open) : open'[i].type = open[i].type
  <2>1. /\ open' \in Seq(FrameSet) /\ Len(open') = Len(open) + 1
        /\ open'[Len(open) + 1] = Frame(type)
        /\ \A i \in 1 .. Len(open) :
             /\ open'[i].type = open[i].type
             /\ open'[i].n = IF i = Len(open) THEN open[i].n + 1 ELSE open[i].n
    BY StackPushed, Zenon
  <2> QED
    BY <2>1
<1>2. Len(open) \in Nat \ {0}
  BY EmptySeq DEF ProtocolTypeOK
<1>3. Top'.type = type
  BY <1>1 DEF Top, Frame
<1>4. InGeometry'
  BY <1>1, <1>2 DEF InGeometry
<1>5. Depth \in Nat
  BY <1>2 DEF Depth
<1>6. PICK node : node = Node(type, dims, Depth)
  OBVIOUS
<1>7. node \in NodeSet /\ node.type = type /\ node.xs = << >>
  BY <1>5, <1>6 DEF Node, NodeSet
<1>8. nodes' = Append(nodes, node) /\ nodes \in Seq(NodeSet) /\ rows' = rows /\ failed' = failed
  BY <1>6 DEF ReadPartStart, ProtocolTypeOK
<1>9. /\ nodes' \in Seq(NodeSet) /\ Len(nodes') = Len(nodes) + 1
      /\ \A i \in 1 .. Len(nodes) : nodes'[i] = nodes[i]
  BY <1>7, <1>8, AppendProperties
<1>10. Front(nodes') = nodes /\ Last(nodes') = node /\ nodes' # << >>
  BY <1>7, <1>8, FrontOfMore
<1> QED
  BY <1>1, <1>2, <1>3, <1>4, <1>5, <1>6, <1>7, <1>8, <1>9, <1>10

(* Coordinates change neither what is open nor the types of the nodes.     *)
LEMMA CoordsRead ==
  ASSUME ProtocolTypeOK, Nesting, NEW n \in Nat, ReadCoords(n),
         NEW more, more = [i \in 1 .. n |-> Label]
  PROVE  /\ Len(open') = Len(open) /\ open # << >> /\ open' # << >> /\ InGeometry
         /\ Top'.type = Top.type /\ InGeometry' /\ HoldsCoords(Top.type)
         /\ \A i \in 1 .. Len(open) : open'[i].type = open[i].type
         /\ rows' = rows /\ failed' = failed
         /\ nodes \in Seq(NodeSet) /\ nodes # << >> /\ more \in Seq(Nat)
         /\ nodes' = Longer(nodes, more)
         /\ nodes' \in Seq(NodeSet) /\ nodes' # << >> /\ Len(nodes') = Len(nodes)
         /\ Front(nodes') = Front(nodes) /\ Last(nodes').type = Last(nodes).type
         /\ Last(nodes').xs = Last(nodes).xs \o more
         /\ \A i \in 1 .. Len(nodes) : nodes'[i].type = nodes[i].type
<1>1. /\ InGeometry /\ HoldsCoords(Top.type) /\ open' = Counted(n) /\ open # << >>
      /\ rows' = rows /\ failed' = failed /\ Len(open) \in Nat \ {0} /\ Len(open) > 1
  BY EmptySeq DEF ReadCoords, InGeometry, ProtocolTypeOK
<1>2. nodes \in Seq(NodeSet) /\ nodes # << >>
  BY <1>1 DEF ProtocolTypeOK, Nesting
<1>3. /\ Len(Counted(n)) = Len(open)
      /\ \A i \in 1 .. Len(open) : Counted(n)[i].type = open[i].type
  BY <1>1, CountedType
<1>4. /\ Len(open') = Len(open)
      /\ \A i \in 1 .. Len(open) : open'[i].type = open[i].type
  BY <1>1, <1>3, Zenon
<1>5. Top'.type = Top.type
  <2>1. Len(open) \in 1 .. Len(open)
    BY <1>1
  <2> QED
    BY <1>4, <2>1 DEF Top
<1>6. InGeometry' /\ open' # << >>
  BY <1>1, <1>4, EmptySeq DEF InGeometry
<1>7. more \in Seq(Nat)
  <2>1. Label \in Nat
    BY LabelType
  <2> HIDE DEF Label
  <2> QED
    BY <2>1
<1>8. nodes' = Longer(nodes, more)
  BY DEF ReadCoords, Longer
<1>9. /\ nodes' \in Seq(NodeSet) /\ nodes' # << >> /\ Len(nodes') = Len(nodes)
      /\ Front(nodes') = Front(nodes) /\ Last(nodes').type = Last(nodes).type
      /\ Last(nodes').xs = Last(nodes).xs \o more
      /\ \A i \in 1 .. Len(nodes) : nodes'[i].type = nodes[i].type
  <2>1. PICK new : new = nodes'
    OBVIOUS
  <2>2. new = Longer(nodes, more)
    BY <1>8, <2>1
  <2>3. /\ new \in Seq(NodeSet) /\ new # << >> /\ Len(new) = Len(nodes)
        /\ Front(new) = Front(nodes) /\ Last(new).type = Last(nodes).type
        /\ Last(new).xs = Last(nodes).xs \o more
        /\ \A i \in 1 .. Len(nodes) : new[i].type = nodes[i].type
    BY <1>2, <1>7, <2>2, LongerLast
  <2> QED
    BY <2>1, <2>3
<1> QED
  BY <1>1, <1>2, <1>4, <1>5, <1>6, <1>7, <1>8, <1>9

(* A part ends, and what it is in is the innermost part again.             *)
LEMMA PartEnded ==
  ASSUME ProtocolTypeOK, Nesting, Parented, InGeometry, ReadPartEnd
  PROVE  /\ Len(open') = Len(open) - 1 /\ open # << >> /\ open' # << >>
         /\ \A i \in 1 .. Len(open) - 1 : open'[i] = open[i]
         /\ nodes' = nodes /\ rows' = rows /\ failed' = failed
         /\ nodes \in Seq(NodeSet) /\ nodes # << >>
         /\ IF Top.type = RING THEN Top'.type = POLYGON /\ InGeometry'
            ELSE Top'.type \in Containers \cup {FEATURE}
<1>1. /\ Len(open') = Len(open) - 1 /\ open' \in Seq(FrameSet)
      /\ \A i \in 1 .. Len(open) - 1 : open'[i] = open[i]
  BY StackPopped
<1>2. PICK n : n = Len(open)
  OBVIOUS
<1>3. n \in Nat /\ n > 1 /\ n \in 2 .. n /\ n - 1 \in 1 .. n - 1
  BY <1>2 DEF InGeometry, ProtocolTypeOK
<1>4. open # << >> /\ open' # << >>
  BY <1>1, <1>2, <1>3, EmptySeq
<1>5. Top'.type = open[n - 1].type /\ Top.type = open[n].type
  BY <1>1, <1>2, <1>3 DEF Top
<1>6. IF open[n].type = RING THEN n > 2 /\ open[n - 1].type = POLYGON
      ELSE open[n - 1].type \in Containers \cup {FEATURE}
  BY <1>2, <1>3 DEF Parented
<1>7. n > 2 => InGeometry'
  BY <1>1, <1>2, <1>3 DEF InGeometry
<1>8. nodes' = nodes /\ rows' = rows /\ failed' = failed /\ nodes \in Seq(NodeSet)
      /\ nodes # << >>
  BY DEF ReadPartEnd, ProtocolTypeOK, Nesting
<1> QED
  BY <1>1, <1>2, <1>4, <1>5, <1>6, <1>7, <1>8

(* Every step of the visitor keeps the parents and the last sequence. *)
LEMMA ParentsPreserved ==
  ASSUME ProtocolAssumption, ProtocolTypeOK, Nesting, Parented, SequenceIsLast,
         [ProtocolNext]_protocolVars
  PROVE  Parented' /\ SequenceIsLast'
<1>1. ASSUME NEW type \in RING .. GEOMETRYCOLLECTION, NEW dims \in 1 .. 4,
             ReadPartStart(type, dims), open # << >>,
             IF type = RING THEN InGeometry /\ Top.type = POLYGON
             ELSE Top.type \in Containers \cup {FEATURE}
      PROVE  Parented' /\ SequenceIsLast'
  <2>1. /\ Len(open') = Len(open) + 1 /\ Len(open) \in Nat \ {0}
        /\ Top'.type = type
        /\ \A i \in 1 .. Len(open) : open'[i].type = open[i].type
        /\ Node(type, dims, Depth).type = type
        /\ Last(nodes') = Node(type, dims, Depth)
    BY <1>1, PartStarted
  <2>2. SequenceIsLast'
    BY <2>1 DEF SequenceIsLast
  <2>3. ASSUME NEW i \in 2 .. Len(open')
        PROVE  IF open'[i].type = RING THEN i > 2 /\ open'[i - 1].type = POLYGON
               ELSE open'[i - 1].type \in Containers \cup {FEATURE}
    <3>1. i - 1 \in 1 .. Len(open)
      BY <2>1
    <3>2. CASE i = Len(open) + 1
      <4>1. open'[i].type = type
        BY <2>1, <3>2 DEF Top
      <4>2. open'[i - 1].type = Top.type
        BY <2>1, <3>1, <3>2 DEF Top
      <4>3. InGeometry => i > 2
        BY <2>1, <3>2 DEF InGeometry
      <4> QED
        BY <1>1, <4>1, <4>2, <4>3
    <3>3. CASE i # Len(open) + 1
      <4>1. i \in 2 .. Len(open) /\ i \in 1 .. Len(open)
        BY <2>1, <3>3
      <4> QED
        BY <2>1, <3>1, <4>1 DEF Parented
    <3> QED
      BY <3>2, <3>3
  <2> QED
    BY <2>2, <2>3 DEF Parented
<1>2. CASE \E type \in GeomTypes, dims \in Dims : ReadGeomStart(type, dims)
  <2>1. PICK type \in GeomTypes, dims \in Dims : ReadGeomStart(type, dims)
    BY <1>2
  <2>2. /\ type \in RING .. GEOMETRYCOLLECTION /\ dims \in 1 .. 4 /\ type # RING
        /\ ReadPartStart(type, dims) /\ open # << >>
        /\ Top.type \in Containers \cup {FEATURE}
    BY <2>1 DEF ReadGeomStart, ProtocolAssumption, RING, GEOMETRYCOLLECTION,
       Idle, MayContain
  <2> QED
    BY <1>1, <2>2
<1>3. CASE ReadRingStart
  <2>1. /\ InGeometry /\ Top.type = POLYGON /\ open # << >> /\ nodes # << >>
        /\ nodes \in Seq(NodeSet) /\ ReadPartStart(RING, nodes[Len(nodes)].dims)
    BY <1>3, EmptySeq DEF ReadRingStart, InGeometry, Nesting, ProtocolTypeOK
  <2>2. nodes[Len(nodes)] \in NodeSet
    BY <2>1, EmptySeq
  <2>3. nodes[Len(nodes)].dims \in 1 .. 4 /\ RING \in RING .. GEOMETRYCOLLECTION
    BY <2>2 DEF NodeSet, RING, GEOMETRYCOLLECTION
  <2> QED
    BY <1>1, <2>1, <2>3
<1>4. CASE \E n \in 0 .. MaxChunk : ReadCoords(n)
  <2>1. PICK n \in 0 .. MaxChunk : ReadCoords(n)
    BY <1>4
  <2>2. n \in Nat
    BY DEF ProtocolAssumption
  <2>3. /\ Len(open') = Len(open) /\ InGeometry /\ Top'.type = Top.type
        /\ \A i \in 1 .. Len(open) : open'[i].type = open[i].type
        /\ Last(nodes').type = Last(nodes).type
    BY <2>1, <2>2, CoordsRead
  <2>4. SequenceIsLast'
    BY <2>3 DEF SequenceIsLast
  <2>5. ASSUME NEW i \in 2 .. Len(open)
        PROVE  open'[i].type = open[i].type /\ open'[i - 1].type = open[i - 1].type
    <3>1. Len(open) \in Nat
      BY DEF ProtocolTypeOK
    <3>2. i \in 1 .. Len(open) /\ i - 1 \in 1 .. Len(open)
      BY <3>1
    <3> QED
      BY <2>3, <3>2
  <2>6. Parented'
    BY <2>3, <2>5 DEF Parented
  <2> QED
    BY <2>4, <2>6
<1>5. CASE ReadRingEnd \/ ReadGeomEnd
  <2>1. InGeometry /\ ReadPartEnd
    BY <1>5 DEF ReadRingEnd, ReadGeomEnd
  <2>2. /\ Len(open') = Len(open) - 1
        /\ \A i \in 1 .. Len(open) - 1 : open'[i] = open[i]
        /\ IF Top.type = RING THEN Top'.type = POLYGON
           ELSE Top'.type \in Containers \cup {FEATURE}
    BY <2>1, PartEnded
  <2>3. ~HoldsCoords(Top'.type)
    BY <2>2 DEF HoldsCoords, Containers, POINT, LINESTRING, RING, POLYGON,
       MULTIPOINT, MULTILINESTRING, MULTIPOLYGON, GEOMETRYCOLLECTION, FEATURE
  <2>4. SequenceIsLast'
    BY <2>3 DEF SequenceIsLast
  <2>5. Len(open) \in Nat
    BY DEF ProtocolTypeOK
  <2>6. \A i \in 2 .. Len(open') :
          i \in 2 .. Len(open) /\ i \in 1 .. Len(open) - 1 /\ i - 1 \in 1 .. Len(open) - 1
    BY <2>2, <2>5
  <2>7. Parented'
    BY <2>2, <2>6 DEF Parented
  <2> QED
    BY <2>4, <2>7
<1>6. CASE UNCHANGED protocolVars
  <2>1. open' = open /\ nodes' = nodes
    BY <1>6 DEF protocolVars
  <2> QED
    BY <2>1 DEF Parented, SequenceIsLast, InGeometry, Top
<1>7. CASE ReadFeatStart \/ ReadNullFeat \/ ReadFeatEnd \/ Abandon \/ BatchDone
  <2>1. Len(open') \in 0 .. 1
    <3>1. Len(<< >>) = 0 /\ Len(<< Frame(FEATURE) >>) = 1 /\ Len(<< Frame(NULLFEATURE) >>) = 1
      OBVIOUS
    <3> QED
      BY <1>7, <3>1 DEF ReadFeatStart, ReadNullFeat, ReadFeatEnd, Abandon, BatchDone, Idle
  <2>2. ~InGeometry' /\ 2 .. Len(open') = {}
    <3>1. PICK k : k = Len(open')
      OBVIOUS
    <3>2. k \in 0 .. 1
      BY <2>1, <3>1
    <3>3. 2 .. k = {} /\ ~(k > 1)
      BY <3>2
    <3> QED
      BY <3>1, <3>3 DEF InGeometry
  <2> QED
    BY <2>2 DEF Parented, SequenceIsLast
<1> QED
  BY <1>2, <1>3, <1>4, <1>5, <1>6, <1>7 DEF ProtocolNext

-----------------------------------------------------------------------------
(* The level tells what is open, in a feature without points or, in an     *)
(* array of lists of lists of lists, of polygons.                          *)
Excluded == IF depth = 3 THEN {POINT, LINESTRING, MULTIPOINT, MULTILINESTRING}
            ELSE {POINT, MULTIPOINT}

(* The level that belongs to the innermost open part. *)
LevelOf(type) ==
  IF depth = 3 THEN IF type = RING THEN 2 ELSE IF type = POLYGON THEN 1 ELSE 0
  ELSE IF type \in {LINESTRING, RING} THEN 1 ELSE 0

LevelsFit ==
  depth >= 1 /\ ~Idle /\ NoneOf(nodes, Excluded) =>
    /\ level = LevelOf(Top.type)
    /\ depth = 1 => nestingMultipoint = 0

(* Fewer nodes have fewer types. *)
LEMMA NoneOfFewer ==
  ASSUME NEW ns \in Seq(NodeSet), NEW node \in NodeSet, NEW S,
         NoneOf(Append(ns, node), S)
  PROVE  NoneOf(ns, S) /\ node.type \notin S
<1>1. PICK v : v = Append(ns, node)
  OBVIOUS
<1>2. /\ v \in Seq(NodeSet) /\ Len(v) = Len(ns) + 1 /\ v[Len(ns) + 1] = node
      /\ \A i \in 1 .. Len(ns) : v[i] = ns[i]
      /\ Len(ns) \in Nat /\ DOMAIN ns = 1 .. Len(ns) /\ DOMAIN v = 1 .. Len(v)
  BY <1>1, AppendProperties
<1>3. \A i \in 1 .. Len(ns) : i \in DOMAIN v
  BY <1>2
<1>4. Len(ns) + 1 \in DOMAIN v
  BY <1>2
<1> QED
  BY <1>1, <1>2, <1>3, <1>4 DEF NoneOf

(* Coordinates do not change which types were visited. *)
LEMMA NoneOfLonger ==
  ASSUME NEW ns \in Seq(NodeSet), ns # << >>, NEW more \in Seq(Nat), NEW S,
         NoneOf(Longer(ns, more), S)
  PROVE  NoneOf(ns, S)
<1>1. PICK new : new = Longer(ns, more)
  OBVIOUS
<1>2. /\ new \in Seq(NodeSet) /\ Len(new) = Len(ns)
      /\ \A i \in 1 .. Len(ns) : new[i].type = ns[i].type
  BY <1>1, LongerLast
<1>3. DOMAIN ns = 1 .. Len(ns) /\ DOMAIN new = 1 .. Len(new)
  BY <1>2
<1> QED
  BY <1>1, <1>2, <1>3 DEF NoneOf

(* The depth of the lists is settled by Init. *)
LEMMA DepthKept ==
  ASSUME [Next]_vars
  PROVE  depth' = depth
BY DEF Next, vars, writerVars, FeatStart, NullFeat, GeomStart, RingStart, Coords,
       RingEnd, GeomEnd, PolygonEnd, FeatEnd, FeatRejected, Overflow, ReaderFails,
       Finish

(* Every step keeps the writer's level that of the innermost open part. *)
LEMMA LevelsPreserved ==
  ASSUME ProtocolAssumption, Inv, Parented, SequenceIsLast, LevelsFit, [Next]_vars
  PROVE  LevelsFit'
<1> SUFFICES ASSUME depth >= 1, ~Idle', NoneOf(nodes', Excluded)
             PROVE  level' = LevelOf(Top'.type) /\ (depth = 1 => nestingMultipoint' = 0)
  BY DepthKept DEF LevelsFit, Excluded, LevelOf
<1> USE DEF RING, POINT, LINESTRING, POLYGON, MULTIPOINT, MULTILINESTRING,
        MULTIPOLYGON, GEOMETRYCOLLECTION, FEATURE, NULLFEATURE
<1>1. ProtocolTypeOK /\ Nesting /\ depth \in 1 .. 3 /\ level \in Int
  BY DEF Inv, TypeOK, WriterTypeOK
<1>2. CASE FeatStart
  <2>1. open' = << Frame(FEATURE) >> /\ level' = 0
        /\ (depth = 1 => nestingMultipoint' = 0)
    BY <1>2 DEF FeatStart, ReadFeatStart
  <2>2. Top'.type = FEATURE
    BY <2>1 DEF Top, Frame
  <2> QED
    BY <2>1, <2>2 DEF LevelOf
<1>3. CASE NullFeat
  <2>1. /\ open = << Frame(FEATURE) >> /\ open' = << Frame(NULLFEATURE) >>
        /\ level' = level /\ nestingMultipoint' = nestingMultipoint /\ nodes' = nodes
    BY <1>3 DEF NullFeat, ReadNullFeat, shapeVars
  <2>2. Top.type = FEATURE /\ Top'.type = NULLFEATURE
    BY <2>1 DEF Top, Frame
  <2>3. ~Idle
    <3>1. Len(open) = 1
      BY <2>1
    <3> QED
      BY <3>1, EmptySeq DEF Idle
  <2> QED
    BY <2>1, <2>2, <2>3 DEF LevelsFit, LevelOf
<1>4. ASSUME NEW type \in RING .. GEOMETRYCOLLECTION, NEW dims \in 1 .. 4,
             ReadPartStart(type, dims), open # << >>
      PROVE  /\ level = LevelOf(Top.type) /\ (depth = 1 => nestingMultipoint = 0)
             /\ type \notin Excluded /\ Top'.type = type
  <2>1. /\ Top'.type = type /\ Node(type, dims, Depth) \in NodeSet
        /\ Node(type, dims, Depth).type = type /\ nodes \in Seq(NodeSet)
        /\ nodes' = Append(nodes, Node(type, dims, Depth))
    BY <1>1, <1>4, PartStarted
  <2>2. NoneOf(Append(nodes, Node(type, dims, Depth)), Excluded)
    BY <2>1
  <2>3. NoneOf(nodes, Excluded) /\ Node(type, dims, Depth).type \notin Excluded
    BY <2>1, <2>2, NoneOfFewer
  <2> QED
    BY <1>4, <2>1, <2>3 DEF LevelsFit, Idle
<1>5. CASE \E type \in GeomTypes, dims \in Dims : GeomStart(type, dims)
  <2>1. PICK type \in GeomTypes, dims \in Dims : GeomStart(type, dims)
    BY <1>5
  <2>2. /\ type \in 1 .. 7 /\ dims \in 1 .. 4
        /\ ReadPartStart(type, dims) /\ open # << >>
        /\ Top.type \in Containers \cup {FEATURE}
        /\ level' = IF EntersLevel(type) THEN level + 1 ELSE level
    BY <2>1 DEF GeomStart, ReadGeomStart, ProtocolAssumption, Idle, MayContain
  <2>3. /\ level = LevelOf(Top.type) /\ (depth = 1 => nestingMultipoint = 0)
        /\ type \notin Excluded /\ Top'.type = type
    BY <1>4, <2>2
  <2>4. LevelOf(Top.type) = 0
    BY <2>2 DEF LevelOf, Containers
  <2>5. level' = LevelOf(type)
    BY <1>1, <2>2, <2>3, <2>4 DEF EntersLevel, LevelOf, Excluded
  <2>6. depth = 1 => nestingMultipoint' = 0
    BY <2>1, <2>3 DEF GeomStart, Excluded
  <2> QED
    BY <2>3, <2>5, <2>6
<1>6. CASE RingStart
  <2>1. /\ InGeometry /\ Top.type = POLYGON /\ open # << >> /\ nodes # << >>
        /\ nodes \in Seq(NodeSet) /\ ReadPartStart(RING, nodes[Len(nodes)].dims)
        /\ level' = level + 1 /\ nestingMultipoint' = nestingMultipoint
    BY <1>1, <1>6, EmptySeq
    DEF RingStart, ReadRingStart, InGeometry, Nesting, ProtocolTypeOK
  <2>2. nodes[Len(nodes)] \in NodeSet
    BY <2>1, EmptySeq
  <2>3. nodes[Len(nodes)].dims \in 1 .. 4 /\ RING \in RING .. GEOMETRYCOLLECTION
    BY <2>2 DEF NodeSet
  <2>4. /\ level = LevelOf(Top.type) /\ (depth = 1 => nestingMultipoint = 0)
        /\ Top'.type = RING
    BY <1>4, <2>1, <2>3
  <2> QED
    BY <1>1, <2>1, <2>4 DEF LevelOf
<1>7. CASE \E n \in 0 .. MaxChunk : Coords(n)
  <2>1. PICK n \in 0 .. MaxChunk : Coords(n)
    BY <1>7
  <2>2. n \in Nat /\ ReadCoords(n) /\ level' = level /\ nestingMultipoint' = nestingMultipoint
    BY <2>1 DEF ProtocolAssumption, Coords
  <2>3. PICK more : more = [i \in 1 .. n |-> Label]
    OBVIOUS
  <2>4. /\ open # << >> /\ Top'.type = Top.type /\ nodes \in Seq(NodeSet)
        /\ nodes # << >> /\ more \in Seq(Nat) /\ nodes' = Longer(nodes, more)
    BY <1>1, <2>2, <2>3, CoordsRead
  <2>5. NoneOf(nodes, Excluded)
    BY <2>4, NoneOfLonger
  <2> QED
    BY <2>2, <2>4, <2>5 DEF LevelsFit, Idle
<1>8. CASE RingEnd
  <2>1. /\ InGeometry /\ ReadPartEnd /\ Top.type = RING /\ level' = level - 1
        /\ nestingMultipoint' = nestingMultipoint
    BY <1>1, <1>8 DEF RingEnd, ReadRingEnd
  <2>2. open # << >> /\ nodes' = nodes /\ Top'.type = POLYGON
    BY <1>1, <2>1, PartEnded
  <2>3. level = LevelOf(Top.type) /\ (depth = 1 => nestingMultipoint = 0)
    BY <2>2 DEF LevelsFit, Idle
  <2> QED
    BY <1>1, <2>1, <2>2, <2>3 DEF LevelOf
<1>9. CASE GeomEnd
  <2>1. /\ InGeometry /\ ReadPartEnd /\ Top.type # RING /\ ~EndsPolygon
        /\ level' = IF EndsSequence THEN level - 1 ELSE level
        /\ depth = 1 /\ nestingMultipoint = 0 => nestingMultipoint' = 0
    BY <1>1, <1>9 DEF GeomEnd, ReadGeomEnd
  <2>2. open # << >> /\ nodes' = nodes /\ Top'.type \in Containers \cup {FEATURE}
    BY <1>1, <2>1, PartEnded
  <2>3. level = LevelOf(Top.type) /\ (depth = 1 => nestingMultipoint = 0)
    BY <2>2 DEF LevelsFit, Idle
  <2>4. LevelOf(Top'.type) = 0
    BY <2>2 DEF LevelOf, Containers
  <2>5. level' = 0
    BY <1>1, <2>1, <2>3 DEF LevelOf, EndsSequence, EndsPolygon
  <2> QED
    BY <2>1, <2>3, <2>4, <2>5
<1>10. CASE PolygonEnd
  <2>1. /\ InGeometry /\ ReadPartEnd /\ Top.type # RING /\ EndsPolygon
        /\ level' = level - 1
    BY <1>10 DEF PolygonEnd, ReadGeomEnd
  <2>2. Top'.type \in Containers \cup {FEATURE}
    BY <1>1, <2>1, PartEnded
  <2> QED
    BY <2>1, <2>2 DEF LevelOf, Containers, EndsPolygon
<1>11. CASE FeatEnd \/ FeatRejected \/ Overflow \/ ReaderFails \/ Finish
  BY <1>11 DEF FeatEnd, ReadFeatEnd, FeatRejected, Overflow, ReaderFails, Abandon,
     Finish, BatchDone, Idle
<1>12. CASE UNCHANGED vars
  <2>1. UNCHANGED << open, nodes, level, nestingMultipoint >>
    BY <1>12 DEF vars, protocolVars, writerVars, shapeVars
  <2> QED
    BY <2>1 DEF LevelsFit, Idle, Top
<1> QED
  BY <1>2, <1>3, <1>5, <1>6, <1>7, <1>8, <1>9, <1>10, <1>11, <1>12 DEF Next

(* The end of a sequence of one element more. *)
LEMMA TailOfAppend ==
  ASSUME NEW W, NEW f \in Seq(W), NEW x \in W, NEW a \in Nat, a <= Len(f)
  PROVE  SubSeq(Append(f, x), a + 1, Len(Append(f, x)))
           = Append(SubSeq(f, a + 1, Len(f)), x)
<1>1. PICK t : t = << x >>
  OBVIOUS
<1>2. t \in Seq(W)
  BY <1>1
<1>3. Append(f, x) = f \o t
  BY <1>1, AppendIsConcat
<1>4. SubSeq(f \o t, a + 1, Len(f \o t)) = SubSeq(f, a + 1, Len(f)) \o t
  BY <1>2, TailOfLonger
<1>5. SubSeq(f, a + 1, Len(f)) \in Seq(W)
  <2>1. PICK n : n = Len(f)
    OBVIOUS
  <2>2. n \in Nat /\ a <= n
    BY <2>1
  <2>3. SubSeq(f, a + 1, n) \in Seq(W)
    BY <2>1, <2>2
  <2> QED
    BY <2>1, <2>3
<1>6. Append(SubSeq(f, a + 1, Len(f)), x) = SubSeq(f, a + 1, Len(f)) \o t
  BY <1>1, <1>5, AppendIsConcat
<1> QED
  BY <1>3, <1>4, <1>6


-----------------------------------------------------------------------------
(* What the lists of level l are cut from.                                 *)
Elems(d, cs, os, l) ==
  IF l = d - 1 THEN cs
  ELSE IF l = d - 2 THEN Cut(cs, os[d - 1])
  ELSE Cut(Cut(cs, os[d - 1]), os[d - 2])

(* The elements of level l that no list has yet. *)
Opened(d, cs, os, l) ==
  SubSeq(Elems(d, cs, os, l), LastOf(os[l]) + 1, Len(Elems(d, cs, os, l)))

(* What the lists of level l are made of. *)
Kind(d, l) == IF l = d - 1 THEN Nat ELSE IF l = d - 2 THEN Seq(Nat) ELSE Seq(Seq(Nat))

(* A list cut by one offset more, at its end. *)
LEMMA CutAppend ==
  ASSUME NEW S, NEW s \in Seq(S), NEW o, Cuts(o, Len(s)), NEW p, p = Append(o, Len(s))
  PROVE  /\ Cut(s, p) = Append(Cut(s, o), SubSeq(s, LastOf(o) + 1, Len(s)))
         /\ Cuts(p, Len(s))
         /\ SubSeq(s, LastOf(o) + 1, Len(s)) \in Seq(S)
         /\ SubSeq(s, LastOf(p) + 1, Len(s)) = << >>
<1>1. PICK n, m, x : n = Len(o) /\ m = Len(s) /\ x = LastOf(o)
  OBVIOUS
<1>2. /\ o \in Seq(Nat) /\ n \in Nat /\ n >= 1 /\ m \in Nat /\ x \in Nat /\ x <= m
      /\ x = o[n] /\ \A i \in 1 .. n - 1 : o[i] <= o[i + 1]
  <2>1. o \in Seq(Nat) /\ Len(o) >= 1
    BY DEF Cuts
  <2>2. LastOf(o) \in Nat
    BY <2>1, LastIsNat
  <2> QED
    BY <1>1, <2>1, <2>2 DEF Cuts, LastOf
<1>3. /\ p \in Seq(Nat) /\ Len(p) = n + 1 /\ p[n + 1] = m
      /\ \A i \in 1 .. n : p[i] = o[i]
  BY <1>1, <1>2, AppendProperties
<1>4. LastOf(p) = m
  BY <1>3 DEF LastOf
<1>5. ASSUME NEW i \in 1 .. n
      PROVE  p[i] <= p[i + 1]
  <2>1. CASE i = n
    BY <1>2, <1>3, <2>1
  <2>2. CASE i # n
    <3>1. i \in 1 .. n - 1 /\ i + 1 \in 1 .. n
      BY <1>2, <2>2
    <3> QED
      BY <1>2, <1>3, <3>1
  <2> QED
    BY <2>1, <2>2
<1>6. Cuts(p, Len(s))
  <2>1. Len(p) - 1 = n /\ Len(p) >= 1
    BY <1>2, <1>3
  <2> QED
    BY <1>1, <1>2, <1>3, <1>4, <1>5, <2>1 DEF Cuts
<1>7. PICK u, v, e : u = Cut(s, o) /\ v = Cut(s, p) /\ e = SubSeq(s, x + 1, m)
  OBVIOUS
<1>8. PICK W : W = Seq(S)
  OBVIOUS
<1>9. u \in Seq(W) /\ Len(u) = n - 1
  BY <1>1, <1>7, <1>8, CutTyped
<1>10. v \in Seq(W) /\ Len(v) = n
  <2>1. Cut(s, p) \in Seq(Seq(S)) /\ Len(Cut(s, p)) = Len(p) - 1
    BY <1>6, CutTyped
  <2> QED
    BY <1>2, <1>3, <1>7, <1>8, <2>1
<1>11. e \in W
  BY <1>1, <1>2, <1>7, <1>8
<1>12. ASSUME NEW i \in 1 .. n
       PROVE  v[i] = IF i = n THEN e ELSE u[i]
  <2>1. v[i] = SubSeq(s, p[i] + 1, p[i + 1])
    <3>1. i \in 1 .. Len(p) - 1
      BY <1>2, <1>3
    <3> QED
      BY <1>7, <3>1 DEF Cut
  <2>2. CASE i = n
    BY <1>2, <1>3, <1>7, <2>1, <2>2
  <2>3. CASE i # n
    <3>1. i \in 1 .. n - 1 /\ i + 1 \in 1 .. n
      BY <1>2, <2>3
    <3>2. u[i] = SubSeq(s, o[i] + 1, o[i + 1])
      BY <1>1, <1>7, <3>1 DEF Cut
    <3> QED
      BY <1>3, <2>1, <2>3, <3>1, <3>2
  <2> QED
    BY <2>2, <2>3
<1>13. v = Append(u, e)
  <2>1. PICK a : a = Append(u, e)
    OBVIOUS
  <2>2. /\ a \in Seq(W) /\ Len(a) = (n - 1) + 1 /\ a[(n - 1) + 1] = e
        /\ \A i \in 1 .. n - 1 : a[i] = u[i]
    BY <1>9, <1>11, <2>1, AppendProperties
  <2>3. (n - 1) + 1 = n
    BY <1>2
  <2>4. ASSUME NEW i \in 1 .. n
        PROVE  v[i] = a[i]
    <3>1. i = n \/ i \in 1 .. n - 1
      BY <1>2
    <3> QED
      BY <1>12, <2>2, <2>3, <3>1
  <2>5. v = a
    BY <1>10, <2>2, <2>3, <2>4, SeqEqual
  <2> QED
    BY <2>1, <2>5
<1>14. SubSeq(s, m + 1, m) = << >>
  BY <1>1, <1>2
<1> QED
  BY <1>1, <1>4, <1>6, <1>7, <1>8, <1>11, <1>13, <1>14

(* The lists before the last offset stay as they are. *)
LEMMA CutLonger ==
  ASSUME NEW S, NEW s \in Seq(S), NEW t \in Seq(S), Begins(s, t), NEW o, Cuts(o, Len(s))
  PROVE  Cut(t, o) = Cut(s, o) /\ Cuts(o, Len(t))
<1>1. Len(s) \in Nat /\ Len(t) \in Nat /\ Len(s) <= Len(t) /\ o \in Seq(Nat)
      /\ Len(o) >= 1 /\ LastOf(o) <= Len(s)
  BY DEF Begins, Cuts
<1>2. LastOf(o) \in Nat
  BY <1>1, LastIsNat
<1>3. Cuts(o, Len(t))
  BY <1>1, <1>2 DEF Cuts
<1>4. Begins(o, o) /\ Alike(s, t)
  BY <1>1, BeginsSame DEF Alike
<1>5. PICK u, v, W : u = Cut(s, o) /\ v = Cut(t, o) /\ W = Seq(S)
  OBVIOUS
<1>6. Begins(u, v)
  BY <1>3, <1>4, <1>5, CutExtends
<1>7. u \in Seq(W) /\ Len(u) = Len(o) - 1
  BY <1>5, CutTyped
<1>8. v \in Seq(W) /\ Len(v) = Len(o) - 1
  BY <1>3, <1>5, CutTyped
<1>9. u = v
  <2>1. \A i \in 1 .. Len(u) : v[i] = u[i]
    BY <1>6 DEF Begins
  <2> QED
    BY <1>7, <1>8, <2>1, SeqEqual
<1> QED
  BY <1>3, <1>5, <1>9

(* Offsets of lists of lists cut what is below them. *)
LEMMA ElemsType ==
  ASSUME NEW d \in 2 .. 3, NEW cs \in Seq(Nat), NEW os, CutsInto(d, cs, os),
         NEW l \in 0 .. d - 1
  PROVE  /\ Elems(d, cs, os, l) \in Seq(Kind(d, l))
         /\ Cuts(os[l], Len(Elems(d, cs, os, l)))
         /\ Len(Elems(d, cs, os, l)) = IF l = d - 1 THEN Len(cs) ELSE Len(os[l + 1]) - 1
         /\ l # d - 1 => /\ Elems(d, cs, os, l) = Cut(Elems(d, cs, os, l + 1), os[l + 1])
                         /\ Kind(d, l) = Seq(Kind(d, l + 1))
<1>1. d \in 0 .. 3 /\ d - 1 \in 0 .. d - 1 /\ d - 2 \in 0 .. d - 1
      /\ (d - 2) + 1 = d - 1 /\ d - 2 # d - 1
  OBVIOUS
<1>2. \A k \in 0 .. d - 1 : Cuts(os[k], IF k = d - 1 THEN Len(cs) ELSE Len(os[k + 1]) - 1)
  BY <1>1, LevelsCut
<1>3. Cuts(os[d - 1], Len(cs))
  BY <1>1, <1>2
<1>4. Cuts(os[d - 2], Len(os[d - 1]) - 1)
  BY <1>1, <1>2
<1>5. PICK c1 : c1 = Cut(cs, os[d - 1])
  OBVIOUS
<1>6. c1 \in Seq(Seq(Nat)) /\ Len(c1) = Len(os[d - 1]) - 1
  BY <1>3, <1>5, CutTyped
<1>7. PICK W : W = Seq(Nat)
  OBVIOUS
<1>8. PICK c2 : c2 = Cut(c1, os[d - 2])
  OBVIOUS
<1>9. c2 \in Seq(Seq(W)) /\ Len(c2) = Len(os[d - 2]) - 1
  BY <1>4, <1>6, <1>7, <1>8, CutTyped
<1>10. CASE l = d - 1
  BY <1>3, <1>10 DEF Elems, Kind
<1>11. CASE l = d - 2
  <2>1. Elems(d, cs, os, l) = c1 /\ Kind(d, l) = Seq(Nat) /\ l # d - 1 /\ l + 1 = d - 1
    BY <1>1, <1>5, <1>11 DEF Elems, Kind
  <2>2. Elems(d, cs, os, l + 1) = cs /\ Kind(d, l + 1) = Nat
    BY <2>1 DEF Elems, Kind
  <2> QED
    BY <1>4, <1>5, <1>6, <1>11, <2>1, <2>2
<1>12. CASE l # d - 1 /\ l # d - 2
  <2>1. l + 1 = d - 2 /\ l + 1 # d - 1 /\ d = 3 /\ l = 0
    BY <1>12
  <2>2. Elems(d, cs, os, l) = c2 /\ Kind(d, l) = Seq(W)
    BY <1>5, <1>7, <1>8, <1>12 DEF Elems, Kind
  <2>3. Elems(d, cs, os, l + 1) = c1 /\ Kind(d, l + 1) = W
    BY <1>5, <1>7, <2>1 DEF Elems, Kind
  <2>4. Cuts(os[l], Len(os[l + 1]) - 1)
    BY <1>2, <1>12
  <2>5. Len(c2) = Len(os[l + 1]) - 1
    BY <1>9, <2>1
  <2> QED
    BY <1>8, <1>9, <1>12, <2>1, <2>2, <2>3, <2>4, <2>5
<1> QED
  BY <1>10, <1>11, <1>12

(* The offsets once the list of level l is closed. *)
ClosedAt(d, cs, os, l) == [os EXCEPT ![l] = Append(@, Len(Elems(d, cs, os, l)))]

(* Closing the list of level l moves what is open there to the list around *)
(* it, as one element.                                                     *)
LEMMA OpenedByClose ==
  ASSUME NEW d \in 2 .. 3, NEW cs \in Seq(Nat), NEW os \in [Lvl -> Seq(Nat)],
         CutsInto(d, cs, os), NEW l \in 1 .. d - 1,
         NEW ot, ot = ClosedAt(d, cs, os, l)
  PROVE  /\ Opened(d, cs, ot, l) = << >>
         /\ Opened(d, cs, ot, l - 1)
              = Append(Opened(d, cs, os, l - 1), Opened(d, cs, os, l))
         /\ \A k \in 0 .. d - 1 : k # l /\ k # l - 1 =>
              Opened(d, cs, ot, k) = Opened(d, cs, os, k)
<1>1. l \in Lvl /\ l - 1 \in 0 .. d - 1 /\ l \in 0 .. d - 1 /\ l - 1 # d - 1
      /\ (l - 1) + 1 = l
  BY DEF Lvl
<1>2. PICK e, f, S : /\ e = Elems(d, cs, os, l) /\ f = Elems(d, cs, os, l - 1)
                     /\ S = Kind(d, l)
  OBVIOUS
<1>3. e \in Seq(S) /\ Cuts(os[l], Len(e))
  BY <1>1, <1>2, ElemsType
<1>4. f \in Seq(Seq(S)) /\ f = Cut(e, os[l]) /\ Cuts(os[l - 1], Len(f))
  <2>1. /\ Elems(d, cs, os, l - 1) \in Seq(Kind(d, l - 1))
        /\ Cuts(os[l - 1], Len(Elems(d, cs, os, l - 1)))
        /\ Elems(d, cs, os, l - 1) = Cut(Elems(d, cs, os, (l - 1) + 1), os[(l - 1) + 1])
        /\ Kind(d, l - 1) = Seq(Kind(d, (l - 1) + 1))
    <3>1. PICK k : k = l - 1
      OBVIOUS
    <3>2. k \in 0 .. d - 1 /\ k # d - 1
      BY <1>1, <3>1
    <3>3. /\ Elems(d, cs, os, k) \in Seq(Kind(d, k))
          /\ Cuts(os[k], Len(Elems(d, cs, os, k)))
          /\ k # d - 1 =>
               /\ Elems(d, cs, os, k) = Cut(Elems(d, cs, os, k + 1), os[k + 1])
               /\ Kind(d, k) = Seq(Kind(d, k + 1))
      BY <3>2, ElemsType
    <3> QED
      BY <3>1, <3>2, <3>3
  <2> QED
    BY <1>1, <1>2, <2>1
<1>5. /\ ot[l] = Append(os[l], Len(e))
      /\ \A k \in Lvl : k # l => ot[k] = os[k]
  BY <1>1, <1>2 DEF ClosedAt
<1>6. /\ Cut(e, ot[l]) = Append(f, SubSeq(e, LastOf(os[l]) + 1, Len(e)))
      /\ Cuts(ot[l], Len(e))
      /\ SubSeq(e, LastOf(os[l]) + 1, Len(e)) \in Seq(S)
      /\ SubSeq(e, LastOf(ot[l]) + 1, Len(e)) = << >>
  BY <1>3, <1>4, <1>5, CutAppend
<1>7. Elems(d, cs, ot, l) = e
  <2>1. l # d - 1 => d - 1 \in Lvl /\ d - 1 # l
    BY DEF Lvl
  <2>2. l = d - 1 \/ l = d - 2
    OBVIOUS
  <2> QED
    BY <1>2, <1>5, <2>1, <2>2 DEF Elems
<1>8. Elems(d, cs, ot, l - 1) = Append(f, SubSeq(e, LastOf(os[l]) + 1, Len(e)))
  <2>1. CASE l = d - 1
    <3>1. Elems(d, cs, ot, l - 1) = Cut(cs, ot[d - 1]) /\ e = cs
      BY <1>2, <2>1 DEF Elems
    <3> QED
      BY <1>6, <2>1, <3>1
  <2>2. CASE l # d - 1
    <3>1. d = 3 /\ l = d - 2 /\ l - 1 # d - 2 /\ d - 1 # l /\ d - 1 \in Lvl
      BY <2>2 DEF Lvl
    <3>2. Elems(d, cs, ot, l - 1) = Cut(Cut(cs, ot[d - 1]), ot[d - 2])
          /\ e = Cut(cs, os[d - 1])
      BY <1>1, <1>2, <3>1 DEF Elems
    <3>3. ot[d - 1] = os[d - 1]
      BY <1>5, <3>1
    <3> QED
      BY <1>6, <3>1, <3>2, <3>3
  <2> QED
    BY <2>1, <2>2
<1>9. Opened(d, cs, ot, l) = << >>
  BY <1>6, <1>7 DEF Opened
<1>10. PICK x : x = Opened(d, cs, os, l)
  OBVIOUS
<1>11. x \in Seq(S) /\ x = SubSeq(e, LastOf(os[l]) + 1, Len(e))
  BY <1>2, <1>6, <1>10 DEF Opened
<1>12. LastOf(os[l - 1]) \in Nat /\ LastOf(os[l - 1]) <= Len(f)
  <2>1. os[l - 1] \in Seq(Nat) /\ Len(os[l - 1]) >= 1 /\ LastOf(os[l - 1]) <= Len(f)
    BY <1>4 DEF Cuts
  <2> QED
    BY <2>1, LastIsNat
<1>13. Opened(d, cs, ot, l - 1) = Append(Opened(d, cs, os, l - 1), x)
  <2>1. l - 1 \in Lvl /\ l - 1 # l
    BY <1>1 DEF Lvl
  <2>2. ot[l - 1] = os[l - 1]
    BY <1>5, <2>1
  <2>3. PICK a, W, g : a = LastOf(os[l - 1]) /\ W = Seq(S) /\ g = Append(f, x)
    OBVIOUS
  <2>4. f \in Seq(W) /\ x \in W /\ a \in Nat /\ a <= Len(f)
    BY <1>4, <1>11, <1>12, <2>3
  <2>5. SubSeq(g, a + 1, Len(g)) = Append(SubSeq(f, a + 1, Len(f)), x)
    BY <2>3, <2>4, TailOfAppend
  <2>6. Opened(d, cs, ot, l - 1) = SubSeq(g, a + 1, Len(g))
    BY <1>8, <1>11, <2>2, <2>3 DEF Opened
  <2>7. Opened(d, cs, os, l - 1) = SubSeq(f, a + 1, Len(f))
    BY <1>2, <2>3 DEF Opened
  <2> QED
    BY <2>5, <2>6, <2>7
<1>14. ASSUME NEW k \in 0 .. d - 1, k # l, k # l - 1
       PROVE  Opened(d, cs, ot, k) = Opened(d, cs, os, k)
  <2>4. k \in Lvl
    BY DEF Lvl
  <2>1. ot[k] = os[k]
    BY <1>5, <1>14, <2>4
  <2>2. CASE k > l
    <3>1. k = d - 1
      BY <2>2
    <3>2. Elems(d, cs, ot, k) = cs /\ Elems(d, cs, os, k) = cs
      BY <3>1 DEF Elems
    <3> QED
      BY <2>1, <3>2 DEF Opened
  <2>3. CASE k < l
    <3>1. d = 3 /\ k = 0 /\ l = 2 /\ d - 1 = 2 /\ d - 2 = 1 /\ 1 \in Lvl
      BY <1>14, <2>3 DEF Lvl
    <3>2. e = cs /\ f = Cut(cs, os[2])
      BY <1>2, <1>4, <3>1 DEF Elems
    <3>3. Elems(d, cs, ot, k) = Cut(Cut(cs, ot[2]), ot[1])
          /\ Elems(d, cs, os, k) = Cut(Cut(cs, os[2]), os[1])
      BY <3>1 DEF Elems
    <3>4. PICK W, g : W = Seq(S) /\ g = Append(f, x)
      OBVIOUS
    <3>5. Cut(cs, ot[2]) = g /\ ot[1] = os[1]
      <4>1. Cut(e, ot[l]) = Append(f, x)
        BY <1>6, <1>11, Zenon
      <4>2. ot[1] = os[1]
        BY <1>5, <3>1
      <4>3. l = 2
        BY <3>1
      <4> QED
        BY <3>2, <3>4, <4>1, <4>2, <4>3, Zenon
    <3>6. f \in Seq(W) /\ x \in W /\ g \in Seq(W) /\ Begins(f, g)
      BY <1>4, <1>11, <3>4, BeginsAppend, AppendProperties
    <3>7. Cuts(os[1], Len(f))
      BY <1>4, <3>1
    <3>8. Cut(g, os[1]) = Cut(f, os[1])
      BY <3>6, <3>7, CutLonger
    <3>9. Elems(d, cs, ot, k) = Elems(d, cs, os, k)
      BY <3>2, <3>3, <3>5, <3>8
    <3> QED
      BY <2>1, <3>9 DEF Opened
  <2> QED
    BY <1>14, <2>2, <2>3
<1> QED
  BY <1>9, <1>10, <1>13, <1>14

(* Coordinates extend the open sequence and nothing else. *)
LEMMA OpenedByCoords ==
  ASSUME NEW d \in 2 .. 3, NEW cs \in Seq(Nat), NEW more \in Seq(Nat), NEW os,
         CutsInto(d, cs, os)
  PROVE  /\ Opened(d, cs \o more, os, d - 1) = Opened(d, cs, os, d - 1) \o more
         /\ \A k \in 0 .. d - 1 : k # d - 1 =>
              Opened(d, cs \o more, os, k) = Opened(d, cs, os, k)
<1>1. d - 1 \in 0 .. d - 1 /\ d - 2 \in 0 .. d - 1 /\ d - 2 # d - 1
  OBVIOUS
<1>2. PICK ct : ct = cs \o more
  OBVIOUS
<1>3. ct \in Seq(Nat) /\ Begins(cs, ct)
  BY <1>2, BeginsConcat
<1>4. Elems(d, cs, os, d - 1) = cs /\ Elems(d, ct, os, d - 1) = ct
  BY DEF Elems
<1>5. Cuts(os[d - 1], Len(cs))
  <2>1. PICK k : k = d - 1
    OBVIOUS
  <2>2. k \in 0 .. d - 1
    BY <1>1, <2>1
  <2>3. Cuts(os[k], Len(Elems(d, cs, os, k)))
    BY <2>2, ElemsType
  <2> QED
    BY <1>4, <2>1, <2>3
<1>6. Opened(d, ct, os, d - 1) = Opened(d, cs, os, d - 1) \o more
  <2>1. PICK a : a = LastOf(os[d - 1])
    OBVIOUS
  <2>2. a \in Nat /\ a <= Len(cs)
    <3>1. os[d - 1] \in Seq(Nat) /\ Len(os[d - 1]) >= 1 /\ LastOf(os[d - 1]) <= Len(cs)
      BY <1>5 DEF Cuts
    <3> QED
      BY <2>1, <3>1, LastIsNat
  <2>3. SubSeq(cs \o more, a + 1, Len(cs \o more)) = SubSeq(cs, a + 1, Len(cs)) \o more
    BY <2>2, TailOfLonger
  <2> QED
    BY <1>2, <1>4, <2>1, <2>3 DEF Opened
<1>7. Cut(ct, os[d - 1]) = Cut(cs, os[d - 1])
  BY <1>3, <1>5, CutLonger
<1>8. ASSUME NEW k \in 0 .. d - 1, k # d - 1
      PROVE  Opened(d, ct, os, k) = Opened(d, cs, os, k)
  <2>1. Elems(d, ct, os, k) = Elems(d, cs, os, k)
    BY <1>7, <1>8 DEF Elems
  <2> QED
    BY <2>1 DEF Opened
<1> QED
  BY <1>2, <1>6, <1>8

(* A row is what is open at its end. *)
LEMMA RowByClose ==
  ASSUME NEW d \in 2 .. 3, NEW cs \in Seq(Nat), NEW os \in [Lvl -> Seq(Nat)],
         CutsInto(d, cs, os),
         NEW ot, ot = ClosedAt(d, cs, os, 0)
  PROVE  LET all == Nested(d, cs, ot)
         IN all[Len(os[0])] = Opened(d, cs, os, 0)
<1>1. 0 \in Lvl /\ 0 \in 0 .. d - 1 /\ 0 # d - 1 /\ d - 1 \in Lvl /\ d - 2 \in Lvl
      /\ (d = 3 => d - 2 # 0) /\ (d = 2 => d - 2 = 0)
  BY DEF Lvl
<1>2. PICK e, S : e = Elems(d, cs, os, 0) /\ S = Kind(d, 0)
  OBVIOUS
<1>3. e \in Seq(S) /\ Cuts(os[0], Len(e))
  BY <1>1, <1>2, ElemsType
<1>4. ot[0] = Append(os[0], Len(e)) /\ \A k \in Lvl : k # 0 => ot[k] = os[k]
  BY <1>1, <1>2 DEF ClosedAt
<1>5. ot[d - 1] = os[d - 1] /\ (d = 3 => ot[d - 2] = os[d - 2])
  BY <1>1, <1>4
<1>6. Nested(d, cs, ot) = Cut(e, ot[0])
  <2>1. CASE d = 2
    <3>1. e = Cut(cs, os[1]) /\ Nested(d, cs, ot) = Cut(Cut(cs, ot[1]), ot[0])
          /\ ot[1] = os[1]
      BY <1>2, <1>5, <2>1 DEF Elems, Nested
    <3> QED
      BY <3>1
  <2>2. CASE d = 3
    <3>1. /\ e = Cut(Cut(cs, os[2]), os[1])
          /\ Nested(d, cs, ot) = Cut(Cut(Cut(cs, ot[2]), ot[1]), ot[0])
          /\ ot[1] = os[1] /\ ot[2] = os[2]
      BY <1>2, <1>5, <2>2 DEF Elems, Nested
    <3> QED
      BY <3>1
  <2> QED
    BY <2>1, <2>2
<1>7. PICK x, u, W : /\ x = SubSeq(e, LastOf(os[0]) + 1, Len(e)) /\ u = Cut(e, os[0])
                     /\ W = Seq(S)
  OBVIOUS
<1>8. Cut(e, ot[0]) = Append(u, x) /\ x \in W
  BY <1>3, <1>4, <1>7, CutAppend
<1>9. u \in Seq(W) /\ Len(u) = Len(os[0]) - 1
  BY <1>3, <1>7, CutTyped
<1>10. Append(u, x)[Len(u) + 1] = x
  BY <1>8, <1>9, AppendProperties
<1>11. Len(u) + 1 = Len(os[0])
  <2>1. PICK n : n = Len(os[0])
    OBVIOUS
  <2>2. n \in Nat
    BY <1>1, <2>1
  <2> QED
    BY <1>9, <2>1, <2>2
<1>12. x = Opened(d, cs, os, 0)
  BY <1>2, <1>7 DEF Opened
<1> QED
  BY <1>6, <1>8, <1>10, <1>11, <1>12

-----------------------------------------------------------------------------
(* The open lists of the state. *)
OpenList(l) == Opened(depth, coords, offsets, l)

(* What the writer counts as closed and open at a level is what the
   offsets cut. *)
LEMMA StateElems ==
  ASSUME Inv, depth >= 2, NEW l \in 0 .. depth - 1
  PROVE  /\ Elements(offsets, l) = Len(Elems(depth, coords, offsets, l))
         /\ CutsInto(depth, coords, offsets) /\ depth \in 2 .. 3
         /\ OpenList(l) \in Seq(Kind(depth, l))
         /\ Elements(offsets, l) - LastOf(offsets[l]) = Len(OpenList(l))
<1>1. /\ depth \in 2 .. 3 /\ coords \in Seq(Nat) /\ CutsInto(depth, coords, offsets)
  BY BatchTypes, StateCuts
<1>2. PICK e, S, n : e = Elems(depth, coords, offsets, l) /\ S = Kind(depth, l) /\ n = Len(e)
  OBVIOUS
<1>3. /\ e \in Seq(S) /\ Cuts(offsets[l], n)
      /\ n = IF l = depth - 1 THEN Len(coords) ELSE Len(offsets[l + 1]) - 1
  BY <1>1, <1>2, ElemsType
<1>4. Elements(offsets, l) = n
  BY <1>3 DEF Elements
<1>5. PICK a : a = LastOf(offsets[l])
  OBVIOUS
<1>6. a \in Nat /\ a <= n /\ n \in Nat
  <2>1. offsets[l] \in Seq(Nat) /\ Len(offsets[l]) >= 1 /\ LastOf(offsets[l]) <= n
    BY <1>3 DEF Cuts
  <2> QED
    BY <1>2, <1>3, <1>5, <2>1, LastIsNat
<1>7. SubSeq(e, a + 1, n) \in Seq(S) /\ Len(SubSeq(e, a + 1, n)) = n - a
  <2>1. PICK b : b = a + 1
    OBVIOUS
  <2>2. b \in 1 .. n + 1 /\ e \in Seq(S) /\ n = Len(e)
    BY <1>2, <1>3, <1>6, <2>1
  <2>3. SubSeq(e, b, n) \in Seq(S)
    BY <1>6, <2>2
  <2>4. Len(SubSeq(e, b, n)) = n - b + 1
    BY <1>6, <2>2
  <2> QED
    BY <1>6, <2>1, <2>3, <2>4
<1>8. OpenList(l) = SubSeq(e, a + 1, n)
  BY <1>2, <1>5 DEF OpenList, Opened
<1> QED
  BY <1>1, <1>2, <1>4, <1>5, <1>7, <1>8

(* As long as no feature was abandoned, the size counts what is open. *)
LEMMA SizeOfOpenList ==
  ASSUME BatchInv, failed = 0, depth >= 2, NEW l \in 0 .. depth - 1
  PROVE  /\ Idle => OpenList(l) = << >>
         /\ ~Idle => (size[l] > 0 <=> OpenList(l) # << >>)
<1>1. Inv /\ AllCounted
  BY DEF BatchInv
<1>2. /\ OpenList(l) \in Seq(Kind(depth, l))
      /\ Elements(offsets, l) - LastOf(offsets[l]) = Len(OpenList(l))
  BY <1>1, StateElems
<1>3. Elements(offsets, l) - LastOf(offsets[l]) = IF Idle THEN 0 ELSE size[l]
  BY <1>1 DEF AllCounted
<1>4. PICK s : s = OpenList(l)
  OBVIOUS
<1>5. s = << >> <=> Len(s) = 0
  BY <1>2, <1>4, EmptySeq
<1>6. Len(s) \in Nat
  BY <1>2, <1>4
<1> QED
  BY <1>2, <1>3, <1>4, <1>5, <1>6

(* A list ends, if it has anything: it is added to the list around it. *)
LEMMA OpenListEnds ==
  ASSUME BatchInv, failed = 0, depth >= 2, ~Idle, NEW l \in 1 .. depth - 1,
         depth' = depth, coords' = coords,
         offsets' = IF size[l] > 0 THEN Close(offsets, l) ELSE offsets
  PROVE  /\ OpenList(l)' = << >>
         /\ OpenList(l - 1)' = OpenList(l - 1) \o Kept(OpenList(l))
         /\ \A k \in 0 .. depth - 1 : k # l /\ k # l - 1 => OpenList(k)' = OpenList(k)
<1>1. Inv
  BY DEF BatchInv
<1>2. /\ depth \in 2 .. 3 /\ coords \in Seq(Nat) /\ offsets \in [Lvl -> Seq(Nat)]
      /\ l \in 0 .. depth - 1 /\ l - 1 \in 0 .. depth - 1
  BY <1>1, BatchTypes
<1>3. /\ CutsInto(depth, coords, offsets)
      /\ Elements(offsets, l) = Len(Elems(depth, coords, offsets, l))
      /\ OpenList(l) \in Seq(Kind(depth, l))
  BY <1>1, <1>2, StateElems
<1>4. OpenList(l - 1) \in Seq(Seq(Kind(depth, l)))
  <2>1. PICK k : k = l - 1
    OBVIOUS
  <2>2. k \in 0 .. depth - 1 /\ k # depth - 1 /\ k + 1 = l
    BY <1>2, <2>1
  <2>3. OpenList(k) \in Seq(Kind(depth, k))
    BY <1>1, <2>2, StateElems
  <2>4. Kind(depth, k) = Seq(Kind(depth, k + 1))
    BY <1>2, <1>3, <2>2, ElemsType
  <2> QED
    BY <2>1, <2>2, <2>3, <2>4
<1>5. \A k : OpenList(k)' = Opened(depth, coords, offsets', k)
  BY DEF OpenList
<1>6. CASE size[l] > 0
  <2>1. OpenList(l) # << >>
    BY <1>2, <1>6, SizeOfOpenList
  <2>2. Kept(OpenList(l)) = << OpenList(l) >>
    BY <2>1 DEF Kept
  <2>3. offsets' = ClosedAt(depth, coords, offsets, l)
    BY <1>3, <1>6 DEF Close, ClosedAt
  <2>4. PICK ot : ot = offsets'
    OBVIOUS
  <2>8. /\ ot = ClosedAt(depth, coords, offsets, l)
        /\ l \in 1 .. depth - 1
    BY <2>3, <2>4
  <2>5. /\ Opened(depth, coords, ot, l) = << >>
        /\ Opened(depth, coords, ot, l - 1)
             = Append(Opened(depth, coords, offsets, l - 1), Opened(depth, coords, offsets, l))
        /\ \A k \in 0 .. depth - 1 : k # l /\ k # l - 1 =>
             Opened(depth, coords, ot, k) = Opened(depth, coords, offsets, k)
    BY <1>2, <1>3, <2>8, OpenedByClose
  <2>6. PICK u, x, W : u = OpenList(l - 1) /\ x = OpenList(l) /\ W = Seq(Kind(depth, l))
    OBVIOUS
  <2>7. Append(u, x) = u \o << x >>
    BY <1>3, <1>4, <2>6, AppendIsConcat
  <2> QED
    BY <1>5, <2>2, <2>4, <2>5, <2>6, <2>7 DEF OpenList
<1>7. CASE ~(size[l] > 0)
  <2>1. OpenList(l) = << >>
    BY <1>2, <1>7, SizeOfOpenList
  <2>2. Kept(OpenList(l)) = << >>
    BY <2>1 DEF Kept
  <2>3. \A k : OpenList(k)' = OpenList(k)
    BY <1>5, <1>7 DEF OpenList
  <2>4. PICK W : W = Seq(Kind(depth, l))
    OBVIOUS
  <2>5. OpenList(l - 1) \o << >> = OpenList(l - 1)
    <3>1. \A s \in Seq(W) : s \o << >> = s
      BY ConcatEmptySeq
    <3> QED
      BY <1>4, <2>4, <3>1
  <2> QED
    BY <2>1, <2>2, <2>3, <2>5
<1> QED
  BY <1>6, <1>7

-----------------------------------------------------------------------------
(* A geometry or a ring starts, and no list changes. *)
LEMMA PartStarts ==
  ASSUME ProtocolAssumption, Inv,
         \/ \E type \in GeomTypes, dims \in Dims : GeomStart(type, dims)
         \/ RingStart
  PROVE  /\ \E type \in RING .. GEOMETRYCOLLECTION, dims \in 1 .. 4 :
              /\ ReadPartStart(type, dims)
              /\ IF type = RING THEN InGeometry /\ Top.type = POLYGON
                 ELSE Top.type \in Containers \cup {FEATURE}
         /\ open # << >>
         /\ depth' = depth /\ coords' = coords /\ offsets' = offsets /\ size' = size
<1>1. ProtocolTypeOK /\ Nesting
  BY DEF Inv, TypeOK
<1>2. CASE \E type \in GeomTypes, dims \in Dims : GeomStart(type, dims)
  <2>1. PICK type \in GeomTypes, dims \in Dims : GeomStart(type, dims)
    BY <1>2
  <2>2. /\ type \in RING .. GEOMETRYCOLLECTION /\ dims \in 1 .. 4 /\ type # RING
        /\ ReadPartStart(type, dims) /\ open # << >>
        /\ Top.type \in Containers \cup {FEATURE}
    BY <2>1 DEF GeomStart, ReadGeomStart, ProtocolAssumption, RING, GEOMETRYCOLLECTION,
       Idle, MayContain
  <2>3. /\ depth' = depth /\ coords' = coords /\ offsets' = offsets /\ size' = size
    BY <2>1 DEF GeomStart, listVars
  <2> QED
    BY <2>2, <2>3
<1>3. CASE RingStart
  <2>1. /\ InGeometry /\ Top.type = POLYGON /\ open # << >> /\ nodes # << >>
        /\ nodes \in Seq(NodeSet) /\ ReadPartStart(RING, nodes[Len(nodes)].dims)
        /\ depth' = depth /\ coords' = coords /\ offsets' = offsets /\ size' = size
    BY <1>1, <1>3, EmptySeq
    DEF RingStart, ReadRingStart, InGeometry, Nesting, ProtocolTypeOK, listVars
  <2>2. nodes[Len(nodes)] \in NodeSet
    BY <2>1, EmptySeq
  <2>3. nodes[Len(nodes)].dims \in 1 .. 4 /\ RING \in RING .. GEOMETRYCOLLECTION
    BY <2>2 DEF NodeSet, RING, GEOMETRYCOLLECTION
  <2> QED
    BY <2>1, <2>3
<1> QED
  BY <1>2, <1>3

(* The open lists are functions of the buffers. *)
LEMMA OpenListsStay ==
  ASSUME depth' = depth, coords' = coords, offsets' = offsets
  PROVE  \A l : OpenList(l)' = OpenList(l)
BY DEF OpenList

(* A geometry or a ring is open only in a feature that has nodes. *)
LEMMA PartIsOpen ==
  ASSUME Inv, ~Idle, Top.type \in RING .. GEOMETRYCOLLECTION
  PROVE  InGeometry /\ nodes # << >>
<1>1. Nesting /\ open \in Seq(FrameSet) /\ open # << >>
  BY DEF Inv, TypeOK, ProtocolTypeOK, Idle
<1>2. Len(open) \in Nat \ {0}
  BY <1>1, EmptySeq
<1>3. open[1].type \in {FEATURE, NULLFEATURE}
  BY <1>1 DEF Nesting
<1>4. open[1].type \notin RING .. GEOMETRYCOLLECTION
  BY <1>3 DEF RING, GEOMETRYCOLLECTION, FEATURE, NULLFEATURE
<1>5. PICK n : n = Len(open)
  OBVIOUS
<1>6. n # 1
  BY <1>4, <1>5 DEF Top
<1>7. InGeometry
  BY <1>2, <1>5, <1>6 DEF InGeometry
<1> QED
  BY <1>1, <1>7 DEF Nesting

(* The end of a part closes a sequence when it is one of the sequences the *)
(* lists are made of, and when there is something to close.                *)
LEMMA PartEnds ==
  ASSUME Inv, Parented, LevelsFit, depth \in 2 .. 3, NoneOf(nodes, Excluded),
         RingEnd \/ GeomEnd
  PROVE  /\ depth' = depth /\ coords' = coords /\ failed' = failed /\ nodes' = nodes
         /\ rows' = rows /\ ~Idle /\ level = LevelOf(Top.type)
         /\ offsets' = IF LevelOf(Top.type) = depth - 1 /\ size[depth - 1] > 0
                       THEN Close(offsets, depth - 1) ELSE offsets
         /\ IF Top.type = RING THEN Top'.type = POLYGON
            ELSE Top'.type \in Containers \cup {FEATURE}
         /\ depth = 3 => Top.type # POLYGON
<1> USE DEF RING, POINT, LINESTRING, POLYGON, MULTIPOINT, MULTILINESTRING,
        MULTIPOLYGON, GEOMETRYCOLLECTION, FEATURE, NULLFEATURE
<1>1. ProtocolTypeOK /\ Nesting /\ level \in Int
  BY DEF Inv, TypeOK, WriterTypeOK
<1>2. InGeometry /\ ReadPartEnd
  BY DEF RingEnd, ReadRingEnd, GeomEnd, ReadGeomEnd
<1>3. /\ open # << >> /\ nodes' = nodes /\ rows' = rows /\ failed' = failed
      /\ IF Top.type = RING THEN Top'.type = POLYGON
         ELSE Top'.type \in Containers \cup {FEATURE}
  BY <1>1, <1>2, PartEnded
<1>4. ~Idle /\ level = LevelOf(Top.type)
  BY <1>3 DEF LevelsFit, Idle
<1>5. CASE RingEnd
  <2>1. /\ Top.type = RING /\ depth' = depth /\ coords' = coords
        /\ \/ SequencePending /\ offsets' = Close(offsets, depth - 1)
           \/ ~SequencePending /\ offsets' = offsets
    BY <1>5 DEF RingEnd, ReadRingEnd
  <2>2. LevelOf(Top.type) = depth - 1
    BY <2>1 DEF LevelOf
  <2> QED
    BY <1>3, <1>4, <2>1, <2>2 DEF SequencePending
<1>6. CASE GeomEnd
  <2>1. /\ ~EndsPolygon /\ depth' = depth /\ coords' = coords
        /\ \/ EndsSequence /\ SequencePending /\ offsets' = Close(offsets, depth - 1)
           \/ (~EndsSequence \/ ~SequencePending) /\ offsets' = offsets
    BY <1>6 DEF GeomEnd
  <2>2. EndsSequence <=> level = depth - 1
    BY DEF EndsSequence
  <2>3. depth = 3 => Top.type # POLYGON
    BY <1>4, <2>1 DEF EndsPolygon, LevelOf
  <2> QED
    BY <1>3, <1>4, <2>1, <2>2, <2>3 DEF SequencePending
<1> QED
  BY <1>5, <1>6

(* The open sequence is of a type the feature may have. *)
LEMMA TopFits ==
  ASSUME SequenceIsLast, InGeometry, HoldsCoords(Top.type),
         nodes \in Seq(NodeSet), nodes # << >>, NEW S, NoneOf(nodes, S)
  PROVE  Top.type \notin S
<1>1. Last(nodes).type = Top.type
  BY DEF SequenceIsLast
<1>2. Len(nodes) \in DOMAIN nodes
  BY EmptySeq
<1>3. nodes[Len(nodes)].type \notin S
  BY <1>2 DEF NoneOf
<1> QED
  BY <1>1, <1>3 DEF Last

-----------------------------------------------------------------------------
(* Lists of sequences: the open row has the sequences that ended, and the  *)
(* one that is open has the coordinates of the last node.                  *)
OpenSequencesFit ==
  failed = 0 /\ depth = 2 /\ ~Idle /\ NoneOf(nodes, Excluded) =>
    IF Top.type \in {LINESTRING, RING}
    THEN /\ OpenList(0) = NonEmpty(Sequences(Front(nodes)))
         /\ OpenList(1) = Last(nodes).xs
    ELSE /\ OpenList(0) = NonEmpty(Sequences(nodes))
         /\ OpenList(1) = << >>

(* A new node has no coordinates. *)
LEMMA SequencesStay ==
  ASSUME NEW ns \in Seq(NodeSet), NEW node \in NodeSet, node.xs = << >>
  PROVE  NonEmpty(Sequences(Append(ns, node))) = NonEmpty(Sequences(ns))
<1>1. PICK W, u : W = Seq(Nat) /\ u = NonEmpty(Sequences(ns))
  OBVIOUS
<1>2. u \in Seq(W)
  <2>1. Sequences(ns) \in Seq(Seq(Nat)) /\ << >> \in Seq(Nat)
    BY SequencesType
  <2>2. NonEmpty(Sequences(ns)) \in Seq(Seq(Nat))
    BY <2>1, NonEmptyAppend
  <2> QED
    BY <1>1, <2>2
<1>3. NonEmpty(Sequences(Append(ns, node))) = u \o Kept(node.xs)
  BY <1>1, SequencesShape
<1>4. Kept(node.xs) = << >>
  BY DEF Kept
<1>5. u \o << >> = u
  BY <1>2, ConcatEmptySeq
<1> QED
  BY <1>1, <1>3, <1>4, <1>5

(* Every step of a writer of two levels keeps the open lists those of
   the nodes visited. *)
LEMMA OpenSequencesPreserved ==
  ASSUME ProtocolAssumption, NativeAssumption, BatchInv, Parented, SequenceIsLast,
         LevelsFit, OpenSequencesFit, [Next]_vars
  PROVE  OpenSequencesFit'
<1> SUFFICES ASSUME failed' = 0, depth = 2, ~Idle', NoneOf(nodes', Excluded)
             PROVE  IF Top'.type \in {LINESTRING, RING}
                    THEN /\ OpenList(0)' = NonEmpty(Sequences(Front(nodes')))
                         /\ OpenList(1)' = Last(nodes').xs
                    ELSE /\ OpenList(0)' = NonEmpty(Sequences(nodes'))
                         /\ OpenList(1)' = << >>
  BY DepthKept DEF OpenSequencesFit, Excluded
<1> USE DEF RING, POINT, LINESTRING, POLYGON, MULTIPOINT, MULTILINESTRING,
        MULTIPOLYGON, GEOMETRYCOLLECTION, FEATURE, NULLFEATURE
<1>1. /\ Inv /\ ProtocolTypeOK /\ Nesting /\ depth \in 2 .. 3 /\ depth >= 2 /\ depth - 1 = 1
      /\ 0 \in 0 .. depth - 1 /\ 1 \in 0 .. depth - 1 /\ 1 \in 1 .. depth - 1
      /\ 1 - 1 = 0
  BY DEF BatchInv, Inv, TypeOK
<1>2. CASE FeatStart
  <2>1. /\ open' = << Frame(FEATURE) >> /\ nodes' = << >> /\ Idle /\ failed = 0
        /\ depth' = depth /\ coords' = coords /\ offsets' = offsets
    BY <1>2 DEF FeatStart, ReadFeatStart, listVars
  <2>2. Top'.type = FEATURE
    BY <2>1 DEF Top, Frame
  <2>3. OpenList(0) = << >> /\ OpenList(1) = << >>
    BY <1>1, <2>1, SizeOfOpenList
  <2>4. OpenList(0)' = << >> /\ OpenList(1)' = << >>
    BY <2>1, <2>3, OpenListsStay
  <2> QED
    BY <2>1, <2>2, <2>4, NoPolygons
<1>3. CASE NullFeat
  <2>1. /\ open = << Frame(FEATURE) >> /\ open' = << Frame(NULLFEATURE) >>
        /\ nodes' = nodes /\ failed = 0
        /\ depth' = depth /\ coords' = coords /\ offsets' = offsets
    BY <1>3 DEF NullFeat, ReadNullFeat, listVars
  <2>2. Top.type = FEATURE /\ Top'.type = NULLFEATURE
    BY <2>1 DEF Top, Frame
  <2>3. ~Idle
    BY <2>1 DEF Idle
  <2>4. OpenList(0) = NonEmpty(Sequences(nodes)) /\ OpenList(1) = << >>
    BY <2>1, <2>2, <2>3 DEF OpenSequencesFit
  <2>5. OpenList(0)' = OpenList(0) /\ OpenList(1)' = OpenList(1)
    BY <2>1, OpenListsStay
  <2> QED
    BY <2>1, <2>2, <2>4, <2>5
<1>4. CASE (\E type \in GeomTypes, dims \in Dims : GeomStart(type, dims)) \/ RingStart
  <2>1. PICK type \in RING .. GEOMETRYCOLLECTION, dims \in 1 .. 4 :
             /\ ReadPartStart(type, dims)
             /\ IF type = RING THEN InGeometry /\ Top.type = POLYGON
                ELSE Top.type \in Containers \cup {FEATURE}
    BY <1>1, <1>4, PartStarts
  <2>2. open # << >> /\ depth' = depth /\ coords' = coords /\ offsets' = offsets
    BY <1>1, <1>4, PartStarts
  <2>3. PICK node : node = Node(type, dims, Depth)
    OBVIOUS
  <2>4. /\ Top'.type = type /\ failed = 0 /\ node \in NodeSet /\ node.xs = << >>
        /\ nodes \in Seq(NodeSet) /\ nodes' = Append(nodes, node)
        /\ Front(nodes') = nodes /\ Last(nodes') = node
    BY <1>1, <2>1, <2>2, <2>3, PartStarted
  <2>5. NoneOf(nodes, Excluded)
    BY <2>4, NoneOfFewer
  <2>6. Top.type \notin {LINESTRING, RING}
    BY <2>1 DEF Containers
  <2>7. OpenList(0) = NonEmpty(Sequences(nodes)) /\ OpenList(1) = << >>
    BY <2>2, <2>4, <2>5, <2>6 DEF OpenSequencesFit, Idle
  <2>8. OpenList(0)' = OpenList(0) /\ OpenList(1)' = OpenList(1)
    BY <2>2, OpenListsStay
  <2>9. NonEmpty(Sequences(nodes')) = NonEmpty(Sequences(nodes))
    BY <2>4, SequencesStay
  <2> QED
    BY <2>4, <2>7, <2>8, <2>9
<1>5. CASE \E n \in 0 .. MaxChunk : Coords(n)
  <2>1. PICK n \in 0 .. MaxChunk : Coords(n)
    BY <1>5
  <2>2. PICK more : more = [i \in 1 .. n |-> Label]
    OBVIOUS
  <2>3. /\ n \in Nat /\ ReadCoords(n) /\ depth' = depth /\ offsets' = offsets
        /\ coords' = coords \o more
    BY <2>1, <2>2 DEF ProtocolAssumption, Coords
  <2>4. /\ open # << >> /\ InGeometry /\ Top'.type = Top.type /\ HoldsCoords(Top.type)
        /\ failed = 0 /\ nodes \in Seq(NodeSet) /\ nodes # << >> /\ more \in Seq(Nat)
        /\ nodes' = Longer(nodes, more)
        /\ Front(nodes') = Front(nodes) /\ Last(nodes').xs = Last(nodes).xs \o more
    BY <1>1, <2>2, <2>3, CoordsRead
  <2>5. NoneOf(nodes, Excluded)
    BY <2>4, NoneOfLonger
  <2>6. Top.type \in {LINESTRING, RING}
    <3>1. Top.type \notin Excluded
      BY <2>4, <2>5, TopFits
    <3> QED
      BY <2>4, <3>1 DEF Excluded, HoldsCoords
  <2>7. OpenList(0) = NonEmpty(Sequences(Front(nodes))) /\ OpenList(1) = Last(nodes).xs
    BY <2>4, <2>5, <2>6 DEF OpenSequencesFit, Idle
  <2>8. CutsInto(depth, coords, offsets) /\ coords \in Seq(Nat)
    BY <1>1, BatchTypes, StateCuts
  <2>9. /\ Opened(depth, coords \o more, offsets, depth - 1)
             = Opened(depth, coords, offsets, depth - 1) \o more
        /\ \A k \in 0 .. depth - 1 : k # depth - 1 =>
             Opened(depth, coords \o more, offsets, k) = Opened(depth, coords, offsets, k)
    BY <1>1, <2>4, <2>8, OpenedByCoords
  <2>10. OpenList(1)' = OpenList(1) \o more /\ OpenList(0)' = OpenList(0)
    BY <1>1, <2>3, <2>9 DEF OpenList
  <2> QED
    BY <2>4, <2>6, <2>7, <2>10
<1>6. CASE RingEnd \/ GeomEnd
  <2>1. NoneOf(nodes, Excluded)
    BY <1>6 DEF RingEnd, ReadRingEnd, GeomEnd, ReadGeomEnd, ReadPartEnd
  <2>2. /\ depth' = depth /\ coords' = coords /\ failed = 0 /\ nodes' = nodes
        /\ ~Idle
        /\ offsets' = IF LevelOf(Top.type) = depth - 1 /\ size[depth - 1] > 0
                      THEN Close(offsets, depth - 1) ELSE offsets
        /\ IF Top.type = RING THEN Top'.type = POLYGON
           ELSE Top'.type \in Containers \cup {FEATURE}
    BY <1>1, <1>6, <2>1, PartEnds
  <2>3. Top'.type \notin {LINESTRING, RING}
    BY <2>2 DEF Containers
  <2>4. CASE Top.type \in {LINESTRING, RING}
    <3>1. /\ OpenList(0) = NonEmpty(Sequences(Front(nodes)))
          /\ OpenList(1) = Last(nodes).xs
      BY <2>1, <2>2, <2>4 DEF OpenSequencesFit
    <3>2. offsets' = IF size[1] > 0 THEN Close(offsets, 1) ELSE offsets
      BY <1>1, <2>2, <2>4 DEF LevelOf
    <3>3. OpenList(1)' = << >> /\ OpenList(0)' = OpenList(0) \o Kept(OpenList(1))
      BY <1>1, <2>2, <3>2, OpenListEnds
    <3>4. Top.type \in RING .. GEOMETRYCOLLECTION
      BY <2>4
    <3>5. nodes \in Seq(NodeSet) /\ nodes # << >>
      BY <1>1, <2>2, <3>4, PartIsOpen DEF ProtocolTypeOK
    <3>6. Front(nodes) \in Seq(NodeSet) /\ Last(nodes) \in NodeSet
          /\ nodes = Append(Front(nodes), Last(nodes))
      BY <3>5, FrontAndLast
    <3>7. NonEmpty(Sequences(nodes)) = NonEmpty(Sequences(Front(nodes))) \o Kept(Last(nodes).xs)
      BY <3>6, SequencesShape
    <3> QED
      BY <2>2, <2>3, <3>1, <3>3, <3>7
  <2>5. CASE Top.type \notin {LINESTRING, RING}
    <3>1. OpenList(0) = NonEmpty(Sequences(nodes)) /\ OpenList(1) = << >>
      BY <2>1, <2>2, <2>5 DEF OpenSequencesFit
    <3>2. offsets' = offsets
      BY <1>1, <2>2, <2>5 DEF LevelOf
    <3>3. OpenList(0)' = OpenList(0) /\ OpenList(1)' = OpenList(1)
      BY <2>2, <3>2, OpenListsStay
    <3> QED
      BY <2>2, <2>3, <3>1, <3>3
  <2> QED
    BY <2>4, <2>5
<1>7. CASE PolygonEnd
  BY <1>7 DEF PolygonEnd, EndsPolygon
<1>8. CASE FeatEnd \/ FeatRejected \/ Overflow \/ ReaderFails \/ Finish
  BY <1>8 DEF FeatEnd, ReadFeatEnd, FeatRejected, Overflow, ReaderFails, Abandon,
     Finish, BatchDone, Idle
<1>9. CASE UNCHANGED vars
  <2>1. /\ open' = open /\ nodes' = nodes /\ failed' = failed
        /\ depth' = depth /\ coords' = coords /\ offsets' = offsets
    BY <1>9 DEF vars, protocolVars, writerVars, listVars
  <2>2. OpenList(0)' = OpenList(0) /\ OpenList(1)' = OpenList(1)
    BY <2>1, OpenListsStay
  <2> QED
    BY <2>1, <2>2 DEF OpenSequencesFit, Idle, Top
<1> QED
  BY <1>2, <1>3, <1>4, <1>5, <1>6, <1>7, <1>8, <1>9 DEF Next

-----------------------------------------------------------------------------
(* Lists of polygons: the open row has the polygons that ended, the list   *)
(* inside the rings that ended of the polygon that is open, and the one    *)
(* inside that the coordinates of the open ring.                           *)
PolygonOpen(ns, polygons, rings) ==
  \E t \in 1 .. Len(ns) :
    /\ ns[t].type = POLYGON /\ \A k \in t + 1 .. Len(ns) : ns[k].type = RING
    /\ polygons = NonEmpty(PolygonRings(SubSeq(ns, 1, t - 1)))
    /\ rings = Rings(ns, t)

OpenPolygonsFit ==
  failed = 0 /\ depth = 3 /\ ~Idle /\ NoneOf(nodes, Excluded) =>
    CASE Top.type = RING -> /\ PolygonOpen(Front(nodes), OpenList(0), OpenList(1))
                            /\ OpenList(2) = Last(nodes).xs
      [] Top.type = POLYGON -> /\ PolygonOpen(nodes, OpenList(0), OpenList(1))
                               /\ OpenList(2) = << >>
      [] OTHER -> /\ OpenList(0) = NonEmpty(PolygonRings(nodes))
                  /\ OpenList(1) = << >> /\ OpenList(2) = << >>

(* A polygon starts. *)
LEMMA PolygonStarts ==
  ASSUME NEW ns \in Seq(NodeSet), NEW node \in NodeSet, node.type = POLYGON
  PROVE  PolygonOpen(Append(ns, node), NonEmpty(PolygonRings(ns)), << >>)
<1>1. PICK v, t : v = Append(ns, node) /\ t = Len(ns) + 1
  OBVIOUS
<1>2. /\ v \in Seq(NodeSet) /\ Len(v) = t /\ v[t] = node /\ t \in Nat \ {0}
      /\ \A k \in 1 .. t - 1 : v[k] = ns[k]
      /\ t - 1 = Len(ns)
  BY <1>1, AppendProperties
<1>3. v # << >>
  BY <1>2, EmptySeq
<1>4. Rings(v, t) = << >>
  BY <1>2, <1>3, NoRingsYet
<1>5. SubSeq(v, 1, t - 1) = ns
  <2>1. PICK m : m = t - 1
    OBVIOUS
  <2>2. m \in Nat /\ m <= Len(v)
    BY <1>2, <2>1
  <2>3. /\ SubSeq(v, 1, m) \in Seq(NodeSet) /\ Len(SubSeq(v, 1, m)) = m
        /\ \A k \in 1 .. m : SubSeq(v, 1, m)[k] = v[k]
    BY <1>2, <2>2
  <2>4. \A k \in 1 .. m : SubSeq(v, 1, m)[k] = ns[k]
    BY <1>2, <2>1, <2>3
  <2>5. SubSeq(v, 1, m) = ns
    BY <1>2, <2>1, <2>3, <2>4, SeqEqual
  <2> QED
    BY <2>1, <2>5
<1>6. t \in 1 .. Len(v) /\ v[t].type = POLYGON /\ \A k \in t + 1 .. Len(v) : v[k].type = RING
  BY <1>2
<1> QED
  BY <1>1, <1>4, <1>5, <1>6 DEF PolygonOpen

(* A ring of it ends. *)
LEMMA RingAdded ==
  ASSUME NEW ns \in Seq(NodeSet), NEW node \in NodeSet, node.type = RING,
         NEW l0, NEW l1, PolygonOpen(ns, l0, l1)
  PROVE  PolygonOpen(Append(ns, node), l0, l1 \o Kept(node.xs))
<1>1. PICK v, n : v = Append(ns, node) /\ n = Len(ns)
  OBVIOUS
<1>2. /\ v \in Seq(NodeSet) /\ Len(v) = n + 1 /\ v[n + 1] = node /\ n \in Nat
      /\ \A k \in 1 .. n : v[k] = ns[k]
  BY <1>1, AppendProperties
<1>3. PICK t \in 1 .. n :
        /\ ns[t].type = POLYGON /\ \A k \in t + 1 .. n : ns[k].type = RING
        /\ l0 = NonEmpty(PolygonRings(SubSeq(ns, 1, t - 1)))
        /\ l1 = Rings(ns, t)
  BY <1>1 DEF PolygonOpen
<1>4. t \in 1 .. Len(v) /\ v[t].type = POLYGON
  BY <1>2, <1>3
<1>5. \A k \in t + 1 .. Len(v) : v[k].type = RING
  <2>1. \A k \in t + 1 .. Len(v) : k = n + 1 \/ (k \in t + 1 .. n /\ k \in 1 .. n)
    BY <1>2
  <2> QED
    BY <1>2, <1>3, <2>1
<1>6. IsRingOf(v, t, n + 1)
  BY <1>2, <1>5 DEF IsRingOf
<1>7. Rings(v, t) = Rings(ns, t) \o Kept(node.xs)
  <2>1. t \in 1 .. Len(ns)
    BY <1>1
  <2>2. Rings(Append(ns, node), t)
          = Rings(ns, t) \o (IF IsRingOf(Append(ns, node), t, Len(ns) + 1) THEN Kept(node.xs)
                             ELSE << >>)
    BY <2>1, RingsOfMore
  <2> QED
    BY <1>1, <1>6, <2>2
<1>8. SubSeq(v, 1, t - 1) = SubSeq(ns, 1, t - 1)
  <2>1. PICK m : m = t - 1
    OBVIOUS
  <2>2. m \in Nat /\ m <= n /\ m <= n + 1
    BY <1>2, <2>1
  <2>3. /\ SubSeq(v, 1, m) \in Seq(NodeSet) /\ Len(SubSeq(v, 1, m)) = m
        /\ \A k \in 1 .. m : SubSeq(v, 1, m)[k] = v[k]
    BY <1>2, <2>2
  <2>4. /\ SubSeq(ns, 1, m) \in Seq(NodeSet) /\ Len(SubSeq(ns, 1, m)) = m
        /\ \A k \in 1 .. m : SubSeq(ns, 1, m)[k] = ns[k]
    BY <1>1, <2>2
  <2>5. \A k \in 1 .. m : SubSeq(v, 1, m)[k] = SubSeq(ns, 1, m)[k]
    BY <1>2, <2>2, <2>3, <2>4
  <2>6. SubSeq(v, 1, m) = SubSeq(ns, 1, m)
    BY <2>3, <2>4, <2>5, SeqEqual
  <2> QED
    BY <2>1, <2>6
<1> QED
  BY <1>1, <1>3, <1>4, <1>5, <1>7, <1>8 DEF PolygonOpen

(* The polygon ends. *)
LEMMA PolygonAdded ==
  ASSUME NEW ns \in Seq(NodeSet), NEW l0, NEW l1, PolygonOpen(ns, l0, l1)
  PROVE  l0 \o Kept(l1) = NonEmpty(PolygonRings(ns))
<1>1. PICK t \in 1 .. Len(ns) :
        /\ ns[t].type = POLYGON /\ \A k \in t + 1 .. Len(ns) : ns[k].type = RING
        /\ l0 = NonEmpty(PolygonRings(SubSeq(ns, 1, t - 1)))
        /\ l1 = Rings(ns, t)
  BY DEF PolygonOpen
<1>2. NonEmpty(PolygonRings(ns))
        = NonEmpty(PolygonRings(SubSeq(ns, 1, t - 1))) \o Kept(Rings(ns, t))
  BY <1>1, PolygonsSplit
<1> QED
  BY <1>1, <1>2

(* Every step of a writer of three levels keeps the open lists those of
   the nodes visited. *)
LEMMA OpenPolygonsPreserved ==
  ASSUME ProtocolAssumption, NativeAssumption, BatchInv, Parented, SequenceIsLast,
         LevelsFit, OpenPolygonsFit, [Next]_vars
  PROVE  OpenPolygonsFit'
<1> SUFFICES ASSUME failed' = 0, depth = 3, ~Idle', NoneOf(nodes', Excluded)
             PROVE  CASE Top'.type = RING ->
                           /\ PolygonOpen(Front(nodes'), OpenList(0)', OpenList(1)')
                           /\ OpenList(2)' = Last(nodes').xs
                      [] Top'.type = POLYGON ->
                           /\ PolygonOpen(nodes', OpenList(0)', OpenList(1)')
                           /\ OpenList(2)' = << >>
                      [] OTHER -> /\ OpenList(0)' = NonEmpty(PolygonRings(nodes'))
                                  /\ OpenList(1)' = << >> /\ OpenList(2)' = << >>
  BY DepthKept DEF OpenPolygonsFit, Excluded, PolygonOpen
<1> USE DEF RING, POINT, LINESTRING, POLYGON, MULTIPOINT, MULTILINESTRING,
        MULTIPOLYGON, GEOMETRYCOLLECTION, FEATURE, NULLFEATURE
<1>1. /\ Inv /\ ProtocolTypeOK /\ Nesting /\ depth \in 2 .. 3 /\ depth >= 2 /\ depth - 1 = 2
      /\ 0 \in 0 .. depth - 1 /\ 1 \in 0 .. depth - 1 /\ 2 \in 0 .. depth - 1
      /\ 1 \in 1 .. depth - 1 /\ 2 \in 1 .. depth - 1 /\ 1 - 1 = 0 /\ 2 - 1 = 1
  BY DEF BatchInv, Inv, TypeOK
<1>2. CASE FeatStart
  <2>1. /\ open' = << Frame(FEATURE) >> /\ nodes' = << >> /\ Idle /\ failed = 0
        /\ depth' = depth /\ coords' = coords /\ offsets' = offsets
    BY <1>2 DEF FeatStart, ReadFeatStart, listVars
  <2>2. Top'.type = FEATURE
    BY <2>1 DEF Top, Frame
  <2>3. OpenList(0) = << >> /\ OpenList(1) = << >> /\ OpenList(2) = << >>
    BY <1>1, <2>1, SizeOfOpenList
  <2>4. OpenList(0)' = << >> /\ OpenList(1)' = << >> /\ OpenList(2)' = << >>
    BY <2>1, <2>3, OpenListsStay
  <2> QED
    BY <2>1, <2>2, <2>4, NoPolygons
<1>3. CASE NullFeat
  <2>1. /\ open = << Frame(FEATURE) >> /\ open' = << Frame(NULLFEATURE) >>
        /\ nodes' = nodes /\ failed = 0
        /\ depth' = depth /\ coords' = coords /\ offsets' = offsets
    BY <1>3 DEF NullFeat, ReadNullFeat, listVars
  <2>2. Top.type = FEATURE /\ Top'.type = NULLFEATURE
    BY <2>1 DEF Top, Frame
  <2>3. ~Idle
    BY <2>1 DEF Idle
  <2>4. /\ OpenList(0) = NonEmpty(PolygonRings(nodes))
        /\ OpenList(1) = << >> /\ OpenList(2) = << >>
    BY <2>1, <2>2, <2>3 DEF OpenPolygonsFit
  <2>5. OpenList(0)' = OpenList(0) /\ OpenList(1)' = OpenList(1) /\ OpenList(2)' = OpenList(2)
    BY <2>1, OpenListsStay
  <2> QED
    BY <2>1, <2>2, <2>4, <2>5
<1>4. CASE (\E type \in GeomTypes, dims \in Dims : GeomStart(type, dims)) \/ RingStart
  <2>1. PICK type \in RING .. GEOMETRYCOLLECTION, dims \in 1 .. 4 :
             /\ ReadPartStart(type, dims)
             /\ IF type = RING THEN InGeometry /\ Top.type = POLYGON
                ELSE Top.type \in Containers \cup {FEATURE}
    BY <1>1, <1>4, PartStarts
  <2>2. open # << >> /\ depth' = depth /\ coords' = coords /\ offsets' = offsets
    BY <1>1, <1>4, PartStarts
  <2>3. PICK node : node = Node(type, dims, Depth)
    OBVIOUS
  <2>4. /\ Top'.type = type /\ failed = 0 /\ node \in NodeSet /\ node.xs = << >>
        /\ node.type = type
        /\ nodes \in Seq(NodeSet) /\ nodes' = Append(nodes, node)
        /\ Front(nodes') = nodes /\ Last(nodes') = node
    BY <1>1, <2>1, <2>2, <2>3, PartStarted
  <2>5. NoneOf(nodes, Excluded)
    BY <2>4, NoneOfFewer
  <2>6. OpenList(0)' = OpenList(0) /\ OpenList(1)' = OpenList(1) /\ OpenList(2)' = OpenList(2)
    BY <2>2, OpenListsStay
  <2>7. ~Idle
    BY <2>2 DEF Idle
  <2>8. CASE type = RING
    <3>1. PolygonOpen(nodes, OpenList(0), OpenList(1)) /\ OpenList(2) = << >>
      BY <2>1, <2>4, <2>5, <2>7, <2>8 DEF OpenPolygonsFit
    <3> QED
      BY <2>4, <2>6, <2>8, <3>1
  <2>9. CASE type # RING
    <3>1. Top.type \notin {RING, POLYGON}
      BY <2>1, <2>9 DEF Containers
    <3>2. /\ OpenList(0) = NonEmpty(PolygonRings(nodes))
          /\ OpenList(1) = << >> /\ OpenList(2) = << >>
      BY <2>4, <2>5, <2>7, <3>1 DEF OpenPolygonsFit
    <3>3. CASE type = POLYGON
      <4>1. PolygonOpen(nodes', OpenList(0)', OpenList(1)')
        BY <2>4, <2>6, <3>2, <3>3, PolygonStarts
      <4> QED
        BY <2>4, <2>6, <3>2, <3>3, <4>1
    <3>4. CASE type # POLYGON
      <4>1. NonEmpty(PolygonRings(nodes')) = NonEmpty(PolygonRings(nodes))
        BY <2>4, <3>4, PolygonsOfOther
      <4> QED
        BY <2>4, <2>6, <2>9, <3>2, <3>4, <4>1
    <3> QED
      BY <3>3, <3>4
  <2> QED
    BY <2>8, <2>9
<1>5. CASE \E n \in 0 .. MaxChunk : Coords(n)
  <2>1. PICK n \in 0 .. MaxChunk : Coords(n)
    BY <1>5
  <2>2. PICK more : more = [i \in 1 .. n |-> Label]
    OBVIOUS
  <2>3. /\ n \in Nat /\ ReadCoords(n) /\ depth' = depth /\ offsets' = offsets
        /\ coords' = coords \o more
    BY <2>1, <2>2 DEF ProtocolAssumption, Coords
  <2>4. /\ open # << >> /\ InGeometry /\ Top'.type = Top.type /\ HoldsCoords(Top.type)
        /\ failed = 0 /\ nodes \in Seq(NodeSet) /\ nodes # << >> /\ more \in Seq(Nat)
        /\ nodes' = Longer(nodes, more)
        /\ Front(nodes') = Front(nodes) /\ Last(nodes').xs = Last(nodes).xs \o more
    BY <1>1, <2>2, <2>3, CoordsRead
  <2>5. NoneOf(nodes, Excluded)
    BY <2>4, NoneOfLonger
  <2>6. Top.type = RING
    <3>1. Top.type \notin Excluded
      BY <2>4, <2>5, TopFits
    <3> QED
      BY <2>4, <3>1 DEF Excluded, HoldsCoords
  <2>7. PolygonOpen(Front(nodes), OpenList(0), OpenList(1)) /\ OpenList(2) = Last(nodes).xs
    BY <2>4, <2>5, <2>6 DEF OpenPolygonsFit, Idle
  <2>8. CutsInto(depth, coords, offsets) /\ coords \in Seq(Nat)
    BY <1>1, BatchTypes, StateCuts
  <2>9. /\ Opened(depth, coords \o more, offsets, depth - 1)
             = Opened(depth, coords, offsets, depth - 1) \o more
        /\ \A k \in 0 .. depth - 1 : k # depth - 1 =>
             Opened(depth, coords \o more, offsets, k) = Opened(depth, coords, offsets, k)
    BY <1>1, <2>4, <2>8, OpenedByCoords
  <2>10. /\ OpenList(2)' = OpenList(2) \o more /\ OpenList(1)' = OpenList(1)
         /\ OpenList(0)' = OpenList(0)
    BY <1>1, <2>3, <2>9 DEF OpenList
  <2>11. PolygonOpen(Front(nodes'), OpenList(0)', OpenList(1)')
    BY <2>4, <2>7, <2>10
  <2>12. OpenList(2)' = Last(nodes').xs
    BY <2>4, <2>7, <2>10
  <2> QED
    BY <2>4, <2>6, <2>11, <2>12
<1>6. CASE RingEnd \/ GeomEnd
  <2>1. NoneOf(nodes, Excluded)
    BY <1>6 DEF RingEnd, ReadRingEnd, GeomEnd, ReadGeomEnd, ReadPartEnd
  <2>2. /\ depth' = depth /\ coords' = coords /\ failed = 0 /\ nodes' = nodes
        /\ ~Idle
        /\ offsets' = IF LevelOf(Top.type) = depth - 1 /\ size[depth - 1] > 0
                      THEN Close(offsets, depth - 1) ELSE offsets
        /\ IF Top.type = RING THEN Top'.type = POLYGON
           ELSE Top'.type \in Containers \cup {FEATURE}
        /\ Top.type # POLYGON
    BY <1>1, <1>6, <2>1, PartEnds
  <2>3. CASE Top.type = RING
    <3>1. /\ PolygonOpen(Front(nodes), OpenList(0), OpenList(1))
          /\ OpenList(2) = Last(nodes).xs
      BY <2>1, <2>2, <2>3 DEF OpenPolygonsFit
    <3>2. offsets' = IF size[2] > 0 THEN Close(offsets, 2) ELSE offsets
      BY <1>1, <2>2, <2>3 DEF LevelOf
    <3>3. /\ OpenList(2)' = << >> /\ OpenList(1)' = OpenList(1) \o Kept(OpenList(2))
          /\ OpenList(0)' = OpenList(0)
      BY <1>1, <2>2, <3>2, OpenListEnds
    <3>4. Top.type \in RING .. GEOMETRYCOLLECTION
      BY <2>3
    <3>5. nodes \in Seq(NodeSet) /\ nodes # << >> /\ InGeometry
      BY <1>1, <2>2, <3>4, PartIsOpen DEF ProtocolTypeOK
    <3>6. Front(nodes) \in Seq(NodeSet) /\ Last(nodes) \in NodeSet
          /\ nodes = Append(Front(nodes), Last(nodes))
      BY <3>5, FrontAndLast
    <3>7. Last(nodes).type = RING
      BY <2>3, <3>5 DEF SequenceIsLast, HoldsCoords
    <3>8. PICK l0, l1, ns, node : /\ l0 = OpenList(0) /\ l1 = OpenList(1)
                                  /\ ns = Front(nodes) /\ node = Last(nodes)
      OBVIOUS
    <3>9. PolygonOpen(Append(ns, node), l0, l1 \o Kept(node.xs))
      BY <3>1, <3>6, <3>7, <3>8, RingAdded
    <3>10. PolygonOpen(nodes', OpenList(0)', OpenList(1)')
      BY <2>2, <3>1, <3>3, <3>6, <3>8, <3>9
    <3> QED
      BY <2>2, <2>3, <3>3, <3>10
  <2>4. CASE Top.type # RING
    <3>1. /\ OpenList(0) = NonEmpty(PolygonRings(nodes))
          /\ OpenList(1) = << >> /\ OpenList(2) = << >>
      BY <2>1, <2>2, <2>4 DEF OpenPolygonsFit
    <3>2. offsets' = offsets
      BY <1>1, <2>2, <2>4 DEF LevelOf
    <3>3. OpenList(0)' = OpenList(0) /\ OpenList(1)' = OpenList(1) /\ OpenList(2)' = OpenList(2)
      BY <2>2, <3>2, OpenListsStay
    <3>4. Top'.type \notin {RING, POLYGON}
      BY <2>2, <2>4 DEF Containers
    <3> QED
      BY <2>2, <3>1, <3>3, <3>4
  <2> QED
    BY <2>3, <2>4
<1>7. CASE PolygonEnd
  <2>1. /\ InGeometry /\ ReadPartEnd /\ Top.type # RING /\ level = 1
        /\ depth' = depth /\ coords' = coords
        /\ offsets' = IF size[1] > 0 THEN Close(offsets, 1) ELSE offsets
    BY <1>7 DEF PolygonEnd, ReadGeomEnd, EndsPolygon
  <2>2. /\ open # << >> /\ nodes' = nodes /\ failed' = failed /\ nodes \in Seq(NodeSet)
        /\ Top'.type \in Containers \cup {FEATURE}
    BY <1>1, <2>1, PartEnded
  <2>3. ~Idle
    BY <2>2 DEF Idle
  <2>4. Top.type = POLYGON
    BY <2>1, <2>2, <2>3 DEF LevelsFit, LevelOf
  <2>5. PolygonOpen(nodes, OpenList(0), OpenList(1)) /\ OpenList(2) = << >>
    BY <2>2, <2>3, <2>4 DEF OpenPolygonsFit
  <2>6. failed = 0
    BY <2>2
  <2>7. /\ OpenList(1)' = << >> /\ OpenList(0)' = OpenList(0) \o Kept(OpenList(1))
        /\ OpenList(2)' = OpenList(2)
    BY <1>1, <2>1, <2>3, <2>6, OpenListEnds
  <2>8. OpenList(0)' = NonEmpty(PolygonRings(nodes))
    BY <2>2, <2>5, <2>7, PolygonAdded
  <2>9. Top'.type \notin {RING, POLYGON}
    BY <2>2 DEF Containers
  <2> QED
    BY <2>2, <2>5, <2>7, <2>8, <2>9
<1>8. CASE FeatEnd \/ FeatRejected \/ Overflow \/ ReaderFails \/ Finish
  BY <1>8 DEF FeatEnd, ReadFeatEnd, FeatRejected, Overflow, ReaderFails, Abandon,
     Finish, BatchDone, Idle
<1>9. CASE UNCHANGED vars
  <2>1. /\ open' = open /\ nodes' = nodes /\ failed' = failed
        /\ depth' = depth /\ coords' = coords /\ offsets' = offsets
    BY <1>9 DEF vars, protocolVars, writerVars, listVars
  <2>2. OpenList(0)' = OpenList(0) /\ OpenList(1)' = OpenList(1) /\ OpenList(2)' = OpenList(2)
    BY <2>1, OpenListsStay
  <2> QED
    BY <2>1, <2>2 DEF OpenPolygonsFit, Idle, Top
<1> QED
  BY <1>2, <1>3, <1>4, <1>5, <1>6, <1>7, <1>8, <1>9 DEF Next

-----------------------------------------------------------------------------
(* Points and sequences are rows at once: where the row of the current     *)
(* feature starts.                                                         *)
RowStart == IF depth = 0 THEN Len(rows) ELSE offsets[0][Len(rows) + 1]

(* Whether all coordinates are in closed sequences. *)
RowSettled == LastOf(offsets[0]) = Len(coords)

(* Whether every feature written so far has regular parts. *)
AllRegular == \A i \in DOMAIN rows : Regular(rows[i].nodes)

(* What is past the rows of the features before is the current one's.      *)
TailFits ==
  failed = 0 /\ depth <= 1 /\ AllRegular =>
    SubSeq(coords, RowStart + 1, Len(coords)) = IF Idle THEN << >> ELSE AllCoords(nodes)

(* A sequence without points is ended by its own end; and so is the only   *)
(* one of points.                                                          *)
SettledFits ==
  failed = 0 /\ depth = 1 /\ AllRegular /\ ~Idle =>
    /\ NoneOf(nodes, Excluded) /\ Top.type \notin {LINESTRING, RING} => RowSettled
    /\ OnlyTypes(nodes, Flat) /\ size[0] >= 1 => RowSettled

(* The open row starts within the coordinates. *)
LEMMA RowStartIn ==
  ASSUME BatchInv, failed = 0, depth <= 1
  PROVE  /\ RowStart \in Nat /\ RowStart <= Len(coords)
         /\ Len(rows) \in Nat /\ coords \in Seq(Nat) /\ depth \in 0 .. 1
         /\ depth = 1 => /\ offsets[0] \in Seq(Nat) /\ Len(offsets[0]) >= Len(rows) + 1
                         /\ Len(offsets[0])
                              = Len(rows) + 1 + (IF Idle THEN 0 ELSE size[0])
         /\ depth = 0 => Len(coords) = Len(rows) + (IF Idle THEN 0 ELSE size[0])
         /\ size[0] \in Nat
<1>1. Inv /\ RowsInPlace
  BY DEF BatchInv
<1>2. /\ depth \in 0 .. 3 /\ coords \in Seq(Nat) /\ Len(coords) \in Nat
      /\ Len(rows) \in Nat /\ offsets \in [Lvl -> Seq(Nat)] /\ size[0] \in Nat /\ 0 \in Lvl
  BY <1>1, BatchTypes
<1>3. RowCount(depth, coords, offsets) = Len(rows) + (IF Idle THEN 0 ELSE size[0])
  BY <1>1, <1>2 DEF RowsInPlace
<1>4. CASE depth = 0
  <2>1. Len(coords) = Len(rows) + (IF Idle THEN 0 ELSE size[0])
    BY <1>3, <1>4 DEF RowCount
  <2>2. RowStart = Len(rows)
    BY <1>4 DEF RowStart
  <2> QED
    BY <1>2, <1>4, <2>1, <2>2
<1>5. CASE depth = 1
  <2>1. PICK o, n, r, m : o = offsets[0] /\ n = Len(o) /\ r = Len(rows) /\ m = Len(coords)
    OBVIOUS
  <2>2. n - 1 = r + (IF Idle THEN 0 ELSE size[0])
    BY <1>3, <1>5, <2>1 DEF RowCount
  <2>3. /\ o \in Seq(Nat) /\ n >= 1 /\ LastOf(o) <= m
        /\ \A i \in 1 .. n - 1 : o[i] <= o[i + 1]
    <3>1. CutsInto(depth, coords, offsets)
      BY <1>1, StateCuts
    <3>2. 0 \in 0 .. depth - 1 /\ 0 = depth - 1
      BY <1>5
    <3> QED
      BY <2>1, <3>1, <3>2 DEF CutsInto
  <2>4. n = r + 1 + (IF Idle THEN 0 ELSE size[0]) /\ r + 1 \in 1 .. n /\ n \in Nat
    BY <1>2, <2>1, <2>2
  <2>5. o[r + 1] \in Nat /\ o[r + 1] <= m
    <3>1. CASE r + 1 = n
      <4>1. LastOf(o) \in Nat
        BY <2>1, <2>3, LastIsNat
      <4>2. LastOf(o) = o[r + 1]
        BY <2>1, <3>1 DEF LastOf
      <4> QED
        BY <2>3, <4>1, <4>2
    <3>2. CASE r + 1 # n
      <4>1. PICK k : k = r + 1
        OBVIOUS
      <4>2. k \in 1 .. Len(o) - 1
        BY <2>1, <2>4, <3>2, <4>1
      <4>3. o[k] \in Nat /\ o[k + 1] \in Nat /\ o[k] <= o[k + 1] /\ o[k + 1] <= m
        BY <1>2, <2>1, <2>3, <4>2, CutInside
      <4> QED
        BY <1>2, <2>1, <4>1, <4>3
    <3> QED
      BY <3>1, <3>2
  <2>6. RowStart = o[r + 1]
    BY <1>5, <2>1 DEF RowStart
  <2> QED
    BY <1>2, <1>5, <2>1, <2>3, <2>4, <2>5, <2>6
<1> QED
  BY <1>2, <1>4, <1>5

(* Between two features it is at the end of the rows. *)
LEMMA RowStartIdle ==
  ASSUME BatchInv, failed = 0, depth <= 1, Idle
  PROVE  RowStart = IF depth = 0 THEN Len(coords) ELSE LastOf(offsets[0])
BY RowStartIn DEF RowStart, LastOf

(* During a feature it stays where it is. *)
LEMMA RowStartStays ==
  ASSUME BatchInv, failed = 0, depth <= 1, [Next]_vars, ~Finish
  PROVE  /\ (IF depth' = 0 THEN Len(rows) ELSE offsets'[0][Len(rows) + 1]) = RowStart
         /\ depth' = depth
         /\ coords' \in Seq(Nat) => Begins(coords, coords')
<1>1. Inv
  BY DEF BatchInv
<1>2. depth' = depth /\ Begins(coords, coords') /\ \A l \in Lvl : Begins(offsets[l], offsets'[l])
  BY <1>1, BatchGrows DEF Extended
<1>3. 0 \in Lvl
  BY DEF Lvl
<1>4. Begins(offsets[0], offsets'[0])
  BY <1>2, <1>3
<1>5. /\ Len(rows) \in Nat /\ depth \in 0 .. 1
      /\ depth = 1 => offsets[0] \in Seq(Nat) /\ Len(offsets[0]) >= Len(rows) + 1
  BY RowStartIn
<1>6. ASSUME depth = 1
      PROVE  offsets'[0][Len(rows) + 1] = offsets[0][Len(rows) + 1]
  <2>1. Len(rows) + 1 \in 1 .. Len(offsets[0])
    BY <1>5, <1>6
  <2> QED
    BY <1>4, <2>1 DEF Begins
<1> QED
  BY <1>2, <1>5, <1>6 DEF RowStart

(* A new node has no coordinates. *)
LEMMA CoordsStay ==
  ASSUME NEW ns \in Seq(NodeSet), NEW node \in NodeSet, node.xs = << >>
  PROVE  AllCoords(Append(ns, node)) = AllCoords(ns)
<1>1. /\ AllCoords(Append(ns, node)) = AllCoords(ns) \o << >>
      /\ AllCoords(ns) \in Seq(Nat)
  BY CoordsOfMore
<1>2. \A s \in Seq(Nat) : s \o << >> = s
  BY ConcatEmptySeq
<1> QED
  BY <1>1, <1>2

(* A feature that may end has only itself open. *)
LEMMA FeatureIsTop ==
  ASSUME Inv, FeatureComplete
  PROVE  ~Idle /\ Top.type \in {FEATURE, NULLFEATURE}
<1>1. open # << >> => open[1].type \in {FEATURE, NULLFEATURE}
  BY DEF Inv, Nesting
<1>2. PICK n : n = Len(open)
  OBVIOUS
<1>3. n = 1 /\ n # 0
  BY <1>2 DEF FeatureComplete
<1>4. Len(<< >>) = 0
  OBVIOUS
<1>5. open # << >>
  BY <1>2, <1>3, <1>4
<1> QED
  BY <1>1, <1>2, <1>3, <1>5 DEF Top, Idle

(* A row of one coordinate or of one list ends. *)
LEMMA FlatRowEnds ==
  ASSUME BatchInv, TailFits, SettledFits, FeatEnd, failed = 0, depth <= 1,
         AllRegular, Regular(nodes)
  PROVE  Lists'[Len(rows) + 1] = Shape(nodes) /\ RowStart' = Len(coords')
<1> USE DEF RING, POINT, LINESTRING, MULTIPOINT, FEATURE, NULLFEATURE
<1>1. /\ RowStart \in Nat /\ RowStart <= Len(coords)
      /\ Len(rows) \in Nat /\ coords \in Seq(Nat) /\ depth \in 0 .. 1
      /\ depth = 1 => /\ offsets[0] \in Seq(Nat)
                      /\ Len(offsets[0]) = Len(rows) + 1 + (IF Idle THEN 0 ELSE size[0])
      /\ depth = 0 => Len(coords) = Len(rows) + (IF Idle THEN 0 ELSE size[0])
      /\ size[0] \in Nat
  BY RowStartIn
<1>2. /\ ReadFeatEnd /\ depth' = depth /\ Len(rows') = Len(rows) + 1 /\ ~Idle /\ size[0] <= 1
      /\ Top.type \in {FEATURE, NULLFEATURE}
  <2>1. rows \in Seq(FeatureSet) /\ nodes \in Seq(NodeSet)
    BY DEF BatchInv, Inv, TypeOK, ProtocolTypeOK
  <2>2. ReadFeatEnd /\ depth' = depth /\ size[0] <= 1
    BY <1>1 DEF FeatEnd, PointEnd, LinestringEnd, ListsEnd
  <2>3. PICK row : row = [null |-> Top.type = NULLFEATURE, nodes |-> nodes]
    OBVIOUS
  <2>4. row \in FeatureSet /\ rows' = Append(rows, row)
    BY <2>1, <2>2, <2>3 DEF FeatureSet, ReadFeatEnd
  <2>5. Len(rows') = Len(rows) + 1
    BY <2>1, <2>4, AppendProperties
  <2>6. ~Idle /\ Top.type \in {FEATURE, NULLFEATURE}
    BY <2>2, FeatureIsTop DEF BatchInv, ReadFeatEnd
  <2> QED
    BY <2>2, <2>5, <2>6
<1>3. PICK ac, m, r : ac = AllCoords(nodes) /\ m = Len(coords) /\ r = Len(rows)
  OBVIOUS
<1>4. SubSeq(coords, RowStart + 1, m) = ac /\ m \in Nat /\ r \in Nat
  BY <1>1, <1>2, <1>3 DEF TailFits
<1>5. CASE depth = 0
  <2>1. /\ RowStart = r /\ m = r + size[0] /\ Lists' = coords' /\ RowStart' = r + 1
        /\ coords' = IF size[0] = 0 THEN Append(coords, NaN) ELSE coords
        /\ Shape(nodes) = IF ac = << >> THEN NaN ELSE ac[1]
    BY <1>1, <1>2, <1>3, <1>5
    DEF RowStart, Lists, Nested, Shape, FeatEnd, PointEnd, LinestringEnd, ListsEnd
  <2>2. CASE size[0] = 0
    <3>1. ac = << >>
      BY <1>1, <1>3, <1>4, <2>1, <2>2
    <3>2. /\ Append(coords, NaN)[r + 1] = NaN /\ Len(Append(coords, NaN)) = r + 1
      <4>1. NaN \in Nat
        BY DEF NaN
      <4>2. /\ Append(coords, NaN)[Len(coords) + 1] = NaN
            /\ Len(Append(coords, NaN)) = Len(coords) + 1
        BY <1>1, <4>1, AppendProperties
      <4>3. Len(coords) = r
        BY <1>3, <1>4, <2>1, <2>2
      <4> QED
        BY <4>2, <4>3
    <3> QED
      BY <1>3, <2>1, <2>2, <3>1, <3>2
  <2>3. CASE size[0] = 1
    <3>1. ac = SubSeq(coords, m, m) /\ m \in 1 .. Len(coords) /\ m = r + 1
      BY <1>1, <1>3, <1>4, <2>1, <2>3
    <3>2. Len(SubSeq(coords, m, m)) = 1 /\ SubSeq(coords, m, m)[1] = coords[m]
      BY <1>1, <3>1
    <3>3. ac # << >> /\ ac[1] = coords[m]
      <4>1. PICK n : n = Len(ac)
        OBVIOUS
      <4>2. n = 1
        BY <3>1, <3>2, <4>1
      <4>3. Len(<< >>) = 0
        OBVIOUS
      <4>4. n # 0
        BY <4>2
      <4> QED
        BY <3>1, <3>2, <4>1, <4>3, <4>4
    <3>4. coords' = coords
      BY <2>1, <2>3
    <3>5. Lists'[r + 1] = ac[1]
      BY <2>1, <3>1, <3>3, <3>4
    <3>6. RowStart' = Len(coords')
      BY <1>3, <2>1, <3>1, <3>4
    <3> QED
      BY <1>3, <2>1, <3>3, <3>5, <3>6
  <2> QED
    BY <1>1, <1>2, <2>2, <2>3
<1>6. CASE depth = 1
  <2>1. /\ coords' = coords /\ Shape(nodes) = ac
        /\ offsets' = IF size[0] = 0 THEN Close(offsets, 0) ELSE offsets
    BY <1>3, <1>6 DEF Shape, FeatEnd, PointEnd, LinestringEnd, ListsEnd
  <2>2. PICK o, p : o = offsets[0] /\ p = offsets'[0]
    OBVIOUS
  <2>3. /\ o \in Seq(Nat) /\ Len(o) = r + 1 + size[0] /\ RowStart = o[r + 1]
    BY <1>1, <1>2, <1>3, <1>6, <2>2 DEF RowStart
  <2>4. p \in Seq(Nat) /\ Len(p) = r + 2 /\ p[r + 1] = o[r + 1] /\ p[r + 2] = m
    <3>1. CASE size[0] = 0
      <4>1. p = Append(o, m)
        <5>1. offsets \in [Lvl -> Seq(Nat)] /\ 0 \in Lvl
          BY BatchTypes DEF BatchInv
        <5> QED
          BY <1>3, <1>6, <2>1, <2>2, <3>1, <5>1 DEF Close, Elements
      <4>2. r + 1 \in 1 .. Len(o)
        BY <1>4, <2>3, <3>1
      <4>3. /\ Append(o, m) \in Seq(Nat) /\ Len(Append(o, m)) = Len(o) + 1
            /\ Append(o, m)[Len(o) + 1] = m
            /\ \A i \in 1 .. Len(o) : Append(o, m)[i] = o[i]
        BY <1>4, <2>3, AppendProperties
      <4> QED
        BY <1>4, <2>3, <3>1, <4>1, <4>2, <4>3
    <3>2. CASE size[0] = 1
      <4>1. RowSettled
        <5>1. Top.type \notin {LINESTRING, RING}
          BY <1>2
        <5>2. \/ OnlyTypes(nodes, Flat) \/ NoneOf(nodes, Excluded)
          BY <1>6 DEF Regular, Flat, Excluded
        <5> QED
          BY <1>2, <1>6, <3>2, <5>1, <5>2 DEF SettledFits
      <4>2. o[Len(o)] = m
        BY <1>3, <2>2, <4>1 DEF RowSettled, LastOf
      <4>3. p = o /\ Len(o) = r + 2
        BY <1>4, <2>1, <2>2, <2>3, <3>2
      <4> QED
        BY <2>3, <4>2, <4>3
    <3> QED
      BY <1>1, <1>2, <3>1, <3>2
  <2>5. RowStart' = m
    <3>1. RowStart' = p[(r + 1) + 1]
      BY <1>2, <1>3, <1>6, <2>2 DEF RowStart
    <3>2. (r + 1) + 1 = r + 2
      BY <1>4
    <3> QED
      BY <2>4, <3>1, <3>2
  <2>6. Lists'[r + 1] = SubSeq(coords, p[r + 1] + 1, p[r + 2])
    <3>1. Lists' = Cut(coords, p)
      BY <1>2, <1>6, <2>1, <2>2 DEF Lists, Nested
    <3>2. r + 1 \in 1 .. Len(p) - 1 /\ (r + 1) + 1 = r + 2
      BY <1>4, <2>4
    <3>3. Cut(coords, p)[r + 1] = SubSeq(coords, p[r + 1] + 1, p[(r + 1) + 1])
      BY <3>2 DEF Cut
    <3> QED
      BY <3>1, <3>2, <3>3
  <2> QED
    BY <1>3, <1>4, <2>1, <2>3, <2>4, <2>5, <2>6
<1> QED
  BY <1>1, <1>5, <1>6

(* Whether all rows are regular is a function of the rows. *)
LEMMA RegularStay ==
  ASSUME rows' = rows, depth' = depth
  PROVE  AllRegular' <=> AllRegular
BY DEF AllRegular, Regular

(* A closed sequence leaves no coordinates outside of a row. *)
LEMMA CloseSettles ==
  ASSUME Inv, depth = 1, coords' = coords, offsets' = Close(offsets, 0)
  PROVE  RowSettled'
<1>1. offsets \in [Lvl -> Seq(Nat)] /\ 0 \in Lvl /\ Len(coords) \in Nat
  BY BatchTypes
<1>2. PICK o, m : o = offsets[0] /\ m = Len(coords)
  OBVIOUS
<1>3. offsets'[0] = Append(o, m)
  BY <1>1, <1>2 DEF Close, Elements
<1>4. /\ Len(Append(o, m)) = Len(o) + 1 /\ Append(o, m)[Len(o) + 1] = m
  BY <1>1, <1>2, AppendProperties
<1> QED
  BY <1>2, <1>3, <1>4 DEF RowSettled, LastOf

(* Between two features of a batch of regular ones, nothing is outside. *)
LEMMA IdleSettled ==
  ASSUME BatchInv, TailFits, failed = 0, depth <= 1, AllRegular, Idle
  PROVE  RowStart = Len(coords) /\ (depth = 1 => RowSettled)
<1>1. RowStart \in Nat /\ RowStart <= Len(coords) /\ coords \in Seq(Nat) /\ depth \in 0 .. 1
  BY RowStartIn
<1>2. PICK a, m : a = RowStart /\ m = Len(coords)
  OBVIOUS
<1>3. SubSeq(coords, a + 1, m) = << >>
  BY <1>2 DEF TailFits
<1>4. PICK n : n = Len(SubSeq(coords, a + 1, m))
  OBVIOUS
<1>5. n = m - a
  BY <1>1, <1>2, <1>4
<1>6. n = 0
  <2>1. Len(<< >>) = 0
    OBVIOUS
  <2> QED
    BY <1>3, <1>4, <2>1
<1>7. RowStart = Len(coords)
  BY <1>1, <1>2, <1>5, <1>6
<1> QED
  BY <1>1, <1>7, RowStartIdle DEF RowSettled

(* The ends of the parts, in an array of lists. *)
LEMMA FlatPartEnds ==
  ASSUME Inv, depth = 1, RingEnd \/ GeomEnd
  PROVE  /\ InGeometry /\ ~Idle /\ coords' = coords
         /\ nodes' = nodes /\ rows' = rows /\ failed' = failed
         /\ IF RingEnd \/ EndsSequence
            THEN offsets' = Close(offsets, 0)
            ELSE offsets' = offsets /\ size' = size
         /\ RingEnd => Top.type = RING
<1>1. InGeometry /\ ReadPartEnd /\ coords' = coords /\ (RingEnd => Top.type = RING)
  BY DEF RingEnd, ReadRingEnd, GeomEnd, ReadGeomEnd
<1>2. ~Idle
  <2>1. open # << >>
    BY <1>1, EmptySeq DEF InGeometry, Inv, TypeOK, ProtocolTypeOK
  <2> QED
    BY <2>1 DEF Idle
<1>3. nodes' = nodes /\ rows' = rows /\ failed' = failed
  BY <1>1 DEF ReadPartEnd
<1>4. ~SequencePending
  BY DEF SequencePending
<1>5. CASE RingEnd
  BY <1>1, <1>2, <1>3, <1>4, <1>5 DEF RingEnd
<1>6. CASE ~RingEnd
  <2>1. IF EndsSequence THEN offsets' = Close(offsets, 0)
        ELSE offsets' = offsets /\ size' = size
    BY <1>4, <1>6 DEF GeomEnd
  <2> QED
    BY <1>1, <1>2, <1>3, <1>6, <2>1
<1> QED
  BY <1>5, <1>6

(* Every step of a writer of one level keeps closed rows closed. *)
LEMMA SettledPreserved ==
  ASSUME ProtocolAssumption, NativeAssumption, BatchInv, OneSequence, Parented,
         SequenceIsLast, LevelsFit, TailFits, SettledFits, [Next]_vars
  PROVE  SettledFits'
<1> SUFFICES ASSUME failed' = 0, depth = 1, AllRegular', ~Idle'
             PROVE  /\ NoneOf(nodes', Excluded) /\ Top'.type \notin {LINESTRING, RING}
                         => RowSettled'
                    /\ OnlyTypes(nodes', Flat) /\ size'[0] >= 1 => RowSettled'
  BY DepthKept DEF SettledFits, Excluded
<1> USE DEF RING, POINT, LINESTRING, POLYGON, MULTIPOINT, MULTILINESTRING,
        MULTIPOLYGON, GEOMETRYCOLLECTION, FEATURE, NULLFEATURE
<1>1. /\ Inv /\ ProtocolTypeOK /\ Nesting /\ depth' = depth /\ depth \in 0 .. 1
  BY DepthKept DEF BatchInv, Inv, TypeOK
<1>2. OneSequence'
  BY <1>1, OneSequencePreserved
<1>3. InGeometry' /\ OnlyTypes(nodes', Flat) => size'[0] = 0
  BY <1>1, <1>2 DEF OneSequence, OnlyTypes
<1>4. CASE FeatStart
  <2>1. /\ Idle /\ rows' = rows /\ failed' = failed /\ coords' = coords
        /\ offsets' = offsets
    BY <1>4 DEF FeatStart, ReadFeatStart, listVars
  <2>2. RowSettled
    BY <1>1, <2>1, RegularStay, IdleSettled
  <2> QED
    BY <2>1, <2>2 DEF RowSettled
<1>5. CASE NullFeat
  <2>1. /\ open = << Frame(FEATURE) >> /\ nodes' = nodes /\ failed' = failed /\ rows' = rows
        /\ coords' = coords /\ offsets' = offsets /\ size' = size
    BY <1>5 DEF NullFeat, ReadNullFeat, listVars, shapeVars
  <2>2. Top.type = FEATURE
    BY <2>1 DEF Top, Frame
  <2>3. ~Idle
    BY <2>1 DEF Idle
  <2>4. AllRegular
    BY <1>1, <2>1, RegularStay
  <2>5. /\ NoneOf(nodes, Excluded) => RowSettled
        /\ OnlyTypes(nodes, Flat) /\ size[0] >= 1 => RowSettled
    BY <2>1, <2>2, <2>3, <2>4 DEF SettledFits
  <2> QED
    BY <2>1, <2>5 DEF RowSettled
<1>6. CASE (\E type \in GeomTypes, dims \in Dims : GeomStart(type, dims)) \/ RingStart
  <2>1. PICK type \in RING .. GEOMETRYCOLLECTION, dims \in 1 .. 4 :
             /\ ReadPartStart(type, dims)
             /\ IF type = RING THEN InGeometry /\ Top.type = POLYGON
                ELSE Top.type \in Containers \cup {FEATURE}
    BY <1>1, <1>6, PartStarts
  <2>2. open # << >> /\ coords' = coords /\ offsets' = offsets
    BY <1>1, <1>6, PartStarts
  <2>3. PICK node : node = Node(type, dims, Depth)
    OBVIOUS
  <2>4. /\ failed' = failed /\ rows' = rows /\ node \in NodeSet /\ InGeometry'
        /\ nodes \in Seq(NodeSet) /\ nodes' = Append(nodes, node)
    BY <1>1, <2>1, <2>2, <2>3, PartStarted
  <2>5. ASSUME NoneOf(nodes', Excluded)
        PROVE  RowSettled'
    <3>1. NoneOf(nodes, Excluded)
      BY <2>4, <2>5, NoneOfFewer
    <3>2. Top.type \notin {LINESTRING, RING}
      BY <2>1 DEF Containers
    <3>3. AllRegular
      BY <1>1, <2>4, RegularStay
    <3>4. RowSettled
      BY <2>2, <2>4, <3>1, <3>2, <3>3 DEF SettledFits, Idle
    <3> QED
      BY <2>2, <3>4 DEF RowSettled
  <2> QED
    BY <1>3, <2>4, <2>5
<1>7. CASE \E n \in 0 .. MaxChunk : Coords(n)
  <2>1. PICK n \in 0 .. MaxChunk : Coords(n)
    BY <1>7
  <2>2. PICK more : more = [i \in 1 .. n |-> Label]
    OBVIOUS
  <2>3. n \in Nat /\ ReadCoords(n)
    BY <2>1 DEF ProtocolAssumption, Coords
  <2>4. /\ InGeometry /\ InGeometry' /\ Top'.type = Top.type /\ HoldsCoords(Top.type)
        /\ nodes \in Seq(NodeSet) /\ nodes # << >> /\ more \in Seq(Nat)
        /\ nodes' = Longer(nodes, more)
    BY <1>1, <2>2, <2>3, CoordsRead
  <2>5. NoneOf(nodes', Excluded) => NoneOf(nodes, Excluded)
    BY <2>4, NoneOfLonger
  <2>6. NoneOf(nodes', Excluded) => Top.type \notin Excluded
    BY <2>4, <2>5, TopFits
  <2>7. NoneOf(nodes', Excluded) => Top.type \in {LINESTRING, RING}
    BY <2>4, <2>6 DEF HoldsCoords, Excluded
  <2> QED
    BY <1>3, <2>4, <2>7
<1>8. CASE RingEnd \/ GeomEnd
  <2>1. /\ InGeometry /\ ~Idle /\ coords' = coords
        /\ nodes' = nodes /\ rows' = rows /\ failed' = failed
        /\ IF RingEnd \/ EndsSequence
           THEN offsets' = Close(offsets, 0)
           ELSE offsets' = offsets /\ size' = size
        /\ RingEnd => Top.type = RING
    BY <1>1, <1>8, FlatPartEnds
  <2>2. CASE RingEnd \/ EndsSequence
    BY <1>1, <2>1, <2>2, CloseSettles
  <2>3. CASE ~(RingEnd \/ EndsSequence)
    <3>1. ASSUME OnlyTypes(nodes', Flat), size'[0] >= 1
          PROVE  FALSE
      <4>1. size[0] = 0
        BY <2>1, <3>1 DEF OneSequence
      <4>2. size'[0] = 0
        BY <2>1, <2>3, <4>1
      <4> QED
        BY <3>1, <4>2
    <3>2. ASSUME NoneOf(nodes', Excluded)
          PROVE  RowSettled'
      <4>1. level = LevelOf(Top.type) /\ nestingMultipoint = 0
        BY <2>1, <3>2 DEF LevelsFit
      <4>2. Top.type \notin {LINESTRING, RING}
        BY <2>3, <4>1 DEF LevelOf, EndsSequence
      <4>3. AllRegular
        BY <1>1, <2>1, RegularStay
      <4>4. RowSettled
        BY <2>1, <3>2, <4>2, <4>3 DEF SettledFits
      <4> QED
        BY <2>1, <2>3, <4>4 DEF RowSettled
    <3> QED
      BY <3>1, <3>2
  <2> QED
    BY <2>2, <2>3
<1>9. CASE PolygonEnd
  BY <1>9 DEF PolygonEnd, EndsPolygon
<1>10. CASE FeatEnd \/ FeatRejected \/ Overflow \/ ReaderFails \/ Finish
  BY <1>10 DEF FeatEnd, ReadFeatEnd, FeatRejected, Overflow, ReaderFails, Abandon,
     Finish, BatchDone, Idle
<1>11. CASE UNCHANGED vars
  <2>1. /\ open' = open /\ nodes' = nodes /\ failed' = failed /\ rows' = rows
        /\ coords' = coords /\ offsets' = offsets /\ size' = size
    BY <1>11 DEF vars, protocolVars, writerVars, listVars, shapeVars
  <2>2. AllRegular
    BY <1>1, <2>1, RegularStay
  <2> QED
    BY <2>1, <2>2 DEF SettledFits, Idle, Top, RowSettled
<1> QED
  BY <1>4, <1>5, <1>6, <1>7, <1>8, <1>9, <1>10, <1>11 DEF Next

(* One regular feature more. *)
LEMMA RegularRows ==
  ASSUME rows \in Seq(FeatureSet), NEW row \in FeatureSet, rows' = Append(rows, row),
         depth' = depth, AllRegular'
  PROVE  AllRegular /\ Regular(row.nodes)
<1>1. /\ Len(rows') = Len(rows) + 1 /\ rows'[Len(rows) + 1] = row /\ Len(rows) \in Nat
      /\ \A i \in 1 .. Len(rows) : rows'[i] = rows[i]
      /\ rows' \in Seq(FeatureSet)
  BY AppendProperties
<1>2. DOMAIN rows = 1 .. Len(rows) /\ DOMAIN rows' = 1 .. Len(rows) + 1
  BY <1>1
<1>4. Len(rows) + 1 \in DOMAIN rows'
  BY <1>1, <1>2
<1>5. \A i \in DOMAIN rows : i \in DOMAIN rows' /\ rows'[i] = rows[i]
  BY <1>1, <1>2
<1>6. \A i \in DOMAIN rows' : Regular(rows'[i].nodes)
  BY DEF AllRegular, Regular
<1>7. Regular(row.nodes)
  BY <1>1, <1>4, <1>6
<1>8. \A i \in DOMAIN rows : Regular(rows[i].nodes)
  BY <1>5, <1>6
<1> QED
  BY <1>7, <1>8 DEF AllRegular

(* Every step keeps the coordinates of the open row those of its nodes. *)
LEMMA TailPreserved ==
  ASSUME ProtocolAssumption, NativeAssumption, BatchInv, TailFits, SettledFits,
         [Next]_vars
  PROVE  TailFits'
<1> SUFFICES ASSUME failed' = 0, depth <= 1, AllRegular'
             PROVE  SubSeq(coords', RowStart' + 1, Len(coords'))
                      = IF Idle' THEN << >> ELSE AllCoords(nodes')
  BY DepthKept DEF TailFits
<1>1. /\ Inv /\ ProtocolTypeOK /\ Nesting /\ depth' = depth /\ coords \in Seq(Nat)
      /\ failed \in Nat /\ nodes \in Seq(NodeSet) /\ rows \in Seq(FeatureSet)
  BY DepthKept, BatchTypes DEF BatchInv, Inv, TypeOK, ProtocolTypeOK
<1>2. ASSUME rows' = rows, failed' = failed, ~Finish
      PROVE  RowStart' = RowStart /\ AllRegular /\ failed = 0
  <2>1. AllRegular /\ failed = 0
    BY <1>1, <1>2, RegularStay
  <2>2. (IF depth' = 0 THEN Len(rows) ELSE offsets'[0][Len(rows) + 1]) = RowStart
    BY <1>2, <2>1, RowStartStays
  <2> QED
    BY <1>2, <2>1, <2>2 DEF RowStart
<1>3. ASSUME ~Idle
      PROVE  ~Finish
  BY <1>3 DEF Finish, BatchDone
<1>4. CASE FeatStart
  <2>1. /\ Idle /\ nodes' = << >> /\ rows' = rows /\ failed' = failed
        /\ coords' = coords /\ open' = << Frame(FEATURE) >>
    BY <1>4 DEF FeatStart, ReadFeatStart, listVars
  <2>2. ~Finish
    <3>1. Finish => open' = open
      BY DEF Finish, BatchDone
    <3>2. << Frame(FEATURE) >> # << >>
      <4>1. Len(<< Frame(FEATURE) >>) = 1
        OBVIOUS
      <4> QED
        BY <4>1, EmptySeq
    <3> QED
      BY <2>1, <3>1, <3>2 DEF Idle
  <2>3. RowStart' = RowStart /\ AllRegular /\ failed = 0
    BY <1>2, <2>1, <2>2
  <2>4. SubSeq(coords, RowStart + 1, Len(coords)) = << >>
    BY <2>1, <2>3 DEF TailFits
  <2> QED
    BY <2>1, <2>3, <2>4, NoCoords
<1>5. CASE NullFeat \/ RingEnd \/ GeomEnd \/ PolygonEnd
  <2>1. /\ open # << >> /\ nodes' = nodes /\ rows' = rows /\ failed' = failed
        /\ coords' = coords /\ open' # << >>
    <3>1. CASE NullFeat
      <4>1. Len(<< Frame(FEATURE) >>) = 1 /\ Len(<< Frame(NULLFEATURE) >>) = 1
        OBVIOUS
      <4> QED
        BY <3>1, <4>1, EmptySeq DEF NullFeat, ReadNullFeat, listVars
    <3>2. CASE RingEnd \/ GeomEnd \/ PolygonEnd
      <4>1. /\ InGeometry /\ ReadPartEnd /\ nodes' = nodes /\ rows' = rows
            /\ failed' = failed /\ coords' = coords
        BY <3>2 DEF RingEnd, ReadRingEnd, GeomEnd, ReadGeomEnd, PolygonEnd, ReadPartEnd
      <4>2. Len(open') = Len(open) - 1 /\ open' \in Seq(FrameSet)
        BY <1>1, <4>1, StackPopped
      <4>3. PICK n, k : n = Len(open) /\ k = Len(open')
        OBVIOUS
      <4>4. n > 1 /\ k = n - 1 /\ n \in Nat
        BY <1>1, <4>1, <4>2, <4>3 DEF InGeometry, ProtocolTypeOK
      <4>5. n # 0 /\ k # 0 /\ Len(<< >>) = 0
        BY <4>4
      <4> QED
        BY <4>1, <4>3, <4>5
    <3> QED
      BY <1>5, <3>1, <3>2
  <2>2. ~Idle /\ ~Idle'
    BY <2>1 DEF Idle
  <2>3. RowStart' = RowStart /\ AllRegular /\ failed = 0
    BY <1>2, <1>3, <2>1, <2>2
  <2>4. SubSeq(coords, RowStart + 1, Len(coords)) = AllCoords(nodes)
    BY <2>2, <2>3 DEF TailFits
  <2> QED
    BY <2>1, <2>2, <2>3, <2>4
<1>6. CASE (\E type \in GeomTypes, dims \in Dims : GeomStart(type, dims)) \/ RingStart
  <2>1. PICK type \in RING .. GEOMETRYCOLLECTION, dims \in 1 .. 4 :
             ReadPartStart(type, dims)
    BY <1>1, <1>6, PartStarts
  <2>2. open # << >> /\ coords' = coords
    BY <1>1, <1>6, PartStarts
  <2>3. PICK node : node = Node(type, dims, Depth)
    OBVIOUS
  <2>4. /\ failed' = failed /\ rows' = rows /\ node \in NodeSet /\ node.xs = << >>
        /\ nodes' = Append(nodes, node) /\ InGeometry' /\ Len(open') = Len(open) + 1
        /\ Len(open) \in Nat
    BY <1>1, <2>1, <2>2, <2>3, PartStarted
  <2>5. ~Idle /\ ~Idle'
    <3>1. PICK k : k = Len(open')
      OBVIOUS
    <3>2. k # 0 /\ Len(<< >>) = 0
      BY <2>4, <3>1
    <3> QED
      BY <2>2, <3>1, <3>2 DEF Idle
  <2>6. RowStart' = RowStart /\ AllRegular /\ failed = 0
    BY <1>2, <1>3, <2>4, <2>5
  <2>7. SubSeq(coords, RowStart + 1, Len(coords)) = AllCoords(nodes)
    BY <2>5, <2>6 DEF TailFits
  <2>8. AllCoords(nodes') = AllCoords(nodes)
    BY <1>1, <2>4, CoordsStay
  <2> QED
    BY <2>2, <2>5, <2>6, <2>7, <2>8
<1>7. CASE \E n \in 0 .. MaxChunk : Coords(n)
  <2>1. PICK n \in 0 .. MaxChunk : Coords(n)
    BY <1>7
  <2>2. PICK more : more = [i \in 1 .. n |-> Label]
    OBVIOUS
  <2>3. n \in Nat /\ ReadCoords(n) /\ coords' = coords \o more
    BY <2>1, <2>2 DEF ProtocolAssumption, Coords
  <2>4. /\ open # << >> /\ open' # << >> /\ rows' = rows /\ failed' = failed
        /\ nodes # << >> /\ more \in Seq(Nat) /\ nodes' = Longer(nodes, more)
    BY <1>1, <2>2, <2>3, CoordsRead
  <2>5. ~Idle /\ ~Idle'
    BY <2>4 DEF Idle
  <2>6. RowStart' = RowStart /\ AllRegular /\ failed = 0
    BY <1>2, <1>3, <2>4, <2>5
  <2>7. SubSeq(coords, RowStart + 1, Len(coords)) = AllCoords(nodes)
    BY <2>5, <2>6 DEF TailFits
  <2>8. AllCoords(Longer(nodes, more)) = AllCoords(nodes) \o more
    <3>1. AllCoords([nodes EXCEPT ![Len(nodes)].xs = @ \o more]) = AllCoords(nodes) \o more
      BY <1>1, <2>4, CoordsOfLonger
    <3>2. Longer(nodes, more) = [nodes EXCEPT ![Len(nodes)].xs = @ \o more]
      BY DEF Longer
    <3> QED
      BY <3>1, <3>2, Zenon
  <2>9. RowStart \in Nat /\ RowStart <= Len(coords)
    BY <2>6, RowStartIn
  <2>10. PICK a : a = RowStart
    OBVIOUS
  <2>11. SubSeq(coords \o more, a + 1, Len(coords \o more))
           = SubSeq(coords, a + 1, Len(coords)) \o more
    BY <1>1, <2>4, <2>9, <2>10, TailOfLonger
  <2> QED
    BY <2>3, <2>4, <2>5, <2>6, <2>7, <2>8, <2>10, <2>11
<1>8. CASE FeatEnd
  <2>1. /\ open' = << >> /\ failed = 0
        /\ rows' = Append(rows, [null |-> Top.type = NULLFEATURE, nodes |-> nodes])
    BY <1>8 DEF FeatEnd, ReadFeatEnd
  <2>2. PICK row : row = [null |-> Top.type = NULLFEATURE, nodes |-> nodes]
    OBVIOUS
  <2>3. row \in FeatureSet /\ row.nodes = nodes
    BY <1>1, <2>2 DEF FeatureSet
  <2>4. AllRegular /\ Regular(nodes)
    BY <1>1, <2>1, <2>2, <2>3, RegularRows
  <2>5. RowStart' = Len(coords')
    BY <1>8, <2>1, <2>4, FlatRowEnds
  <2>6. coords' \in Seq(Nat)
    BY <1>1, StepInv, BatchTypes DEF Inv, TypeOK, WriterTypeOK
  <2>7. SubSeq(coords', Len(coords') + 1, Len(coords')) = << >>
    <3>1. PICK m : m = Len(coords')
      OBVIOUS
    <3>2. m \in Nat /\ SubSeq(coords', m + 1, m) = << >>
      BY <2>6, <3>1
    <3> QED
      BY <3>1, <3>2
  <2> QED
    BY <2>1, <2>5, <2>7 DEF Idle
<1>9. CASE FeatRejected \/ Overflow \/ ReaderFails
  BY <1>1, <1>9 DEF FeatRejected, Overflow, ReaderFails, Abandon
<1>10. CASE Finish
  <2>1. rows' = << >> /\ Idle' /\ coords' = << >> /\ offsets' = FreshOffsets(depth)
    BY <1>10 DEF Finish, BatchDone, Idle, Restart
  <2>2. Len(<< >>) = 0 /\ << 0 >>[0 + 1] = 0 /\ 0 \in Lvl
    BY DEF Lvl
  <2>3. depth \in 0 .. 1
    BY <1>1, BatchTypes
  <2>4. RowStart' = 0
    <3>1. CASE depth = 0
      BY <1>1, <2>1, <2>2, <3>1 DEF RowStart
    <3>2. CASE depth = 1
      <4>1. offsets'[0] = << 0 >>
        BY <2>1, <2>2, <3>2 DEF FreshOffsets
      <4>2. RowStart' = offsets'[0][0 + 1]
        BY <1>1, <2>1, <2>2, <3>2 DEF RowStart
      <4> QED
        BY <2>2, <4>1, <4>2
    <3> QED
      BY <2>3, <3>1, <3>2
  <2>5. SubSeq(<< >>, 0 + 1, 0) = << >>
    OBVIOUS
  <2> QED
    BY <2>1, <2>2, <2>4, <2>5
<1>11. CASE UNCHANGED vars
  <2>1. /\ open' = open /\ nodes' = nodes /\ failed' = failed /\ rows' = rows
        /\ coords' = coords /\ offsets' = offsets
    BY <1>11 DEF vars, protocolVars, writerVars, listVars
  <2>2. AllRegular /\ RowStart' = RowStart
    BY <1>1, <2>1, RegularStay DEF RowStart
  <2> QED
    BY <2>1, <2>2 DEF TailFits, Idle
<1> QED
  BY <1>4, <1>5, <1>6, <1>7, <1>8, <1>9, <1>10, <1>11 DEF Next

-----------------------------------------------------------------------------
(* The rows of the batch, as long as every feature is regular. *)
RowsShaped ==
  failed = 0 /\ AllRegular =>
    \A i \in 1 .. Len(rows) : Lists[i] = Shape(rows[i].nodes)

(* A row of lists ends: nothing is open but the row. *)
LEMMA ListRowEnds ==
  ASSUME BatchInv, OpenSequencesFit, OpenPolygonsFit, FeatEnd, failed = 0, depth >= 2,
         Regular(nodes)
  PROVE  Lists'[Len(rows) + 1] = Shape(nodes)
<1> USE DEF RING, POINT, LINESTRING, POLYGON, MULTIPOINT, MULTILINESTRING,
        MULTIPOLYGON, GEOMETRYCOLLECTION, FEATURE, NULLFEATURE
<1>1. /\ Inv /\ RowsInPlace /\ depth \in 2 .. 3 /\ coords \in Seq(Nat)
      /\ offsets \in [Lvl -> Seq(Nat)] /\ Len(rows) \in Nat /\ 0 \in Lvl
      /\ 0 \in 0 .. depth - 1 /\ Len(offsets[0]) \in Nat
      /\ CutsInto(depth, coords, offsets)
  BY BatchTypes, StateCuts DEF BatchInv
<1>2. ~Idle /\ Top.type \in {FEATURE, NULLFEATURE}
  BY <1>1, FeatureIsTop DEF FeatEnd, ReadFeatEnd
<1>3. NoneOf(nodes, Excluded)
  <2>1. CASE depth = 2
    BY <2>1 DEF Regular, Excluded
  <2>2. CASE depth = 3
    BY <2>2 DEF Regular, Excluded
  <2> QED
    BY <1>1, <2>1, <2>2
<1>4. /\ OpenList(0) = Shape(nodes)
      /\ \A k \in 1 .. depth - 1 : OpenList(k) = << >>
  <2>1. CASE depth = 2
    <3>1. OpenList(0) = NonEmpty(Sequences(nodes)) /\ OpenList(1) = << >>
      BY <1>2, <1>3, <2>1 DEF OpenSequencesFit
    <3>2. \A k \in 1 .. depth - 1 : k = 1
      BY <2>1
    <3> QED
      BY <2>1, <3>1, <3>2 DEF Shape
  <2>2. CASE depth = 3
    <3>1. /\ OpenList(0) = NonEmpty(PolygonRings(nodes)) /\ OpenList(1) = << >>
          /\ OpenList(2) = << >>
      BY <1>2, <1>3, <2>2 DEF OpenPolygonsFit
    <3>2. \A k \in 1 .. depth - 1 : k = 1 \/ k = 2
      BY <2>2
    <3> QED
      BY <2>2, <3>1, <3>2 DEF Shape
  <2> QED
    BY <1>1, <2>1, <2>2
<1>5. ASSUME NEW k \in 1 .. depth - 1
      PROVE  ~(size[k] > 0)
  <2>1. k \in 0 .. depth - 1
    OBVIOUS
  <2>2. OpenList(k) = << >>
    BY <1>4
  <2> QED
    BY <1>2, <2>1, <2>2, SizeOfOpenList
<1>6. ~LeftOver(1) /\ ~LeftOver(2)
  BY <1>1, <1>5 DEF LeftOver
<1>7. RowClosed = Close(offsets, 0)
  BY <1>6 DEF RowClosed, ListsClosed, SequencesClosed
<1>8. depth' = depth /\ coords' = coords /\ offsets' = RowClosed
  BY <1>1 DEF FeatEnd, PointEnd, LinestringEnd, ListsEnd
<1>9. Elements(offsets, 0) = Len(Elems(depth, coords, offsets, 0))
  BY <1>1, StateElems
<1>10. PICK ot : ot = offsets'
  OBVIOUS
<1>11. ot = ClosedAt(depth, coords, offsets, 0)
  BY <1>7, <1>8, <1>9, <1>10 DEF Close, ClosedAt
<1>12. Nested(depth, coords, ot)[Len(offsets[0])] = Opened(depth, coords, offsets, 0)
  BY <1>1, <1>11, RowByClose
<1>13. Len(offsets[0]) = Len(rows) + 1
  <2>1. RowCount(depth, coords, offsets) = Len(rows)
    BY <1>1 DEF RowsInPlace
  <2>2. Len(offsets[0]) - 1 = Len(rows)
    BY <1>1, <2>1 DEF RowCount
  <2>3. PICK n, r : n = Len(offsets[0]) /\ r = Len(rows)
    OBVIOUS
  <2>4. n = r + 1
    BY <1>1, <2>2, <2>3
  <2> QED
    BY <2>3, <2>4
<1> QED
  BY <1>4, <1>8, <1>10, <1>12, <1>13 DEF Lists, OpenList

(* Rows that are there stay as they are. *)
LEMMA OldRowsShaped ==
  ASSUME ProtocolAssumption, NativeAssumption, BatchInv, RowsShaped, [Next]_vars,
         ~Finish, failed = 0, AllRegular, NEW i \in 1 .. Len(rows)
  PROVE  Lists'[i] = Shape(rows[i].nodes) /\ depth' = depth
<1>1. Inv /\ Inv' /\ RowsInPlace
  BY StepInv DEF BatchInv
<1>2. Begins(Lists, Lists') /\ depth' = depth
  BY <1>1, ListsGrow, DepthKept
<1>3. Len(Lists) = RowCount(depth, coords, offsets) /\ Len(Lists) \in Nat
  BY <1>1, RowsAreLists
<1>4. Len(rows) \in Nat /\ size[0] \in Nat
  BY <1>1, BatchTypes
<1>5. i \in 1 .. Len(Lists)
  BY <1>1, <1>3, <1>4 DEF RowsInPlace
<1>6. Lists'[i] = Lists[i]
  BY <1>2, <1>5 DEF Begins
<1> QED
  BY <1>2, <1>6 DEF RowsShaped

(* Every step keeps the rows written the shapes of the features. *)
LEMMA RowsShapedPreserved ==
  ASSUME ProtocolAssumption, NativeAssumption, BatchInv, OpenSequencesFit,
         OpenPolygonsFit, TailFits, SettledFits, RowsShaped, [Next]_vars
  PROVE  RowsShaped'
<1>1. Inv /\ Inv' /\ depth' = depth /\ failed \in Nat /\ rows \in Seq(FeatureSet)
      /\ nodes \in Seq(NodeSet)
  BY StepInv, DepthKept, BatchTypes DEF BatchInv, Inv, TypeOK, ProtocolTypeOK
<1>3. CASE FeatEnd /\ failed' = 0 /\ AllRegular'
  <2>1. /\ failed = 0
        /\ rows' = Append(rows, [null |-> Top.type = NULLFEATURE, nodes |-> nodes])
    BY <1>3 DEF FeatEnd, ReadFeatEnd
  <2>2. PICK row : row = [null |-> Top.type = NULLFEATURE, nodes |-> nodes]
    OBVIOUS
  <2>3. row \in FeatureSet /\ row.nodes = nodes /\ rows' = Append(rows, row)
    BY <1>1, <2>1, <2>2 DEF FeatureSet
  <2>4. AllRegular /\ Regular(nodes)
    BY <1>1, <1>3, <2>3, RegularRows
  <2>5. /\ Len(rows') = Len(rows) + 1 /\ rows'[Len(rows) + 1] = row /\ Len(rows) \in Nat
        /\ \A i \in 1 .. Len(rows) : rows'[i] = rows[i]
    BY <1>1, <2>3, AppendProperties
  <2>6. Lists'[Len(rows) + 1] = Shape(nodes)
    <3>1. depth \in 0 .. 3
      BY <1>1, BatchTypes
    <3>2. CASE depth <= 1
      BY <1>3, <2>1, <2>4, <3>2, FlatRowEnds
    <3>3. CASE depth >= 2
      BY <1>3, <2>1, <2>4, <3>3, ListRowEnds
    <3> QED
      BY <3>1, <3>2, <3>3
  <2>7. ~Finish
    <3>1. Idle => open = << >>
      BY DEF Idle
    <3>2. ~Idle
      BY <1>1, <1>3, FeatureIsTop DEF FeatEnd, ReadFeatEnd
    <3> QED
      BY <3>2 DEF Finish, BatchDone
  <2>8. \A i \in 1 .. Len(rows) : Lists'[i] = Shape(rows[i].nodes)
    BY <2>1, <2>4, <2>7, OldRowsShaped
  <2>9. ASSUME NEW i \in 1 .. Len(rows')
        PROVE  Lists'[i] = Shape(rows'[i].nodes)
    <3>1. i \in 1 .. Len(rows) \/ i = Len(rows) + 1
      BY <2>5
    <3> QED
      BY <2>3, <2>5, <2>6, <2>8, <3>1
  <2> QED
    BY <1>1, <2>9 DEF RowsShaped, Shape
<1>4. CASE rows' = rows /\ failed' = failed /\ ~Finish
  <2>1. ASSUME failed = 0, AllRegular, NEW i \in 1 .. Len(rows)
        PROVE  Lists'[i] = Shape(rows[i].nodes)
    BY <1>4, <2>1, OldRowsShaped
  <2>2. AllRegular' <=> AllRegular
    BY <1>1, <1>4, RegularStay
  <2> QED
    BY <1>1, <1>4, <2>1, <2>2 DEF RowsShaped, Shape
<1>5. CASE Finish
  <2>1. rows' = << >> /\ Len(<< >>) = 0
    BY <1>5 DEF Finish, BatchDone
  <2>2. 1 .. 0 = {}
    OBVIOUS
  <2> QED
    BY <2>1, <2>2 DEF RowsShaped
<1>6. CASE FeatRejected \/ Overflow \/ ReaderFails
  <2>1. failed' # 0
    BY <1>1, <1>6 DEF FeatRejected, Overflow, ReaderFails, Abandon
  <2> QED
    BY <2>1 DEF RowsShaped
<1>7. CASE /\ ~Finish
           /\ \/ FeatStart \/ NullFeat \/ RingStart \/ RingEnd \/ GeomEnd \/ PolygonEnd
              \/ \E type \in GeomTypes, dims \in Dims : GeomStart(type, dims)
              \/ \E n \in 0 .. MaxChunk : Coords(n)
              \/ UNCHANGED vars
  <2>1. rows' = rows /\ failed' = failed
    BY <1>7 DEF FeatStart, ReadFeatStart, NullFeat, ReadNullFeat, RingStart, ReadRingStart,
       ReadPartStart, RingEnd, ReadRingEnd, GeomEnd, ReadGeomEnd, ReadPartEnd, PolygonEnd,
       GeomStart, ReadGeomStart, Coords, ReadCoords, vars, protocolVars
  <2> QED
    BY <1>4, <1>7, <2>1
<1>8. CASE ~(failed' = 0 /\ AllRegular')
  BY <1>8 DEF RowsShaped
<1> QED
  BY <1>3, <1>5, <1>6, <1>7, <1>8 DEF Next

-----------------------------------------------------------------------------
(* The inductive invariant: the batch's, what is open in the nodes, and the *)
(* rows that came out.                                                      *)
ShapesInv ==
  /\ BatchInv /\ OneSequence /\ Parented /\ SequenceIsLast /\ LevelsFit
  /\ OpenSequencesFit /\ OpenPolygonsFit /\ TailFits /\ SettledFits /\ RowsShaped

(* The initial states satisfy the invariant. *)
LEMMA InitShapesInv ==
  ASSUME ProtocolAssumption, NativeAssumption, Init
  PROVE  ShapesInv
<1>1. BatchInv
  BY InitBatchInv
<1>2. /\ open = << >> /\ rows = << >> /\ failed = 0 /\ Idle /\ coords = << >>
      /\ offsets = FreshOffsets(depth) /\ Len(<< >>) = 0 /\ depth \in 0 .. 3
  BY BatchTypes, <1>1 DEF Init, ProtocolInit, Idle, BatchInv
<1>3. ~InGeometry /\ 2 .. Len(open) = {} /\ 1 .. Len(rows) = {}
  <2>1. 2 .. 0 = {} /\ 1 .. 0 = {} /\ ~(0 > 1)
    OBVIOUS
  <2> QED
    BY <1>2, <2>1 DEF InGeometry
<1>4. /\ OneSequence /\ Parented /\ SequenceIsLast /\ LevelsFit /\ OpenSequencesFit
      /\ OpenPolygonsFit /\ SettledFits /\ RowsShaped
  BY <1>2, <1>3 DEF OneSequence, Parented, SequenceIsLast, LevelsFit, OpenSequencesFit,
     OpenPolygonsFit, SettledFits, RowsShaped
<1>5. ASSUME depth <= 1
      PROVE  SubSeq(coords, RowStart + 1, Len(coords)) = << >>
  <2>1. RowStart = IF depth = 0 THEN Len(coords) ELSE LastOf(offsets[0])
    BY <1>1, <1>2, <1>5, RowStartIdle
  <2>2. RowStart = 0
    <3>1. RowStart \in Nat /\ RowStart <= Len(coords)
      BY <1>1, <1>2, <1>5, RowStartIn
    <3> QED
      BY <1>2, <3>1
  <2>3. SubSeq(<< >>, 0 + 1, 0) = << >>
    OBVIOUS
  <2> QED
    BY <1>2, <2>2, <2>3
<1> QED
  BY <1>1, <1>2, <1>4, <1>5 DEF ShapesInv, TailFits

(* Every step preserves the invariant. *)
LEMMA StepShapesInv ==
  ASSUME ProtocolAssumption, NativeAssumption, ShapesInv, [Next]_vars
  PROVE  ShapesInv'
<1>1. /\ BatchInv /\ Inv /\ OneSequence /\ Parented /\ SequenceIsLast /\ LevelsFit
      /\ OpenSequencesFit /\ OpenPolygonsFit /\ TailFits /\ SettledFits /\ RowsShaped
  BY DEF ShapesInv, BatchInv
<1>2. BatchInv'
  BY <1>1, StepBatchInv
<1>3. OneSequence'
  BY <1>1, OneSequencePreserved
<1>4. Parented' /\ SequenceIsLast'
  BY <1>1, StepIsCall, ParentsPreserved DEF Inv, TypeOK
<1>5. LevelsFit'
  BY <1>1, LevelsPreserved
<1>6. OpenSequencesFit' /\ OpenPolygonsFit'
  BY <1>1, OpenSequencesPreserved, OpenPolygonsPreserved
<1>7. TailFits' /\ SettledFits'
  BY <1>1, TailPreserved, SettledPreserved
<1>8. RowsShaped'
  BY <1>1, RowsShapedPreserved
<1> QED
  BY <1>2, <1>3, <1>4, <1>5, <1>6, <1>7, <1>8 DEF ShapesInv

(* As long as every feature of the batch was of fitting types and none was *)
(* abandoned, the rows are the shapes of the features: the four families   *)
(* of callbacks close a list exactly where a geometry that has coordinates *)
(* ends, and drop the empty ones, however the parts are nested in          *)
(* collections and in how many chunks their coordinates arrived.           *)
THEOREM RowsAreShapesCorrect == Spec => []RowsAreShapes
<1>1. ShapesInv => RowsAreShapes
  <2> SUFFICES ASSUME ShapesInv, failed = 0, AllRegular
               PROVE  Rows(Len(rows)) = [i \in DOMAIN rows |-> Shape(rows[i].nodes)]
    BY DEF RowsAreShapes, AllRegular
  <2>1. Inv /\ BatchInv /\ RowsInPlace /\ RowsShaped
    BY DEF ShapesInv, BatchInv
  <2>2. PICK n : n = Len(rows)
    OBVIOUS
  <2>3. rows \in Seq(FeatureSet) /\ n \in Nat /\ size[0] \in Nat /\ DOMAIN rows = 1 .. n
    BY <2>1, <2>2, BatchTypes
  <2>4. Len(Lists) = RowCount(depth, coords, offsets) /\ Len(Lists) \in Nat
    BY <2>1, RowsAreLists
  <2>5. n <= Len(Lists)
    BY <2>1, <2>2, <2>3, <2>4 DEF RowsInPlace
  <2>6. \A i \in 1 .. n : Rows(n)[i] = Lists[i]
    BY <2>1, <2>3, <2>5, RowsAreLists
  <2>7. PICK S : Lists \in Seq(S)
    BY <2>1, BatchTypes, StateCuts, NestedSized DEF Lists
  <2>8. Rows(n) \in Seq(S) /\ Len(Rows(n)) = n
    <3>1. PICK all, m : all = Lists /\ m = Len(all)
      OBVIOUS
    <3>2. Rows(n) = SubSeq(all, 1, IF n < m THEN n ELSE m)
      BY <3>1 DEF Rows, Lists
    <3>3. (IF n < m THEN n ELSE m) = n
      BY <2>3, <2>4, <2>5, <3>1
    <3>4. SubSeq(all, 1, n) \in Seq(S) /\ Len(SubSeq(all, 1, n)) = n
      BY <2>3, <2>4, <2>5, <2>7, <3>1
    <3> QED
      BY <3>2, <3>3, <3>4
  <2>9. Rows(n) = [i \in 1 .. n |-> Rows(n)[i]]
    BY <2>8
  <2>10. \A i \in 1 .. n : Rows(n)[i] = Shape(rows[i].nodes)
    BY <2>1, <2>2, <2>6 DEF RowsShaped
  <2> QED
    BY <2>2, <2>3, <2>9, <2>10
<1> QED
  BY <1>1, InitShapesInv, StepShapesInv, ProtocolAssumption, NativeAssumption, PTL DEF Spec

-----------------------------------------------------------------------------
(* Appended geometries.                                                    *)

(* The offsets and the last offsets. *)
Ending == [offsets : [Lvl -> Seq(Int)], last : [Lvl -> Int]]

(* Only level l differs. *)
Apart(r, st, l) ==
  \A k \in Lvl \ {l} : r.offsets[k] = st.offsets[k] /\ r.last[k] = st.last[k]

(* The lists of level l end where s ends, and the last offset knows.       *)
Ends(st, l, s) ==
  /\ Cuts(st.offsets[l], Len(s)) /\ LastOf(st.offsets[l]) = Len(s)
  /\ st.last[l] = Len(s)

(* Concatenation is associative. *)
LEMMA SequencesJoin ==
  ASSUME NEW S, NEW u \in Seq(S), NEW v \in Seq(S), NEW w \in Seq(S)
  PROVE  (u \o v) \o w = u \o (v \o w)
OBVIOUS

(* GeoArrowNativeWriterAppendSize at a level, whatever it appends there.   *)
LEMMA SizeAppended ==
  ASSUME NativeAssumption, NEW st \in Ending, NEW l \in Lvl, NEW n \in Nat
  PROVE  /\ AppendSize(st, l, n) \in Ending /\ Apart(AppendSize(st, l, n), st, l)
         /\ AppendSize(st, l, n).offsets[l]
              = Append(st.offsets[l], Int32(st.last[l] + n))
         /\ AppendSize(st, l, n).last[l] = Int32(st.last[l] + n)
         /\ Len(AppendSize(st, l, n).offsets[l]) = Len(st.offsets[l]) + 1
<1>1. /\ st.offsets \in [Lvl -> Seq(Int)] /\ st.last \in [Lvl -> Int]
      /\ st.offsets[l] \in Seq(Int) /\ st.last[l] \in Int
  BY DEF Ending
<1>2. PICK v : v = Int32(st.last[l] + n)
  OBVIOUS
<1>3. v \in Int
  BY <1>1, <1>2 DEF Int32, NativeAssumption
<1>4. AppendSize(st, l, n) = [offsets |-> [st.offsets EXCEPT ![l] = Append(@, v)],
                              last |-> [st.last EXCEPT ![l] = v]]
  BY <1>2 DEF AppendSize
<1>5. PICK os, la : /\ os = [st.offsets EXCEPT ![l] = Append(@, v)]
                    /\ la = [st.last EXCEPT ![l] = v]
  OBVIOUS
<1>6. /\ os \in [Lvl -> Seq(Int)] /\ la \in [Lvl -> Int]
      /\ os[l] = Append(st.offsets[l], v) /\ la[l] = v
      /\ \A k \in Lvl \ {l} : os[k] = st.offsets[k] /\ la[k] = st.last[k]
      /\ Len(os[l]) = Len(st.offsets[l]) + 1
  BY <1>1, <1>3, <1>5
<1>7. AppendSize(st, l, n) = [offsets |-> os, last |-> la]
  BY <1>4, <1>5
<1>8. AppendSize(st, l, n).offsets = os /\ AppendSize(st, l, n).last = la
  BY <1>7
<1> QED
  BY <1>2, <1>6, <1>7, <1>8 DEF Ending, Apart

(* A list is appended that has all of x. *)
Listed(r, st, l, s, x) ==
  /\ Ends(r, l, s \o x)
  /\ Cut(s \o x, r.offsets[l]) = Append(Cut(s, st.offsets[l]), x)

(* ... and what it appends if the sum is countable: a list of its own.     *)
LEMMA ListAppended ==
  ASSUME NativeAssumption, NEW st \in Ending, NEW l \in Lvl, NEW S, NEW s \in Seq(S),
         NEW x \in Seq(S), Ends(st, l, s), Len(s) + Len(x) <= MaxOffset
  PROVE  Listed(AppendSize(st, l, Len(x)), st, l, s, x)
<1> DEFINE r == AppendSize(st, l, Len(x))
<1>1. PICK o, p, n, m, sx : /\ o = st.offsets[l] /\ p = r.offsets[l] /\ n = Len(s)
                            /\ m = Len(x) /\ sx = s \o x
  OBVIOUS
<1>2. /\ n \in Nat /\ m \in Nat /\ sx \in Seq(S) /\ Len(sx) = n + m
      /\ Begins(s, sx) /\ SubSeq(sx, n + 1, n + m) = x
  BY <1>1 DEF Begins
<1>3. Cuts(o, n) /\ LastOf(o) = n /\ st.last[l] = n
  BY <1>1 DEF Ends
<1>4. Int32(n + m) = n + m
  BY <1>1, <1>2 DEF Int32
<1>5. p = Append(o, n + m) /\ r.last[l] = n + m
  <2>1. /\ AppendSize(st, l, m).offsets[l] = Append(st.offsets[l], Int32(st.last[l] + m))
        /\ AppendSize(st, l, m).last[l] = Int32(st.last[l] + m)
    BY <1>2, SizeAppended
  <2> QED
    BY <1>1, <1>3, <1>4, <2>1
<1>6. Cut(sx, o) = Cut(s, o) /\ Cuts(o, Len(sx))
  <2>1. Cuts(o, Len(s)) /\ sx \in Seq(S) /\ Begins(s, sx)
    BY <1>1, <1>2, <1>3
  <2> QED
    BY <2>1, CutLonger
<1>7. /\ Cut(sx, p) = Append(Cut(sx, o), SubSeq(sx, LastOf(o) + 1, Len(sx)))
      /\ Cuts(p, Len(sx))
  BY <1>2, <1>5, <1>6, CutAppend
<1>8. LastOf(p) = Len(sx)
  <2>1. o \in Seq(Nat)
    BY <1>3 DEF Cuts
  <2>2. Len(p) = Len(o) + 1 /\ p[Len(o) + 1] = n + m
    BY <1>2, <1>5, <2>1, AppendProperties
  <2> QED
    BY <1>2, <2>2 DEF LastOf
<1>9. Ends(r, l, sx)
  BY <1>1, <1>2, <1>5, <1>7, <1>8 DEF Ends
<1>10. Cut(sx, p) = Append(Cut(s, o), x)
  BY <1>2, <1>3, <1>6, <1>7
<1> QED
  BY <1>1, <1>9, <1>10 DEF Listed

(* What FlattenSeq has joined after every element. *)
Joins(h, ks) == h[0] = << >> /\ \A i \in 1 .. Len(ks) : h[i] = h[i - 1] \o ks[i]

(* The parts are typed, and the last of them is all of it. *)
JoinsTo(h, ks, W) == h \in [0 .. Len(ks) -> Seq(W)] /\ Joins(h, ks) /\ FlattenSeq(ks) = h[Len(ks)]

(* The n lists after a are empty. *)
Empties(ks, a, n) == \A k \in 1 .. n : ks[a + k] = << >>

(* The n elements after a. *)
After(x, a, n) == [k \in 1 .. n |-> x[a + k]]

(* They are a sequence of their own. *)
LEMMA AfterType ==
  ASSUME NEW S, NEW x, NEW a \in Nat, NEW n \in Nat, \A k \in 1 .. n : x[a + k] \in S
  PROVE  /\ After(x, a, n) \in Seq(S) /\ Len(After(x, a, n)) = n
         /\ \A k \in 1 .. n : After(x, a, n)[k] = x[a + k]
BY DEF After

(* Concatenation is associative, without naming the sequences. *)
Associates(S) == \A x, y, z \in Seq(S) : (x \o y) \o z = x \o (y \o z)

(* It is, over every set. *)
LEMMA JoinAssociates ==
  ASSUME NEW S
  PROVE  Associates(S)
BY SequencesJoin DEF Associates

(* A prefix that is one element longer. *)
LEMMA OneLonger ==
  ASSUME NEW S, NEW u \in Seq(S), NEW i \in 0 .. Len(u) - 1, NEW e, e = u[i + 1]
  PROVE  SubSeq(u, 1, i + 1) = SubSeq(u, 1, i) \o << e >>
<1>1. PICK n : n = Len(u)
  OBVIOUS
<1>2. n \in Nat /\ i \in 0 .. n - 1 /\ i \in Nat /\ i + 1 \in 1 .. n /\ i <= n
  BY <1>1
<1>3. PICK s, t : s = SubSeq(u, 1, i) /\ t = SubSeq(u, 1, i + 1)
  OBVIOUS
<1>4. e \in S
  BY <1>1, <1>2
<1>5. /\ s \in Seq(S) /\ Len(s) = i /\ \A k \in 1 .. i : s[k] = u[k]
  BY <1>1, <1>2, <1>3
<1>6. /\ t \in Seq(S) /\ Len(t) = i + 1 /\ \A k \in 1 .. i + 1 : t[k] = u[k]
  BY <1>1, <1>2, <1>3
<1>7. /\ Append(s, e) \in Seq(S) /\ Len(Append(s, e)) = i + 1
      /\ \A k \in 1 .. i : Append(s, e)[k] = s[k]
      /\ Append(s, e)[i + 1] = e
  BY <1>4, <1>5, AppendProperties
<1>8. t = Append(s, e)
  <2>1. \A k \in 1 .. i + 1 : k = i + 1 \/ k \in 1 .. i
    BY <1>2
  <2>2. \A k \in 1 .. i + 1 : t[k] = Append(s, e)[k]
    BY <1>5, <1>6, <1>7, <2>1
  <2> QED
    BY <1>6, <1>7, <2>2, SeqEqual
<1>9. Append(s, e) = s \o << e >>
  BY <1>4, <1>5, AppendIsConcat
<1> QED
  BY <1>3, <1>8, <1>9

(* The elements after a, joined. *)
LEMMA AllAfter ==
  ASSUME NEW W, NEW ks \in Seq(Seq(W)), NEW h, JoinsTo(h, ks, W),
         NEW a \in Nat, NEW n \in Nat, a + n <= Len(ks)
  PROVE  /\ h[a + n] = h[a] \o FlattenSeq(After(ks, a, n))
         /\ FlattenSeq(After(ks, a, n)) \in Seq(W)
<1>1. PICK u, W1, m : u = After(ks, a, n) /\ W1 = Seq(W) /\ m = Len(ks)
  OBVIOUS
<1>j. h \in [0 .. Len(ks) -> Seq(W)] /\ Joins(h, ks)
  BY DEF JoinsTo
<1>2. /\ m \in Nat /\ a + n <= m /\ a \in 0 .. m
      /\ \A i \in 0 .. n : a + i \in 0 .. m
      /\ \A i \in 1 .. n : a + i \in 1 .. m
  <2>1. m \in Nat /\ a + n <= m
    BY <1>1
  <2> QED
    BY <2>1
<1>3. h \in [0 .. m -> W1] /\ h[a] \in W1
  <2>1. h \in [0 .. m -> W1]
    BY <1>1, <1>j
  <2> QED
    BY <1>2, <2>1
<1>4. u \in Seq(W1) /\ Len(u) = n /\ \A k \in 1 .. n : u[k] = ks[a + k]
  <2>1. ASSUME NEW k \in 1 .. n
        PROVE  ks[a + k] \in W1
    <3>1. a + k \in 1 .. Len(ks)
      BY <1>1, <1>2
    <3> QED
      BY <1>1, <3>1
  <2>2. /\ After(ks, a, n) \in Seq(W1) /\ Len(After(ks, a, n)) = n
        /\ \A k \in 1 .. n : After(ks, a, n)[k] = ks[a + k]
    <3>1. After(ks, a, n) \in [1 .. n -> W1]
      BY <2>1 DEF After
    <3>2. \A k \in 1 .. n : After(ks, a, n)[k] = ks[a + k]
      BY DEF After
    <3> QED
      BY <3>1, <3>2
  <2> QED
    BY <1>1, <2>2
<1>5. PICK f \in [0 .. n -> Seq(W)] :
           /\ f[0] = << >>
           /\ \A i \in 1 .. n : f[i] = f[i - 1] \o u[i]
           /\ FlattenSeq(u) = f[n]
  <2>1. u \in Seq(Seq(W))
    BY <1>1, <1>4
  <2>2. Len(u) = n
    BY <1>4
  <2> QED
    BY <2>1, <2>2, FlattenSteps
<1> DEFINE T == {i \in 0 .. n : h[a + i] = h[a] \o f[i]}
<1>6. 0 \in T
  <2>1. h[a] \in Seq(W) /\ a + 0 = a
    BY <1>1, <1>3
  <2>2. h[a] \o << >> = h[a]
    BY <2>1
  <2> QED
    BY <1>2, <1>5, <2>1, <2>2
<1>7. ASSUME NEW i \in 0 .. n - 1, i \in T
      PROVE  i + 1 \in T
  <2>1. /\ i \in 0 .. n /\ i + 1 \in 1 .. n /\ i + 1 \in 0 .. n /\ (i + 1) - 1 = i
        /\ (a + (i + 1)) - 1 = a + i
    OBVIOUS
  <2>2. a + (i + 1) \in 1 .. m
    BY <1>2, <2>1
  <2>3. h[a + (i + 1)] = h[a + i] \o ks[a + (i + 1)]
    BY <1>1, <1>j, <2>1, <2>2 DEF Joins
  <2>4. f[i + 1] = f[i] \o u[i + 1] /\ u[i + 1] = ks[a + (i + 1)]
    BY <1>4, <1>5, <2>1
  <2>5. PICK p, q, r : p = h[a] /\ q = f[i] /\ r = u[i + 1]
    OBVIOUS
  <2>6. p \in Seq(W) /\ q \in Seq(W) /\ r \in Seq(W)
    <3>1. r \in W1
      BY <1>4, <2>1, <2>5
    <3> QED
      BY <1>1, <1>3, <1>5, <2>1, <2>5, <3>1
  <2>7. h[a + i] = p \o q /\ f[i + 1] = q \o r
    BY <1>7, <2>4, <2>5
  <2>8. h[a + i] \o r = p \o f[i + 1]
    <3>1. (p \o q) \o r = p \o (q \o r)
      BY <2>6, SequencesJoin, SMTT(30)
    <3> QED
      BY <2>7, <3>1
  <2> QED
    BY <2>1, <2>3, <2>4, <2>5, <2>8
<1> HIDE DEF T
<1>8. n \in T
  <2>1. n \in 0 .. n
    OBVIOUS
  <2> QED
    BY <1>6, <1>7, <2>1, IntervalInduction
<1>9. h[a + n] = h[a] \o f[n] /\ f[n] \in Seq(W)
  <2>1. n \in 0 .. n
    OBVIOUS
  <2> QED
    BY <1>5, <1>8, <2>1 DEF T
<1> QED
  BY <1>1, <1>5, <1>9

(* Elements of one each, and of none.                                      *)
SinglesOf(ks, a, u) == \A k \in 1 .. Len(u) : ks[a + k] = << u[k] >>

(* Where every list is of one element, joining them lists the elements. *)
LEMMA SinglesAfter ==
  ASSUME NEW W, NEW ks \in Seq(Seq(W)), NEW h, JoinsTo(h, ks, W),
         NEW a \in Nat, NEW u \in Seq(W), a + Len(u) <= Len(ks), SinglesOf(ks, a, u)
  PROVE  h[a + Len(u)] = h[a] \o u
<1>0. PICK n : n = Len(u)
  OBVIOUS
<1>1. PICK m : m = Len(ks)
  OBVIOUS
<1>4. n \in Nat /\ h \in [0 .. Len(ks) -> Seq(W)] /\ Joins(h, ks)
  BY <1>0 DEF JoinsTo
<1>2. /\ m \in Nat /\ a + n <= m /\ a \in 0 .. m
      /\ \A i \in 0 .. n : a + i \in 0 .. m
      /\ \A i \in 1 .. n : a + i \in 1 .. m
  <2>1. m \in Nat /\ a + n <= m
    BY <1>0, <1>1
  <2> QED
    BY <1>4, <2>1
<1>3. h[a] \in Seq(W)
  BY <1>1, <1>2, <1>4
<1> DEFINE T == {i \in 0 .. n : h[a + i] = h[a] \o SubSeq(u, 1, i)}
<1>5. 0 \in T
  <2>1. h[a + 0] = h[a] /\ SubSeq(u, 1, 0) = << >> /\ 0 \in 0 .. n
    BY <1>4
  <2>2. h[a] \o << >> = h[a]
    BY <1>3
  <2>3. h[a + 0] = h[a] \o SubSeq(u, 1, 0)
    BY <2>1, <2>2
  <2> QED
    BY <2>1, <2>3
<1>6. ASSUME NEW i \in 0 .. n - 1, i \in T
      PROVE  i + 1 \in T
  <2>1. /\ i \in 0 .. n /\ i + 1 \in 1 .. n /\ i + 1 \in 0 .. n /\ (i + 1) - 1 = i
        /\ (a + (i + 1)) - 1 = a + i /\ i \in Nat /\ i + 1 <= n
    BY <1>4
  <2>2. a + (i + 1) \in 1 .. m
    BY <1>2, <2>1
  <2>3. h[a + (i + 1)] = h[a + i] \o << u[i + 1] >>
    BY <1>0, <1>1, <1>4, <2>1, <2>2 DEF Joins, SinglesOf
  <2>4. PICK p \in Seq(W), q \in Seq(W), r \in Seq(W) :
             p = h[a] /\ q = SubSeq(u, 1, i) /\ r = << u[i + 1] >>
    <3>1. SubSeq(u, 1, i) \in Seq(W) /\ u[i + 1] \in W
      BY <1>0, <2>1
    <3>2. << u[i + 1] >> \in Seq(W)
      BY <3>1
    <3> QED
      BY <1>3, <3>1, <3>2, Zenon
  <2>6. h[a + i] = p \o q
    BY <1>6, <2>4
  <2>7. SubSeq(u, 1, i + 1) = q \o r
    <3>1. i \in 0 .. Len(u) - 1
      BY <1>0
    <3> QED
      BY <2>4, <3>1, OneLonger
  <2>8. h[a + i] \o r = p \o SubSeq(u, 1, i + 1)
    <3>1. Associates(W)
      BY JoinAssociates
    <3>2. (p \o q) \o r = p \o (q \o r)
      BY <3>1 DEF Associates
    <3> QED
      BY <2>6, <2>7, <3>2
  <2> QED
    BY <2>1, <2>3, <2>4, <2>8
<1> HIDE DEF T
<1>7. n \in T
  <2>1. n \in 0 .. n
    BY <1>4
  <2> QED
    BY <1>4, <1>5, <1>6, <2>1, IntervalInduction
<1>8. h[a + n] = h[a] \o SubSeq(u, 1, n)
  BY <1>7 DEF T
<1>9. SubSeq(u, 1, n) = u
  BY <1>0
<1> QED
  BY <1>0, <1>8, <1>9

(* Joining lists that are empty changes nothing. *)
LEMMA NoneAfter ==
  ASSUME NEW W, NEW ks \in Seq(Seq(W)), NEW h, JoinsTo(h, ks, W),
         NEW a \in Nat, NEW n \in Nat, a + n <= Len(ks), Empties(ks, a, n)
  PROVE  h[a + n] = h[a]
<1>1. PICK m : m = Len(ks)
  OBVIOUS
<1>4. h \in [0 .. Len(ks) -> Seq(W)] /\ Joins(h, ks)
  BY DEF JoinsTo
<1>2. /\ m \in Nat /\ a + n <= m /\ a \in 0 .. m
      /\ \A i \in 0 .. n : a + i \in 0 .. m
      /\ \A i \in 1 .. n : a + i \in 1 .. m
  <2>1. m \in Nat /\ a + n <= m
    BY <1>1
  <2> QED
    BY <2>1
<1>3. h[a] \in Seq(W)
  BY <1>1, <1>2, <1>4
<1> DEFINE T == {i \in 0 .. n : h[a + i] = h[a]}
<1>5. 0 \in T
  OBVIOUS
<1>6. ASSUME NEW i \in 0 .. n - 1, i \in T
      PROVE  i + 1 \in T
  <2>1. /\ i + 1 \in 1 .. n /\ i + 1 \in 0 .. n /\ (a + (i + 1)) - 1 = a + i
    OBVIOUS
  <2>2. a + (i + 1) \in 1 .. m
    BY <1>2, <2>1
  <2>3. h[a + (i + 1)] = h[a + i] \o << >>
    BY <1>1, <1>4, <2>1, <2>2 DEF Joins, Empties
  <2>4. h[a + i] = h[a]
    BY <1>6
  <2>5. h[a] \o << >> = h[a]
    BY <1>3
  <2> QED
    BY <2>1, <2>3, <2>4, <2>5
<1> HIDE DEF T
<1>7. n \in T
  <2>1. n \in 0 .. n
    OBVIOUS
  <2> QED
    BY <1>5, <1>6, <2>1, IntervalInduction
<1> QED
  BY <1>7 DEF T

(* The states of the loop over linestrings. *)
LoopOf(f, st, l, ns) ==
  /\ f \in [0 .. Len(ns) -> Ending] /\ f[0] = st
  /\ \A k \in 1 .. Len(ns) : f[k] = AppendSize(f[k - 1], l, ns[k].size)
  /\ AppendLinestringOffsets(st, ns, l) = f[Len(ns)]

(* The loop of AppendLinestringOffsets exists, with typed steps. *)
LEMMA LinesLoop ==
  ASSUME NativeAssumption, NEW st \in Ending, NEW l \in Lvl, NEW ns,
         NEW n \in Nat, Len(ns) = n, \A k \in 1 .. n : ns[k].size \in Nat
  PROVE  \E f : LoopOf(f, st, l, ns)
<1> DEFINE next(f, k) == IF k = 0 THEN st ELSE AppendSize(f[k - 1], l, ns[k].size)
           loop == CHOOSE f : f = [k \in 0 .. n |-> next(f, k)]
           T == {m \in Nat : \E f \in [0 .. m -> Ending] : \A k \in 0 .. m : f[k] = next(f, k)}
<1>1. 0 \in T
  <2> DEFINE f == [k \in 0 .. 0 |-> st]
  <2>1. f \in [0 .. 0 -> Ending] /\ \A k \in 0 .. 0 : f[k] = st /\ k = 0
    OBVIOUS
  <2> HIDE DEF f
  <2>2. \A k \in 0 .. 0 : f[k] = next(f, k)
    BY <2>1
  <2> QED
    BY <2>1, <2>2
<1>2. ASSUME NEW m \in 0 .. n - 1, m \in T
      PROVE  m + 1 \in T
  <2>1. PICK f \in [0 .. m -> Ending] : \A k \in 0 .. m : f[k] = next(f, k)
    BY <1>2
  <2> DEFINE g == [k \in 0 .. m + 1 |-> next(f, k)]
  <2>2. /\ m \in Nat /\ m + 1 \in Nat
        /\ \A k \in 0 .. m : k \in 0 .. m + 1 /\ (k # 0 => k - 1 \in 0 .. m)
        /\ \A k \in 0 .. m + 1 : k # 0 => k - 1 \in 0 .. m /\ k \in 1 .. n
    OBVIOUS
  <2>3. \A k \in 0 .. m + 1 : next(f, k) \in Ending
    <3> SUFFICES ASSUME NEW k \in 0 .. m + 1, k # 0
                 PROVE  AppendSize(f[k - 1], l, ns[k].size) \in Ending
      OBVIOUS
    <3>1. f[k - 1] \in Ending /\ ns[k].size \in Nat
      BY <2>2
    <3> QED
      BY <3>1, SizeAppended
  <2>4. g \in [0 .. m + 1 -> Ending]
    BY <2>3
  <2>5. \A k \in 0 .. m : g[k] = f[k]
    <3> HIDE DEF next
    <3> QED
      BY <2>1, <2>2
  <2>6. \A k \in 0 .. m + 1 : g[k] = next(f, k)
    <3> HIDE DEF next
    <3> QED
      OBVIOUS
  <2> HIDE DEF g
  <2>7. \A k \in 0 .. m + 1 : next(f, k) = next(g, k)
    BY <2>2, <2>5
  <2> HIDE DEF next
  <2>8. \A k \in 0 .. m + 1 : g[k] = next(g, k)
    BY <2>6, <2>7
  <2> QED
    BY <2>2, <2>4, <2>8
<1>3. n \in T
  <2> HIDE DEF T
  <2> QED
    BY <1>1, <1>2, IntervalInduction, n \in 0 .. n
<1>4. PICK f \in [0 .. n -> Ending] : \A k \in 0 .. n : f[k] = next(f, k)
  BY <1>3
<1>5. loop = [k \in 0 .. n |-> next(loop, k)]
  <2> HIDE DEF next
  <2>1. f = [k \in 0 .. n |-> next(f, k)]
    BY <1>4
  <2> QED
    BY <2>1
<1>6. AppendLinestringOffsets(st, ns, l) = loop[n]
  BY DEF AppendLinestringOffsets
<1> HIDE DEF loop
<1>7. \A k \in 0 .. n : loop[k] = next(loop, k)
  <2> HIDE DEF next
  <2> QED
    BY <1>5
<1>8. /\ loop[0] = st
      /\ \A k \in 1 .. n : loop[k] = AppendSize(loop[k - 1], l, ns[k].size)
  <2>1. 0 \in 0 .. n /\ \A k \in 1 .. n : k \in 0 .. n /\ k # 0
    OBVIOUS
  <2> QED
    BY <1>7, <2>1
<1> DEFINE U == {k \in 0 .. n : loop[k] \in Ending}
<1>9. 0 \in U
  BY <1>8
<1>10. ASSUME NEW k \in 0 .. n - 1, k \in U
       PROVE  k + 1 \in U
  <2>1. k + 1 \in 1 .. n /\ (k + 1) - 1 = k /\ k + 1 \in 0 .. n
    OBVIOUS
  <2>2. ns[k + 1].size \in Nat /\ loop[k + 1] = AppendSize(loop[k], l, ns[k + 1].size)
    BY <1>8, <2>1
  <2>3. loop[k] \in Ending
    BY <1>10
  <2> QED
    BY <2>1, <2>2, <2>3, SizeAppended
<1>11. \A k \in 0 .. n : k \in U
  <2> HIDE DEF U
  <2> QED
    BY <1>9, <1>10, IntervalInduction
<1>12. loop \in [0 .. n -> Ending]
  <2>1. loop = [k \in 0 .. n |-> loop[k]]
    <3> HIDE DEF next
    <3> QED
      BY <1>5
  <2> QED
    BY <1>11, <2>1
<1>13. LoopOf(loop, st, l, ns)
  BY <1>6, <1>8, <1>12 DEF LoopOf
<1> QED
  BY <1>13

(* The nodes are as long as the lists. *)
Sized(ns, lists) ==
  Len(ns) = Len(lists) /\ \A k \in 1 .. Len(lists) : ns[k].size = Len(lists[k])

(* A list that has one element more of u. *)
LEMMA OneMoreList ==
  ASSUME NEW W, NEW c \in Seq(W), NEW u \in Seq(W), NEW i \in 0 .. Len(u) - 1, NEW x, x = u[i + 1]
  PROVE  Append(c \o SubSeq(u, 1, i), x) = c \o SubSeq(u, 1, i + 1)
<1>1. SubSeq(u, 1, i) \in Seq(W) /\ x \in W
  OBVIOUS
<1>2. << x >> \in Seq(W)
  BY <1>1
<1>3. PICK d \in Seq(W), e \in Seq(W) : d = SubSeq(u, 1, i) /\ e = << x >>
  BY <1>1, <1>2, Zenon
<1>4. SubSeq(u, 1, i + 1) = d \o e
  BY <1>3, OneLonger
<1>5. c \o d \in Seq(W)
  OBVIOUS
<1>6. Append(c \o d, x) = (c \o d) \o e
  BY <1>1, <1>3, <1>5, AppendIsConcat
<1>7. (c \o d) \o e = c \o (d \o e)
  <2>1. Associates(W)
    BY JoinAssociates
  <2> QED
    BY <2>1 DEF Associates
<1> QED
  BY <1>3, <1>4, <1>6, <1>7

(* Level l has n lists more, and no other level has. *)
ListsCounted(r, st, l, n) ==
  r \in Ending /\ Apart(r, st, l) /\ Len(r.offsets[l]) = Len(st.offsets[l]) + n

(* All lists are appended. *)
ListedAll(r, st, l, s, lists) ==
  LET t == s \o FlattenSeq(lists)
  IN Ends(r, l, t) /\ Cut(t, r.offsets[l]) = Cut(s, st.offsets[l]) \o lists

(* Whatever the offsets, the level has an offset more for every list. *)
LEMMA LinesCount ==
  ASSUME NativeAssumption, NEW st \in Ending, NEW l \in Lvl, NEW ns, NEW S,
         NEW lists \in Seq(Seq(S)), Sized(ns, lists)
  PROVE  ListsCounted(AppendLinestringOffsets(st, ns, l), st, l, Len(lists))
<1>1. PICK n, c : n = Len(lists) /\ c = Len(st.offsets[l])
  OBVIOUS
<1>2. n \in Nat /\ Len(ns) = n /\ \A k \in 1 .. n : ns[k].size \in Nat
  <2>1. \A k \in 1 .. n : lists[k] \in Seq(S)
    BY <1>1
  <2>2. \A k \in 1 .. n : Len(lists[k]) \in Nat
    BY <2>1
  <2> QED
    BY <1>1, <2>2 DEF Sized
<1>3. c \in Nat
  BY <1>1 DEF Ending
<1>a. PICK f : LoopOf(f, st, l, ns)
  BY <1>2, LinesLoop
<1>4. /\ f \in [0 .. n -> Ending] /\ f[0] = st
      /\ \A k \in 1 .. n : f[k] = AppendSize(f[k - 1], l, ns[k].size)
      /\ AppendLinestringOffsets(st, ns, l) = f[n]
  BY <1>2, <1>a DEF LoopOf
<1> DEFINE T == {k \in 0 .. n : Apart(f[k], st, l) /\ Len(f[k].offsets[l]) = c + k}
<1>5. 0 \in T
  BY <1>1, <1>2, <1>3, <1>4 DEF Apart
<1>6. ASSUME NEW k \in 0 .. n - 1, k \in T
      PROVE  k + 1 \in T
  <2>1. k + 1 \in 1 .. n /\ (k + 1) - 1 = k /\ k + 1 \in 0 .. n /\ k \in 0 .. n
    BY <1>2
  <2>a. f[k] \in Ending /\ ns[k + 1].size \in Nat
    BY <1>2, <1>4, <2>1
  <2>b. PICK p, q, m : p = f[k] /\ q = f[k + 1] /\ m = ns[k + 1].size
    OBVIOUS
  <2>2. p \in Ending /\ m \in Nat /\ p = f[k] /\ q = f[k + 1] /\ m = ns[k + 1].size
    BY <2>a, <2>b
  <2>3. q = AppendSize(p, l, m)
    BY <1>4, <2>1, <2>2
  <2>4. Apart(q, p, l) /\ Len(q.offsets[l]) = Len(p.offsets[l]) + 1
    BY <2>2, <2>3, SMTT(30), SizeAppended
  <2>5. Apart(p, st, l) /\ Len(p.offsets[l]) = c + k
    BY <1>6, <2>2
  <2>6. Apart(q, st, l)
    BY <2>4, <2>5 DEF Apart
  <2>7. Len(q.offsets[l]) = c + (k + 1)
    BY <1>3, <2>4, <2>5
  <2> QED
    BY <2>1, <2>2, <2>6, <2>7
<1>7. n \in T
  <2> HIDE DEF T
  <2> QED
    BY <1>2, <1>5, <1>6, IntervalInduction, n \in 0 .. n
<1> QED
  BY <1>1, <1>2, <1>4, <1>7 DEF ListsCounted

(* The sequences that a loop appends, as long as they can be counted.      *)
LEMMA LinesAppended ==
  ASSUME NativeAssumption, NEW st \in Ending, NEW l \in Lvl, NEW ns, NEW S,
         NEW lists \in Seq(Seq(S)), Sized(ns, lists), NEW s \in Seq(S), Ends(st, l, s),
         Len(s) + Len(FlattenSeq(lists)) <= MaxOffset
  PROVE  ListedAll(AppendLinestringOffsets(st, ns, l), st, l, s, lists)
<1>1. PICK n, c, W : n = Len(lists) /\ c = Cut(s, st.offsets[l]) /\ W = Seq(S)
  OBVIOUS
<1>2. n \in Nat /\ Len(ns) = n /\ \A k \in 1 .. n : ns[k].size \in Nat
  <2>1. \A k \in 1 .. n : lists[k] \in Seq(S)
    BY <1>1
  <2>2. \A k \in 1 .. n : Len(lists[k]) \in Nat
    BY <2>1
  <2> QED
    BY <1>1, <2>2 DEF Sized
<1>3. c \in Seq(W) /\ lists \in Seq(W) /\ Associates(W) /\ Associates(S)
  BY <1>1, CutTyped, JoinAssociates DEF Ends
<1>a. PICK f : LoopOf(f, st, l, ns)
  BY <1>2, LinesLoop
<1>4. /\ f \in [0 .. n -> Ending] /\ f[0] = st
      /\ \A k \in 1 .. n : f[k] = AppendSize(f[k - 1], l, ns[k].size)
      /\ AppendLinestringOffsets(st, ns, l) = f[n]
  BY <1>2, <1>a DEF LoopOf
<1>5. PICK g \in [0 .. n -> Seq(S)] :
           /\ g[0] = << >>
           /\ \A i \in 1 .. n : g[i] = g[i - 1] \o lists[i]
           /\ FlattenSeq(lists) = g[n]
  BY <1>1, FlattenSteps
<1> DEFINE Done(k) ==
             /\ Ends(f[k], l, s \o g[k])
             /\ Cut(s \o g[k], f[k].offsets[l]) = c \o SubSeq(lists, 1, k)
           T == {k \in 0 .. n : Len(s) + Len(g[k]) <= MaxOffset => Done(k)}
<1>6. 0 \in T
  <2>1. s \o g[0] = s /\ c \o SubSeq(lists, 1, 0) = c
    <3>1. s \o << >> = s /\ c \o << >> = c /\ SubSeq(lists, 1, 0) = << >>
      BY <1>3
    <3> QED
      BY <1>5, <3>1
  <2>2. Done(0)
    BY <1>1, <1>4, <2>1
  <2> QED
    BY <1>2, <2>2
<1>7. ASSUME NEW k \in 0 .. n - 1, k \in T
      PROVE  k + 1 \in T
  <2>1. k + 1 \in 1 .. n /\ (k + 1) - 1 = k /\ k + 1 \in 0 .. n /\ k \in 0 .. n
    BY <1>2
  <2>a. lists[k + 1] \in Seq(S) /\ g[k] \in Seq(S) /\ g[k + 1] \in Seq(S)
    <3>1. lists[k + 1] \in Seq(S)
      BY <1>1, <2>1
    <3> QED
      BY <2>1, <3>1
  <2>2. PICK x \in Seq(S), a \in Seq(S), b \in Seq(S) :
             x = lists[k + 1] /\ a = g[k] /\ b = g[k + 1]
    BY <2>a, Zenon
  <2>3. b = a \o x
    BY <1>5, <2>1, <2>2
  <2>4. SUFFICES ASSUME Len(s) + Len(b) <= MaxOffset
                 PROVE  Done(k + 1)
    BY <2>1, <2>2
  <2>5. PICK sa \in Seq(S) : sa = s \o a
    <3>1. s \o a \in Seq(S)
      BY ConcatProperties
    <3> QED
      BY <3>1
  <2>6. sa \o x = s \o b
    BY <1>3, <2>3, <2>5 DEF Associates
  <2>7. /\ Len(b) = Len(a) + Len(x) /\ Len(sa) = Len(s) + Len(a)
        /\ Len(a) \in Nat /\ Len(x) \in Nat /\ Len(s) \in Nat
    BY <2>3, <2>5
  <2>8. Len(s) + Len(a) <= MaxOffset /\ Len(sa) + Len(x) <= MaxOffset
    BY <2>4, <2>7 DEF NativeAssumption
  <2>9. Done(k)
    BY <1>7, <2>2, <2>8
  <2>b. PICK p \in Ending : p = f[k]
    BY <1>4, <2>1
  <2>c. PICK q : q = f[k + 1]
    OBVIOUS
  <2>10. p = f[k] /\ q = f[k + 1]
    BY <2>b, <2>c
  <2>11. Ends(p, l, sa) /\ Cut(sa, p.offsets[l]) = c \o SubSeq(lists, 1, k)
    BY <2>2, <2>5, <2>9, <2>10
  <2>12. q = AppendSize(p, l, Len(x))
    <3>1. ns[k + 1].size = Len(x)
      BY <1>1, <2>1, <2>2 DEF Sized
    <3> QED
      BY <1>4, <2>1, <2>10, <3>1
  <2>13. /\ Ends(q, l, sa \o x)
         /\ Cut(sa \o x, q.offsets[l]) = Append(Cut(sa, p.offsets[l]), x)
    <3> HIDE DEF T, Done
    <3>1. Listed(AppendSize(p, l, Len(x)), p, l, sa, x)
      BY <2>8, <2>11, ListAppended
    <3> QED
      BY <2>12, <3>1 DEF Listed
  <2>14. Append(c \o SubSeq(lists, 1, k), x) = c \o SubSeq(lists, 1, k + 1)
    <3>1. k \in 0 .. Len(lists) - 1 /\ x = lists[k + 1]
      BY <1>1, <2>2
    <3> QED
      BY <1>3, <3>1, OneMoreList
  <2> QED
    BY <2>2, <2>6, <2>10, <2>11, <2>13, <2>14
<1>8. n \in T
  <2> HIDE DEF T
  <2> QED
    BY <1>2, <1>6, <1>7, IntervalInduction, n \in 0 .. n
<1>9. Done(n)
  BY <1>5, <1>8
<1>10. SubSeq(lists, 1, n) = lists
  BY <1>1
<1> QED
  BY <1>1, <1>4, <1>5, <1>9, <1>10 DEF ListedAll

(* Two levels: lists of lists of the elements of s. *)
EndsTwice(st, l, s) == Ends(st, l + 1, s) /\ Ends(st, l, Cut(s, st.offsets[l + 1]))

(* Levels l and l + 1 have 1 and n lists more, and no other has.           *)
MoreLists(r, st, l, n) ==
  /\ \A k \in Lvl \ {l, l + 1} : r.offsets[k] = st.offsets[k] /\ r.last[k] = st.last[k]
  /\ r.offsets[l] = AppendSize(st, l, n).offsets[l] /\ r.last[l] = AppendSize(st, l, n).last[l]
  /\ Len(r.offsets[l]) = Len(st.offsets[l]) + 1
  /\ Len(r.offsets[l + 1]) = Len(st.offsets[l + 1]) + n

(* A list of all lists is appended. *)
ListedTwice(r, st, l, s, lists) ==
  LET t == s \o FlattenSeq(lists)
      below == Cut(s, st.offsets[l + 1]) \o lists
  IN /\ EndsTwice(r, l, t) /\ Cut(t, r.offsets[l + 1]) = below
     /\ Cut(below, r.offsets[l]) = Append(Cut(Cut(s, st.offsets[l + 1]), st.offsets[l]), lists)

(* So does the lower level after a polygon, the upper one has one more. *)
LEMMA PolygonCounts ==
  ASSUME NativeAssumption, NEW st \in Ending, NEW l \in 0 .. 1, NEW geom, NEW i, NEW S,
         NEW lists \in Seq(Seq(S)), Sized(Sequel(geom, i), lists),
         geom[i].size = Len(lists)
  PROVE  /\ AppendPolygonOffsets(st, geom, i, l) \in Ending
         /\ MoreLists(AppendPolygonOffsets(st, geom, i, l), st, l, Len(lists))
<1>1. PICK p, q, n : /\ p = AppendSize(st, l, n) /\ n = Len(lists)
                     /\ q = AppendPolygonOffsets(st, geom, i, l)
  OBVIOUS
<1>2. /\ l \in Lvl /\ l + 1 \in Lvl /\ l + 1 # l /\ n \in Nat
  BY <1>1 DEF Lvl
<1>3. p \in Ending /\ Apart(p, st, l) /\ Len(p.offsets[l]) = Len(st.offsets[l]) + 1
  BY <1>1, <1>2, SizeAppended
<1>4. q = AppendLinestringOffsets(p, Sequel(geom, i), l + 1)
  BY <1>1 DEF AppendPolygonOffsets
<1>5. ListsCounted(q, p, l + 1, n)
  BY <1>1, <1>2, <1>3, <1>4, LinesCount
<1>6. MoreLists(q, st, l, n)
  BY <1>1, <1>2, <1>3, <1>5 DEF MoreLists, Apart, ListsCounted
<1> QED
  BY <1>1, <1>5, <1>6 DEF ListsCounted

(* A polygon is one list more, of its rings, of its coordinates. *)
LEMMA PolygonAppended ==
  ASSUME NativeAssumption, NEW st \in Ending, NEW l \in 0 .. 1, NEW geom, NEW i, NEW S,
         NEW lists \in Seq(Seq(S)), Sized(Sequel(geom, i), lists),
         geom[i].size = Len(lists), NEW s \in Seq(S), EndsTwice(st, l, s),
         Len(Cut(s, st.offsets[l + 1])) + Len(lists) <= MaxOffset,
         Len(s) + Len(FlattenSeq(lists)) <= MaxOffset
  PROVE  ListedTwice(AppendPolygonOffsets(st, geom, i, l), st, l, s, lists)
<1>1. PICK p, q, n : /\ p = AppendSize(st, l, n) /\ n = Len(lists)
                     /\ q = AppendPolygonOffsets(st, geom, i, l)
  OBVIOUS
<1>2. /\ l \in Lvl /\ l + 1 \in Lvl /\ l + 1 # l /\ n \in Nat
  BY <1>1 DEF Lvl
<1>3. p \in Ending /\ Apart(p, st, l)
  BY <1>1, <1>2, SizeAppended
<1>4. q = AppendLinestringOffsets(p, Sequel(geom, i), l + 1)
  BY <1>1 DEF AppendPolygonOffsets
<1>5. PICK c, W, t, below : /\ c = Cut(s, st.offsets[l + 1]) /\ W = Seq(S)
                            /\ t = s \o FlattenSeq(lists) /\ below = c \o lists
  OBVIOUS
<1>6. /\ Ends(st, l + 1, s) /\ Ends(st, l, c)
  BY <1>5 DEF EndsTwice
<1>7. c \in Seq(W) /\ lists \in Seq(W)
  BY <1>5, <1>6, CutTyped DEF Ends
<1>8. Listed(p, st, l, c, lists)
  BY <1>1, <1>2, <1>5, <1>6, <1>7, ListAppended
<1>9. Ends(p, l, below) /\ Cut(below, p.offsets[l]) = Append(Cut(c, st.offsets[l]), lists)
  BY <1>5, <1>8 DEF Listed
<1>10. Ends(p, l + 1, s) /\ p.offsets[l + 1] = st.offsets[l + 1]
  BY <1>2, <1>3, <1>6 DEF Apart, Ends
<1>11. Ends(q, l + 1, t) /\ Cut(t, q.offsets[l + 1]) = Cut(s, p.offsets[l + 1]) \o lists
  <2>1. PICK k, ns : k = l + 1 /\ ns = Sequel(geom, i)
    OBVIOUS
  <2>2. k \in Lvl /\ Sized(ns, lists) /\ Ends(p, k, s) /\ q = AppendLinestringOffsets(p, ns, k)
    BY <1>2, <1>4, <1>10, <2>1
  <2>3. ListedAll(q, p, k, s, lists)
    BY <1>3, <1>5, <2>2, LinesAppended
  <2> QED
    BY <1>5, <2>1, <2>3 DEF ListedAll
<1>12. Cut(t, q.offsets[l + 1]) = below
  BY <1>5, <1>10, <1>11
<1>13. q.offsets[l] = p.offsets[l] /\ q.last[l] = p.last[l]
  <2>1. Apart(q, p, l + 1)
    BY <1>2, <1>3, <1>4, LinesCount DEF ListsCounted
  <2> QED
    BY <1>2, <2>1 DEF Apart
<1>14. Ends(q, l, below) /\ Cut(below, q.offsets[l]) = Append(Cut(c, st.offsets[l]), lists)
  BY <1>9, <1>13 DEF Ends
<1>15. EndsTwice(q, l, t)
  BY <1>11, <1>12, <1>14 DEF EndsTwice
<1> QED
  BY <1>1, <1>5, <1>12, <1>14, <1>15 DEF ListedTwice

(* What follows a node of a well-formed geometry.                          *)
LEMMA PartOfSome ==
  ASSUME NEW ns \in Seq(NodeSet), WellFormed(ns), NEW i \in 2 .. Len(ns)
  PROVE  \E p \in 1 .. i - 1 : i \in Parts(ns, p) /\ ns[i].type \in PartTypes(ns[p].type)
BY DEF WellFormed

(* What the parts of the types that are appended may be. *)
LEMMA PartTypesAre ==
  /\ PartTypes(POLYGON) = {RING} /\ PartTypes(MULTIPOINT) = {POINT}
  /\ PartTypes(MULTILINESTRING) = {LINESTRING} /\ PartTypes(MULTIPOLYGON) = {POLYGON}
  /\ PartTypes(POINT) = {} /\ PartTypes(LINESTRING) = {} /\ PartTypes(RING) = {}
BY DEF PartTypes, HoldsCoords, POLYGON, MULTIPOINT, MULTILINESTRING, MULTIPOLYGON,
   GEOMETRYCOLLECTION, POINT, LINESTRING, RING

(* A sequence or a point is the only node.                                 *)
LEMMA Alone ==
  ASSUME NEW ns \in Seq(NodeSet), WellFormed(ns), ns # << >>, HoldsCoords(ns[1].type)
  PROVE  Len(ns) = 1
<1>0. PICK n : n = Len(ns)
  OBVIOUS
<1>1. n \in Nat /\ n # 0
  BY <1>0, EmptySeq
<1>2. ASSUME n >= 2
      PROVE  FALSE
  <2>1. 2 \in 2 .. Len(ns) /\ 1 .. 2 - 1 = {1}
    BY <1>0, <1>1, <1>2
  <2>2. ns[2].type \in PartTypes(ns[1].type)
    BY <2>1, PartOfSome
  <2>3. PartTypes(ns[1].type) = {}
    BY PartTypesAre DEF HoldsCoords
  <2> QED
    BY <2>2, <2>3
<1>3. n = 1
  BY <1>1, <1>2
<1> QED
  BY <1>0, <1>3

(* All others are parts of the first node, if those have no parts.         *)
LEMMA PartsOfFirst ==
  ASSUME NEW ns \in Seq(NodeSet), WellFormed(ns), ns # << >>,
         ns[1].type \in {POLYGON, MULTILINESTRING}
  PROVE  /\ Len(ns) >= 1 /\ Cardinality(Parts(ns, 1)) = Len(ns) - 1
         /\ \A k \in 2 .. Len(ns) : ns[k].type \in {RING, LINESTRING}
<1>1. PICK n : n = Len(ns)
  OBVIOUS
<1>2. n \in Nat /\ n >= 1
  BY <1>1, EmptySeq
<1> DEFINE ts == PartTypes(ns[1].type)
           Bad == {k \in 2 .. n : ns[k].type \notin ts}
<1>3. ts \subseteq {RING, LINESTRING} /\ \A t \in ts : PartTypes(t) = {}
  BY PartTypesAre
<1>4. Bad = {}
  <2> SUFFICES ASSUME Bad # {}
               PROVE  FALSE
    OBVIOUS
  <2>1. Bad \in SUBSET Nat
    BY <1>2
  <2>2. PICK k \in Bad : \A j \in Bad : k <= j
    <3> HIDE DEF Bad
    <3> QED
      BY <2>1, Least
  <2>3. k \in 2 .. n /\ ns[k].type \notin ts
    OBVIOUS
  <2>4. PICK p \in 1 .. k - 1 : ns[k].type \in PartTypes(ns[p].type)
    BY <1>1, <2>3, PartOfSome
  <2>5. CASE p = 1
    BY <2>3, <2>4, <2>5
  <2>6. CASE p # 1
    <3>1. p \in 2 .. n /\ p < k
      BY <1>2, <2>3, <2>6
    <3>2. p \notin Bad
      <4> HIDE DEF Bad
      <4> QED
        BY <2>2, <2>3, <3>1
    <3>3. ns[p].type \in ts
      BY <3>1, <3>2
    <3> QED
      BY <1>3, <2>4, <3>3
  <2> QED
    BY <2>5, <2>6
<1>5. \A k \in 2 .. n : ns[k].type \in ts
  BY <1>4
<1>6. Parts(ns, 1) = 2 .. n
  <2>1. Parts(ns, 1) \subseteq 2 .. n
    BY <1>1 DEF Parts
  <2>2. ASSUME NEW k \in 2 .. n
        PROVE  k \in Parts(ns, 1)
    <3>1. PICK p \in 1 .. k - 1 : k \in Parts(ns, p) /\ ns[k].type \in PartTypes(ns[p].type)
      BY <1>1, PartOfSome
    <3>2. ASSUME p # 1
          PROVE  FALSE
      <4>1. p \in 2 .. n
        BY <1>2, <3>2
      <4>2. ns[p].type \in ts
        BY <1>5, <4>1
      <4>3. PartTypes(ns[p].type) = {}
        BY <1>3, <4>2
      <4> QED
        BY <3>1, <4>3
    <3> QED
      BY <3>1, <3>2
  <2> QED
    BY <2>1, <2>2
<1>7. Cardinality(2 .. n) = n - 1
  BY <1>2, FS_Interval
<1> QED
  BY <1>1, <1>2, <1>3, <1>5, <1>6, <1>7

(* The nodes after a multipolygon: polygons, which are its parts, and the  *)
(* rings of a polygon right after it.                                      *)
PolygonOrRing(ns, k) ==
  \/ ns[k].type = POLYGON /\ k \in Parts(ns, 1)
  \/ /\ ns[k].type = RING
     /\ \E p \in 2 .. k - 1 : ns[p].type = POLYGON /\ k \in Parts(ns, p)

(* A multipolygon has polygons and rings under it. *)
LEMMA NodesOfPolygons ==
  ASSUME NEW ns \in Seq(NodeSet), WellFormed(ns), ns # << >>, ns[1].type = MULTIPOLYGON
  PROVE  \A k \in 2 .. Len(ns) : PolygonOrRing(ns, k)
<1>1. PICK n : n = Len(ns)
  OBVIOUS
<1>2. n \in Nat /\ n >= 1
  BY <1>1, EmptySeq
<1> DEFINE Bad == {k \in 2 .. n : ~PolygonOrRing(ns, k)}
<1>3. Bad = {}
  <2> SUFFICES ASSUME Bad # {}
               PROVE  FALSE
    OBVIOUS
  <2>1. Bad \in SUBSET Nat
    BY <1>2
  <2>2. PICK k \in Bad : \A j \in Bad : k <= j
    <3> HIDE DEF Bad
    <3> QED
      BY <2>1, Least
  <2>3. k \in 2 .. n /\ ~PolygonOrRing(ns, k)
    OBVIOUS
  <2>4. PICK p \in 1 .. k - 1 : k \in Parts(ns, p) /\ ns[k].type \in PartTypes(ns[p].type)
    BY <1>1, <2>3, PartOfSome
  <2>5. CASE p = 1
    <3>1. ns[k].type = POLYGON
      BY <2>4, <2>5, PartTypesAre
    <3> QED
      BY <2>3, <2>4, <2>5, <3>1 DEF PolygonOrRing
  <2>6. CASE p # 1
    <3>1. p \in 2 .. n /\ p < k /\ p \in 2 .. k - 1
      BY <1>2, <2>3, <2>6
    <3>2. p \notin Bad
      <4> HIDE DEF Bad
      <4> QED
        BY <2>2, <2>3, <3>1
    <3>3. ns[p].type \in {POLYGON, RING}
      BY <3>1, <3>2 DEF PolygonOrRing
    <3>4. ns[p].type = POLYGON /\ ns[k].type = RING
      BY <2>4, <3>3, PartTypesAre
    <3> QED
      BY <2>3, <2>4, <3>1, <3>4 DEF PolygonOrRing
  <2> QED
    BY <2>5, <2>6
<1> QED
  BY <1>1, <1>3

(* Polygons are one level deeper than the multipolygon, rings two.         *)
LEMMA LevelsOfPolygons ==
  ASSUME NEW ns \in Seq(NodeSet), WellFormed(ns), ns # << >>, ns[1].type = MULTIPOLYGON
  PROVE  /\ ns[1].level \in Nat
         /\ \A k \in 2 .. Len(ns) :
              \/ ns[k].type = POLYGON /\ ns[k].level = ns[1].level + 1 /\ k \in Parts(ns, 1)
              \/ ns[k].type = RING /\ ns[k].level = ns[1].level + 2
<1>1. PICK n : n = Len(ns)
  OBVIOUS
<1>2. n \in Nat /\ n >= 1
  BY <1>1, EmptySeq
<1>3. ns[1].level \in Nat
  <2>1. ns[1] \in NodeSet
    BY <1>1, <1>2
  <2> QED
    BY <2>1 DEF NodeSet
<1>4. \A k \in 2 .. n : PolygonOrRing(ns, k)
  BY <1>1, NodesOfPolygons
<1>5. \A p, k : k \in Parts(ns, p) => ns[k].level = ns[p].level + 1
  BY DEF Parts
<1>6. POLYGON # RING
  BY DEF POLYGON, RING
<1>7. ASSUME NEW p \in 2 .. n, ns[p].type = POLYGON
      PROVE  ns[p].level = ns[1].level + 1 /\ p \in Parts(ns, 1)
  <2>1. p \in Parts(ns, 1)
    BY <1>4, <1>6, <1>7 DEF PolygonOrRing
  <2> QED
    BY <1>5, <2>1
<1>8. ASSUME NEW k \in 2 .. n, ns[k].type = RING
      PROVE  ns[k].level = ns[1].level + 2
  <2>1. PICK p \in 2 .. k - 1 : ns[p].type = POLYGON /\ k \in Parts(ns, p)
    BY <1>4, <1>6, <1>8 DEF PolygonOrRing
  <2>2. p \in 2 .. n
    BY <1>2
  <2>3. ns[p].level = ns[1].level + 1 /\ ns[k].level = ns[p].level + 1
    BY <1>5, <1>7, <2>1, <2>2
  <2> QED
    BY <1>3, <2>3
<1>9. \A k \in 2 .. n : ns[k].type = POLYGON \/ ns[k].type = RING
  BY <1>4 DEF PolygonOrRing
<1> QED
  BY <1>1, <1>3, <1>7, <1>8, <1>9

(* The parts of a polygon are the rings from it to the next polygon. *)
LEMMA RingsOfPolygon ==
  ASSUME NEW ns \in Seq(NodeSet), WellFormed(ns), ns # << >>, ns[1].type = MULTIPOLYGON,
         NEW p \in 2 .. Len(ns), ns[p].type = POLYGON
  PROVE  LET m == Cardinality(Parts(ns, p))
         IN /\ m \in Nat /\ p + m <= Len(ns)
            /\ \A k \in p + 1 .. p + m : ns[k].type = RING
            /\ p + m < Len(ns) => ns[p + m + 1].type = POLYGON
<1>1. PICK n, lv : n = Len(ns) /\ lv = ns[1].level
  OBVIOUS
<1>2. n \in Nat /\ p \in 2 .. n /\ lv \in Nat
  BY <1>1, LevelsOfPolygons
<1>3. \A k \in 2 .. n : \/ ns[k].type = POLYGON /\ ns[k].level = lv + 1
                        \/ ns[k].type = RING /\ ns[k].level = lv + 2
  BY <1>1, LevelsOfPolygons
<1>4. POLYGON # RING
  BY DEF POLYGON, RING
<1>5. ns[p].level = lv + 1
  BY <1>2, <1>3, <1>4
<1> DEFINE Next2 == {k \in p + 1 .. n + 1 : k = n + 1 \/ ns[k].type = POLYGON}
<1>6. PICK e \in Next2 : \A k \in Next2 : e <= k
  <2>1. Next2 \in SUBSET Nat /\ n + 1 \in Next2
    BY <1>2
  <2> HIDE DEF Next2
  <2> QED
    BY <2>1, Least
<1>7. /\ e \in p + 1 .. n + 1 /\ e \in Nat
      /\ e # n + 1 => ns[e].type = POLYGON /\ e \in 2 .. n
  BY <1>2
<1>8. ASSUME NEW k \in p + 1 .. e - 1
      PROVE  ns[k].type = RING /\ ns[k].level = lv + 2 /\ k \in 2 .. n
  <2>1. k \in 2 .. n /\ k \in p + 1 .. n + 1 /\ ~(e <= k)
    BY <1>2, <1>7
  <2>2. k \notin Next2
    <3> HIDE DEF Next2
    <3> QED
      BY <1>6, <2>1
  <2>3. ns[k].type # POLYGON
    BY <2>1, <2>2
  <2> QED
    BY <1>3, <2>1, <2>3
<1>9. Parts(ns, p) = p + 1 .. e - 1
  <2>1. ASSUME NEW j \in Parts(ns, p)
        PROVE  j \in p + 1 .. e - 1
    <3>1. /\ j \in p + 1 .. n /\ ns[j].level = ns[p].level + 1
          /\ \A k \in p + 1 .. j : ns[k].level > ns[p].level
      BY <1>1 DEF Parts
    <3>2. ASSUME e <= j
          PROVE  FALSE
      <4>1. e # n + 1 /\ e \in p + 1 .. j
        BY <1>2, <1>7, <3>1, <3>2
      <4>2. ns[e].level = lv + 1
        BY <1>3, <1>4, <1>7, <4>1
      <4>3. ns[e].level > ns[p].level
        BY <3>1, <4>1
      <4> QED
        BY <1>2, <1>5, <4>2, <4>3
    <3> QED
      BY <1>2, <1>7, <3>1, <3>2
  <2>2. ASSUME NEW j \in p + 1 .. e - 1
        PROVE  j \in Parts(ns, p)
    <3>1. j \in p + 1 .. n /\ ns[j].level = ns[p].level + 1
      BY <1>2, <1>5, <1>7, <1>8
    <3>2. ASSUME NEW k \in p + 1 .. j
          PROVE  ns[k].level > ns[p].level
      <4>1. k \in p + 1 .. e - 1
        BY <1>7
      <4>2. ns[k].level = lv + 2
        BY <1>8, <4>1
      <4> QED
        BY <1>2, <1>5, <4>2
    <3> QED
      BY <1>1, <3>1, <3>2 DEF Parts
  <2> QED
    BY <2>1, <2>2
<1>10. PICK m : m = e - 1 - p
  OBVIOUS
<1>11. m \in Nat /\ p + m = e - 1 /\ p + m + 1 = e /\ p + m <= n
  BY <1>2, <1>7, <1>10
<1>12. Cardinality(Parts(ns, p)) = m
  <2>1. Cardinality(p + 1 .. e - 1) = IF p + 1 > e - 1 THEN 0 ELSE (e - 1) - (p + 1) + 1
    BY <1>2, <1>7, FS_Interval
  <2> QED
    BY <1>2, <1>7, <1>9, <1>10, <2>1
<1>13. p + m < n => ns[p + m + 1].type = POLYGON
  BY <1>2, <1>7, <1>11
<1>14. \A k \in p + 1 .. p + m : ns[k].type = RING
  BY <1>8, <1>11
<1> QED
  BY <1>1, <1>11, <1>12, <1>13, <1>14

(* The parts of the multipolygon are its polygons, the first of them first. *)
LEMMA PolygonsOfMulti ==
  ASSUME NEW ns \in Seq(NodeSet), WellFormed(ns), ns # << >>, ns[1].type = MULTIPOLYGON
  PROVE  /\ Parts(ns, 1) = {k \in 2 .. Len(ns) : ns[k].type = POLYGON}
         /\ Len(ns) >= 2 => ns[2].type = POLYGON
<1>1. PICK n, lv : n = Len(ns) /\ lv = ns[1].level
  OBVIOUS
<1>2. n \in Nat /\ lv \in Nat
  BY <1>1, LevelsOfPolygons
<1>3. \A k \in 2 .. n : \/ ns[k].type = POLYGON /\ ns[k].level = lv + 1 /\ k \in Parts(ns, 1)
                        \/ ns[k].type = RING /\ ns[k].level = lv + 2
  BY <1>1, LevelsOfPolygons
<1>4. POLYGON # RING
  BY DEF POLYGON, RING
<1>5. \A k \in Parts(ns, 1) : k \in 2 .. n /\ ns[k].level = lv + 1
  BY <1>1 DEF Parts
<1>6. \A k \in Parts(ns, 1) : ns[k].type = POLYGON
  <2> SUFFICES ASSUME NEW k \in Parts(ns, 1)
               PROVE  ns[k].type = POLYGON
    OBVIOUS
  <2>1. k \in 2 .. n /\ ns[k].level = lv + 1 /\ lv + 1 # lv + 2
    BY <1>2, <1>5
  <2> QED
    BY <1>3, <2>1
<1>7. Parts(ns, 1) = {k \in 2 .. n : ns[k].type = POLYGON}
  BY <1>3, <1>4, <1>5, <1>6
<1>8. ASSUME n >= 2
      PROVE  ns[2].type = POLYGON
  <2>1. 2 \in 2 .. n /\ 2 .. 2 - 1 = {}
    BY <1>2, <1>8
  <2>2. PolygonOrRing(ns, 2)
    BY <1>1, <2>1, NodesOfPolygons
  <2> QED
    BY <2>1, <2>2 DEF PolygonOrRing
<1> QED
  BY <1>1, <1>7, <1>8

(* The geometry that stands for the nodes. *)
LEMMA GeometryNodes ==
  ASSUME NEW ns \in Seq(NodeSet)
  PROVE  /\ Len(GeometryOf(ns)) = Len(ns) /\ AllCoords(GeometryOf(ns)) = AllCoords(ns)
         /\ \A i \in 1 .. Len(ns) :
              /\ GeometryOf(ns)[i].xs = ns[i].xs
              /\ GeometryOf(ns)[i].type = IF ns[i].type = RING THEN LINESTRING ELSE ns[i].type
              /\ GeometryOf(ns)[i].size = IF HoldsCoords(ns[i].type) THEN Len(ns[i].xs)
                                          ELSE Cardinality(Parts(ns, i))
<1>1. PICK n, g : n = Len(ns) /\ g = GeometryOf(ns)
  OBVIOUS
<1>2. n \in Nat /\ DOMAIN ns = 1 .. n
  BY <1>1
<1>3. g = [i \in 1 .. n |->
             GeometryNode(IF ns[i].type = RING THEN LINESTRING ELSE ns[i].type,
                          ns[i].dims, ns[i].level,
                          IF HoldsCoords(ns[i].type) THEN Len(ns[i].xs)
                          ELSE Cardinality(Parts(ns, i)), ns[i].xs)]
  BY <1>1, <1>2 DEF GeometryOf
<1>4. DOMAIN g = 1 .. n /\ Len(g) = n
  BY <1>2, <1>3
<1>5. ASSUME NEW i \in 1 .. n
      PROVE  /\ g[i].xs = ns[i].xs
             /\ g[i].type = IF ns[i].type = RING THEN LINESTRING ELSE ns[i].type
             /\ g[i].size = IF HoldsCoords(ns[i].type) THEN Len(ns[i].xs)
                            ELSE Cardinality(Parts(ns, i))
  BY <1>3 DEF GeometryNode
<1>6. Sequences(g) = Sequences(ns)
  BY <1>2, <1>4, <1>5 DEF Sequences
<1> QED
  BY <1>1, <1>4, <1>5, <1>6 DEF AllCoords

(* The parts of a node, however deep, are behind it. *)
LEMMA PartsBounded ==
  ASSUME NEW ns \in Seq(NodeSet), NEW i \in 1 .. Len(ns)
  PROVE  Cardinality(Parts(ns, i)) \in Nat /\ i + Cardinality(Parts(ns, i)) <= Len(ns)
<1>1. PICK n, s : n = Len(ns) /\ s = Parts(ns, i)
  OBVIOUS
<1>2. n \in Nat /\ i \in 1 .. n
  BY <1>1
<1>3. s \in SUBSET (i + 1 .. n)
  BY <1>1 DEF Parts
<1>4. IsFiniteSet(i + 1 .. n) /\ Cardinality(i + 1 .. n) = n - i
  <2>1. IsFiniteSet(i + 1 .. n)
    BY <1>2, FS_Interval
  <2>2. Cardinality(i + 1 .. n) = IF i + 1 > n THEN 0 ELSE n - (i + 1) + 1
    BY <1>2, FS_Interval
  <2> QED
    BY <1>2, <2>1, <2>2
<1>5. IsFiniteSet(s) /\ Cardinality(s) <= n - i
  <2>1. s \subseteq i + 1 .. n
    BY <1>3
  <2>2. IsFiniteSet(s) /\ Cardinality(s) <= Cardinality(i + 1 .. n)
    BY <1>4, <2>1, FS_Subset
  <2> QED
    BY <1>4, <2>2
<1>6. Cardinality(s) \in Nat
  BY <1>5, FS_CardinalityType
<1> QED
  BY <1>1, <1>2, <1>5, <1>6

(* A node that m sequences follow.                                         *)
Followed(ns, p, m) ==
  /\ p \in 1 .. Len(ns) /\ m \in Nat /\ p + m <= Len(ns) /\ GeometryOf(ns)[p].size = m
  /\ \A k \in p + 1 .. p + m : ns[k].type \in {RING, LINESTRING}

(* The lists of the parts of a node have the sizes its sequel says. *)
LEMMA SequencesAfter ==
  ASSUME NEW ns \in Seq(NodeSet), NEW p, NEW m, Followed(ns, p, m)
  PROVE  LET lists == After(Sequences(ns), p, m)
         IN /\ lists \in Seq(Seq(Nat)) /\ Len(lists) = m
            /\ Sized(Sequel(GeometryOf(ns), p), lists)
            /\ lists = Sequences(SubSeq(ns, p + 1, p + m))
<1>1. PICK n, g, u, ss, W : /\ n = Len(ns) /\ g = GeometryOf(ns) /\ ss = Sequences(ns)
                            /\ u = After(ss, p, m) /\ W = Seq(Nat)
  OBVIOUS
<1>2. /\ n \in Nat /\ p \in 1 .. n /\ m \in Nat /\ p + m <= n /\ g[p].size = m
      /\ \A k \in 1 .. m : p + k \in p + 1 .. p + m /\ p + k \in 1 .. n
      /\ \A k \in p + 1 .. p + m : ns[k].type \in {RING, LINESTRING}
  BY <1>1 DEF Followed
<1>3. ss \in Seq(W) /\ Len(ss) = n /\ \A i \in 1 .. n : ss[i] = ns[i].xs
  BY <1>1, SequencesType
<1>4. u \in Seq(W) /\ Len(u) = m /\ \A k \in 1 .. m : u[k] = ns[p + k].xs
  <2>1. \A k \in 1 .. m : ss[p + k] \in W /\ ss[p + k] = ns[p + k].xs
    BY <1>2, <1>3
  <2>2. u = [k \in 1 .. m |-> ss[p + k]]
    BY <1>1 DEF After
  <2>3. u \in [1 .. m -> W] /\ \A k \in 1 .. m : u[k] = ss[p + k]
    BY <2>1, <2>2
  <2>4. u \in Seq(W) /\ Len(u) = m
    BY <1>2, <2>3
  <2> QED
    BY <2>1, <2>3, <2>4
<1>5. \A k \in 1 .. m : g[p + k].size = Len(u[k])
  <2> SUFFICES ASSUME NEW k \in 1 .. m
               PROVE  g[p + k].size = Len(u[k])
    OBVIOUS
  <2>1. p + k \in 1 .. n /\ HoldsCoords(ns[p + k].type)
    BY <1>2 DEF HoldsCoords
  <2>2. g[p + k].size = Len(ns[p + k].xs)
    BY <1>1, <2>1, GeometryNodes
  <2> QED
    BY <1>4, <2>2
<1>6. PICK q : q = Sequel(g, p)
  OBVIOUS
<1>7. q = [k \in 1 .. m |-> g[p + k]] /\ Len(q) = m
  <2>1. q = SubSeq(g, p + 1, p + m)
    BY <1>2, <1>6 DEF Sequel
  <2>2. SubSeq(g, p + 1, p + m) = [k \in 1 .. (1 + (p + m) - (p + 1)) |-> g[k + (p + 1) - 1]]
    BY <1>2
  <2>3. 1 + (p + m) - (p + 1) = m /\ \A k \in 1 .. m : k + (p + 1) - 1 = p + k
    BY <1>2
  <2>4. q = [k \in 1 .. m |-> g[p + k]]
    BY <2>1, <2>2, <2>3
  <2> QED
    BY <1>2, <2>4
<1>8. Sized(q, u)
  BY <1>4, <1>5, <1>7 DEF Sized
<1>9. u = Sequences(SubSeq(ns, p + 1, p + m))
  <2>1. PICK v : v = SubSeq(ns, p + 1, p + m)
    OBVIOUS
  <2>2. v \in Seq(NodeSet) /\ Len(v) = m /\ \A k \in 1 .. m : v[k] = ns[p + k]
    <3> HIDE DEF NodeSet
    <3> QED
      BY <1>1, <1>2, <2>1
  <2>3. /\ Sequences(v) \in Seq(W) /\ Len(Sequences(v)) = m
        /\ \A k \in 1 .. m : Sequences(v)[k] = v[k].xs
    BY <1>1, <2>2, SequencesType
  <2>4. \A k \in 1 .. m : u[k] = Sequences(v)[k]
    BY <1>4, <2>2, <2>3
  <2>5. u = Sequences(v)
    BY <1>4, <2>3, <2>4, SeqEqual
  <2> QED
    BY <2>1, <2>5
<1> QED
  BY <1>1, <1>4, <1>6, <1>8, <1>9

(* The elements of the rows, and what they are.                            *)
Below(d, cs, os) ==
  IF d <= 1 THEN cs ELSE IF d = 2 THEN Cut(cs, os[1]) ELSE Cut(Cut(cs, os[2]), os[1])

(* What the elements of a row are, by the depth of the array. *)
ElementKind(d) == IF d = 1 THEN Nat ELSE IF d = 2 THEN Seq(Nat) ELSE Seq(Seq(Nat))

(* The lists under the rows end with the coordinates.                      *)
LowerSettled(d, st, cs) ==
  /\ d >= 2 => Ends(st, d - 1, cs)
  /\ d = 3 => Ends(st, 1, Cut(cs, st.offsets[2]))

(* So do the rows. *)
AllSettled(d, st, cs) ==
  (d >= 1 => Ends(st, 0, Below(d, cs, st.offsets))) /\ LowerSettled(d, st, cs)

(* ElementsCountable of any offsets. *)
Countable(d, cs, os) ==
  /\ d >= 1 => Len(cs) <= MaxOffset
  /\ d >= 2 => Len(os[1]) - 1 <= MaxOffset
  /\ d = 3 => Len(os[2]) - 1 <= MaxOffset

(* A list of the elements x is appended to the rows, and x under them.     *)
Adds(d, st, cs, r, ds, x) ==
  /\ r \in Ending /\ ds \in Seq(Nat) /\ Len(cs) <= Len(ds)
  /\ r.offsets[0] = AppendSize(st, 0, Len(x)).offsets[0]
  /\ r.last[0] = AppendSize(st, 0, Len(x)).last[0]
  /\ \A l \in 1 .. 2 : Len(st.offsets[l]) <= Len(r.offsets[l])
  /\ Countable(d, ds, r.offsets) /\ AllSettled(d, st, cs) =>
       /\ LowerSettled(d, r, ds)
       /\ Below(d, ds, r.offsets) = Below(d, cs, st.offsets) \o x

(* There is one row more, and it is x.                                     *)
MoreRows(d, st, cs, r, ds, x) ==
  /\ r \in Ending /\ ds \in Seq(Nat)
  /\ RowCount(d, ds, r.offsets) = RowCount(d, cs, st.offsets) + 1
  /\ Countable(d, ds, r.offsets) =>
       /\ Countable(d, cs, st.offsets)
       /\ AllSettled(d, st, cs) =>
            /\ AllSettled(d, r, ds)
            /\ Nested(d, ds, r.offsets) = Append(Nested(d, cs, st.offsets), x)

(* The elements of the rows are typed, and the offsets count them. *)
LEMMA BelowType ==
  ASSUME NEW d \in 1 .. 3, NEW st \in Ending, NEW cs \in Seq(Nat), LowerSettled(d, st, cs)
  PROVE  /\ Below(d, cs, st.offsets) \in Seq(ElementKind(d))
         /\ Len(Below(d, cs, st.offsets)) = IF d = 1 THEN Len(cs) ELSE Len(st.offsets[1]) - 1
<1>1. CASE d = 1
  BY <1>1 DEF Below, ElementKind
<1>2. CASE d = 2
  <2>1. Ends(st, 1, cs)
    BY <1>2 DEF LowerSettled
  <2>2. /\ Cut(cs, st.offsets[1]) \in Seq(Seq(Nat))
        /\ Len(Cut(cs, st.offsets[1])) = Len(st.offsets[1]) - 1
    BY <2>1, CutTyped DEF Ends
  <2> QED
    BY <1>2, <2>2 DEF Below, ElementKind
<1>3. CASE d = 3
  <2>1. Ends(st, 2, cs) /\ Ends(st, 1, Cut(cs, st.offsets[2]))
    BY <1>3 DEF LowerSettled
  <2>2. Cut(cs, st.offsets[2]) \in Seq(Seq(Nat))
    BY <2>1, CutTyped DEF Ends
  <2>3. PICK s, W : s = Cut(cs, st.offsets[2]) /\ W = Seq(Nat)
    OBVIOUS
  <2>4. s \in Seq(W) /\ Ends(st, 1, s)
    BY <2>1, <2>2, <2>3
  <2>5. /\ Cut(s, st.offsets[1]) \in Seq(Seq(W))
        /\ Len(Cut(s, st.offsets[1])) = Len(st.offsets[1]) - 1
    BY <2>4, CutTyped DEF Ends
  <2> QED
    BY <1>3, <2>3, <2>5 DEF Below, ElementKind
<1> QED
  BY <1>1, <1>2, <1>3

(* What Adds a list of elements adds a row, and changes no other. *)
LEMMA RowAppended ==
  ASSUME NativeAssumption, NEW d \in 1 .. 3, NEW st \in Ending, NEW cs \in Seq(Nat),
         NEW r, NEW ds, NEW x \in Seq(ElementKind(d)), Adds(d, st, cs, r, ds, x)
  PROVE  MoreRows(d, st, cs, r, ds, x)
<1>1. PICK q, m, K : q = AppendSize(st, 0, m) /\ m = Len(x) /\ K = ElementKind(d)
  OBVIOUS
<1>2. 0 \in Lvl /\ 1 \in Lvl /\ 2 \in Lvl /\ m \in Nat
  BY <1>1 DEF Lvl
<1>3. /\ q \in Ending /\ Len(q.offsets[0]) = Len(st.offsets[0]) + 1
  BY <1>1, <1>2, SizeAppended
<1>4. /\ r \in Ending /\ ds \in Seq(Nat) /\ Len(cs) <= Len(ds)
      /\ r.offsets[0] = q.offsets[0] /\ r.last[0] = q.last[0]
      /\ Len(st.offsets[1]) <= Len(r.offsets[1]) /\ Len(st.offsets[2]) <= Len(r.offsets[2])
  BY <1>1 DEF Adds
<1>5. /\ \A l \in Lvl : st.offsets[l] \in Seq(Int) /\ r.offsets[l] \in Seq(Int)
  BY <1>4 DEF Ending
<1>6. RowCount(d, ds, r.offsets) = RowCount(d, cs, st.offsets) + 1
  <2>1. /\ d # 0 /\ Len(r.offsets[0]) = Len(st.offsets[0]) + 1
    BY <1>3, <1>4
  <2>2. st.offsets[0] \in Seq(Int)
    BY <1>2, <1>5
  <2>3. PICK a : a = Len(st.offsets[0])
    OBVIOUS
  <2>4. a \in Nat
    BY <2>2, <2>3
  <2>5. RowCount(d, ds, r.offsets) = (a + 1) - 1 /\ RowCount(d, cs, st.offsets) = a - 1
    BY <2>1, <2>3 DEF RowCount
  <2> QED
    BY <2>4, <2>5
<1>7. ASSUME Countable(d, ds, r.offsets)
      PROVE  Countable(d, cs, st.offsets)
  <2>1. PICK a, b, c, e, f, g : /\ a = Len(cs) /\ b = Len(ds) /\ c = Len(st.offsets[1])
                    /\ e = Len(r.offsets[1]) /\ f = Len(st.offsets[2]) /\ g = Len(r.offsets[2])
    OBVIOUS
  <2>2. /\ a \in Nat /\ b \in Nat /\ c \in Nat /\ e \in Nat /\ f \in Nat /\ g \in Nat
        /\ a <= b /\ c <= e /\ f <= g /\ MaxOffset \in Nat
    <3>1. /\ st.offsets[1] \in Seq(Int) /\ r.offsets[1] \in Seq(Int)
          /\ st.offsets[2] \in Seq(Int) /\ r.offsets[2] \in Seq(Int)
      BY <1>2, <1>5
    <3>2. a \in Nat /\ b \in Nat
      BY <1>4, <2>1
    <3>3. c \in Nat /\ e \in Nat /\ f \in Nat /\ g \in Nat
      BY <2>1, <3>1, LenProperties
    <3> QED
      BY <1>4, <2>1, <3>2, <3>3 DEF NativeAssumption
  <2>3. /\ d >= 1 => b <= MaxOffset
        /\ d >= 2 => e - 1 <= MaxOffset
        /\ d = 3 => g - 1 <= MaxOffset
    BY <1>7, <2>1 DEF Countable
  <2>4. /\ d >= 1 => a <= MaxOffset
        /\ d >= 2 => c - 1 <= MaxOffset
        /\ d = 3 => f - 1 <= MaxOffset
    BY <2>2, <2>3
  <2> QED
    BY <2>1, <2>4 DEF Countable
<1>8. ASSUME Countable(d, ds, r.offsets), AllSettled(d, st, cs)
      PROVE  /\ AllSettled(d, r, ds)
             /\ Nested(d, ds, r.offsets) = Append(Nested(d, cs, st.offsets), x)
  <2>1. PICK s, t : s = Below(d, cs, st.offsets) /\ t = Below(d, ds, r.offsets)
    OBVIOUS
  <2>2. LowerSettled(d, r, ds) /\ t = s \o x
    BY <1>8, <2>1 DEF Adds
  <2>3. LowerSettled(d, st, cs) /\ Ends(st, 0, s)
    BY <1>8, <2>1 DEF AllSettled
  <2>4. s \in Seq(K) /\ x \in Seq(K)
    BY <1>1, <2>1, <2>3, BelowType
  <2>5. Len(t) <= MaxOffset
    <3>1. r \in Ending /\ ds \in Seq(Nat) /\ LowerSettled(d, r, ds)
      BY <1>4, <2>2
    <3>2. Len(Below(d, ds, r.offsets)) = IF d = 1 THEN Len(ds) ELSE Len(r.offsets[1]) - 1
      BY <3>1, BelowType
    <3> QED
      BY <1>8, <2>1, <3>2 DEF Countable
  <2>6. Len(s) + Len(x) <= MaxOffset
    <3>1. Len(s \o x) = Len(s) + Len(x)
      BY <2>4
    <3> QED
      BY <2>2, <2>5, <3>1
  <2>7. Listed(q, st, 0, s, x)
    BY <1>1, <1>2, <2>3, <2>4, <2>6, ListAppended
  <2>8. /\ Ends(q, 0, t) /\ Cut(t, q.offsets[0]) = Append(Cut(s, st.offsets[0]), x)
    BY <2>2, <2>7 DEF Listed
  <2>9. /\ Ends(r, 0, t) /\ Cut(t, r.offsets[0]) = Append(Cut(s, st.offsets[0]), x)
    BY <1>4, <2>8 DEF Ends
  <2>10. /\ Nested(d, ds, r.offsets) = Cut(t, r.offsets[0])
         /\ Nested(d, cs, st.offsets) = Cut(s, st.offsets[0])
    BY <2>1 DEF Nested, Below
  <2> QED
    BY <2>1, <2>2, <2>9, <2>10 DEF AllSettled
<1> QED
  BY <1>4, <1>6, <1>7, <1>8 DEF MoreRows

(* A row of size 0 adds the empty list. *)
LEMMA EmptyAdds ==
  ASSUME NativeAssumption, NEW d \in 1 .. 3, NEW st \in Ending, NEW cs \in Seq(Nat)
  PROVE  Adds(d, st, cs, AppendSize(st, 0, 0), cs, << >>)
<1>1. PICK r : r = AppendSize(st, 0, 0)
  OBVIOUS
<1>2. 0 \in Lvl /\ 1 \in Lvl /\ 2 \in Lvl /\ Lvl \ {0} = {1, 2} /\ Len(<< >>) = 0
  BY DEF Lvl
<1>3. r \in Ending /\ Apart(r, st, 0)
  BY <1>1, <1>2, SizeAppended
<1>4. \A l \in 1 .. 2 : r.offsets[l] = st.offsets[l] /\ r.last[l] = st.last[l]
  <2>1. \A l \in 1 .. 2 : l \in Lvl \ {0}
    BY <1>2
  <2> QED
    BY <1>3, <2>1 DEF Apart
<1>5. \A l \in 1 .. 2 : Len(st.offsets[l]) <= Len(r.offsets[l])
  <2>1. \A l \in 1 .. 2 : l \in Lvl
    BY <1>2
  <2>2. \A l \in Lvl : st.offsets[l] \in Seq(Int)
    BY DEF Ending
  <2>3. \A l \in 1 .. 2 : Len(st.offsets[l]) \in Nat
    BY <2>1, <2>2
  <2> QED
    BY <1>4, <2>3
<1>6. ASSUME AllSettled(d, st, cs)
      PROVE  /\ LowerSettled(d, r, cs)
             /\ Below(d, cs, r.offsets) = Below(d, cs, st.offsets) \o << >>
  <2>1. LowerSettled(d, st, cs)
    BY <1>6 DEF AllSettled
  <2>2. Below(d, cs, st.offsets) \in Seq(ElementKind(d))
    BY <2>1, BelowType
  <2>3. Below(d, cs, st.offsets) \o << >> = Below(d, cs, st.offsets)
    BY <2>2
  <2>4. Below(d, cs, r.offsets) = Below(d, cs, st.offsets)
    BY <1>4 DEF Below
  <2>5. LowerSettled(d, r, cs)
    BY <1>4, <2>1 DEF LowerSettled, Ends
  <2> QED
    BY <2>3, <2>4, <2>5
<1>7. Len(cs) <= Len(cs)
  OBVIOUS
<1> QED
  BY <1>1, <1>2, <1>3, <1>5, <1>6, <1>7 DEF Adds

(* The size of a list of coordinates adds it to an array of linestrings. *)
LEMMA CoordsAdd ==
  ASSUME NativeAssumption, NEW st \in Ending, NEW cs \in Seq(Nat), NEW x \in Seq(Nat)
  PROVE  Adds(1, st, cs, AppendSize(st, 0, Len(x)), cs \o x, x)
<1>1. PICK r, n, ds : r = AppendSize(st, 0, n) /\ n = Len(x) /\ ds = cs \o x
  OBVIOUS
<1>2. 0 \in Lvl /\ 1 \in Lvl /\ 2 \in Lvl /\ n \in Nat
  BY <1>1 DEF Lvl
<1>3. r \in Ending /\ Apart(r, st, 0)
  BY <1>1, <1>2, SizeAppended
<1>4. \A l \in 1 .. 2 : Len(st.offsets[l]) <= Len(r.offsets[l])
  <2>1. \A l \in 1 .. 2 : l \in Lvl \ {0}
    BY DEF Lvl
  <2>2. \A l \in Lvl : st.offsets[l] \in Seq(Int)
    BY DEF Ending
  <2>3. \A l \in 1 .. 2 : Len(st.offsets[l]) \in Nat
    BY <2>1, <2>2
  <2>4. \A l \in 1 .. 2 : r.offsets[l] = st.offsets[l]
    BY <1>3, <2>1 DEF Apart
  <2> QED
    BY <2>3, <2>4
<1>5. ds \in Seq(Nat) /\ Len(cs) <= Len(ds)
  <2>1. ds \in Seq(Nat) /\ Len(ds) = Len(cs) + n /\ Len(cs) \in Nat
    BY <1>1
  <2> QED
    BY <1>2, <2>1
<1>6. LowerSettled(1, r, ds) /\ Below(1, ds, r.offsets) = Below(1, cs, st.offsets) \o x
  BY <1>1 DEF LowerSettled, Below
<1> QED
  BY <1>1, <1>3, <1>4, <1>5, <1>6 DEF Adds

(* AppendPolygonOffsets adds a list of lists to an array of polygons. *)
LEMMA SequencesAdd ==
  ASSUME NativeAssumption, NEW st \in Ending, NEW cs \in Seq(Nat), NEW geom, NEW i,
         NEW lists \in Seq(Seq(Nat)), Sized(Sequel(geom, i), lists),
         geom[i].size = Len(lists)
  PROVE  Adds(2, st, cs, AppendPolygonOffsets(st, geom, i, 0), cs \o FlattenSeq(lists), lists)
<1>1. PICK r, n, ds, u : /\ r = AppendPolygonOffsets(st, geom, i, 0) /\ n = Len(lists)
                         /\ u = FlattenSeq(lists) /\ ds = cs \o u
  OBVIOUS
<1>2. 0 \in Lvl /\ 1 \in Lvl /\ 2 \in Lvl /\ n \in Nat /\ 0 \in 0 .. 1
  BY <1>1 DEF Lvl
<1>3. r \in Ending /\ MoreLists(r, st, 0, n)
  BY <1>1, <1>2, PolygonCounts
<1>4. \A l \in Lvl : st.offsets[l] \in Seq(Int)
  BY DEF Ending
<1>5. /\ Len(r.offsets[1]) = Len(st.offsets[1]) + n /\ r.offsets[2] = st.offsets[2]
      /\ r.offsets[0] = AppendSize(st, 0, n).offsets[0]
      /\ r.last[0] = AppendSize(st, 0, n).last[0]
  <2>1. 2 \in Lvl \ {0, 0 + 1} /\ 0 + 1 = 1
    BY <1>2
  <2> QED
    BY <1>3, <2>1 DEF MoreLists
<1>6. PICK a, b, c, e : /\ a = Len(st.offsets[1]) /\ b = Len(st.offsets[2])
                        /\ c = Len(cs) /\ e = Len(u)
  OBVIOUS
<1>7. /\ a \in Nat /\ b \in Nat /\ c \in Nat
  BY <1>2, <1>4, <1>6, LenProperties
<1>8. u \in Seq(Nat)
  <2>1. PICK h \in [0 .. Len(lists) -> Seq(Nat)] : FlattenSeq(lists) = h[Len(lists)]
    BY FlattenSteps
  <2>2. Len(lists) \in 0 .. Len(lists)
    BY <1>1, <1>2
  <2> QED
    BY <1>1, <2>1, <2>2
<1>9. ds \in Seq(Nat) /\ Len(ds) = c + e /\ e \in Nat
  BY <1>1, <1>6, <1>8
<1>10. Len(cs) <= Len(ds) /\ \A l \in 1 .. 2 : Len(st.offsets[l]) <= Len(r.offsets[l])
  <2>1. \A l \in 1 .. 2 : l = 1 \/ l = 2
    OBVIOUS
  <2>2. Len(cs) <= Len(ds)
    BY <1>6, <1>7, <1>9
  <2>3. Len(st.offsets[1]) <= Len(r.offsets[1]) /\ Len(st.offsets[2]) <= Len(r.offsets[2])
    BY <1>2, <1>5, <1>6, <1>7
  <2> QED
    BY <2>1, <2>2, <2>3
<1>11. ASSUME Countable(2, ds, r.offsets), AllSettled(2, st, cs)
       PROVE  /\ LowerSettled(2, r, ds)
              /\ Below(2, ds, r.offsets) = Below(2, cs, st.offsets) \o lists
  <2>1. Len(ds) <= MaxOffset /\ Len(r.offsets[1]) - 1 <= MaxOffset
    BY <1>11 DEF Countable
  <2>2. Ends(st, 1, cs) /\ Ends(st, 0, Cut(cs, st.offsets[1]))
    BY <1>11 DEF AllSettled, LowerSettled, Below
  <2>3. EndsTwice(st, 0, cs)
    BY <2>2 DEF EndsTwice
  <2>4. Len(Cut(cs, st.offsets[1])) = a - 1
    BY <1>6, <2>2, CutTyped DEF Ends
  <2>5. Len(Cut(cs, st.offsets[0 + 1])) + Len(lists) <= MaxOffset
    BY <1>1, <1>2, <1>5, <1>6, <1>7, <2>1, <2>4 DEF NativeAssumption
  <2>6. Len(cs) + Len(FlattenSeq(lists)) <= MaxOffset
    BY <1>1, <1>6, <1>9, <2>1
  <2>7. ListedTwice(r, st, 0, cs, lists)
    BY <1>1, <1>2, <2>3, <2>5, <2>6, PolygonAppended
  <2>8. EndsTwice(r, 0, ds) /\ Cut(ds, r.offsets[1]) = Cut(cs, st.offsets[1]) \o lists
    BY <1>1, <2>7 DEF ListedTwice
  <2> QED
    BY <2>8 DEF EndsTwice, LowerSettled, Below
<1> QED
  BY <1>1, <1>3, <1>5, <1>9, <1>10, <1>11 DEF Adds

(* FlattenSeq joins every list of lists in steps. *)
LEMMA JoinsExist ==
  ASSUME NEW W, NEW ks \in Seq(Seq(W))
  PROVE  \E h : JoinsTo(h, ks, W)
<1>1. PICK h \in [0 .. Len(ks) -> Seq(W)] :
           /\ h[0] = << >>
           /\ \A i \in 1 .. Len(ks) : h[i] = h[i - 1] \o ks[i]
           /\ FlattenSeq(ks) = h[Len(ks)]
  BY FlattenSteps
<1> QED
  BY <1>1 DEF JoinsTo, Joins

(* The sequences and the polygons, one by one. *)
SequenceList(ns) ==
  [i \in DOMAIN ns |-> IF ns[i].type \in {RING, LINESTRING} THEN << ns[i].xs >> ELSE << >>]
PolygonList(ns) ==
  [i \in DOMAIN ns |-> IF ns[i].type = POLYGON THEN << RingsOf(ns, i) >> ELSE << >>]

(* A list whose members have at most one element is a list of lists. *)
LEMMA ListOfOnes ==
  ASSUME NEW W, NEW n \in Nat, NEW f, f = [i \in 1 .. n |-> f[i]],
         \A i \in 1 .. n : f[i] = << >> \/ \E w \in W : f[i] = << w >>
  PROVE  f \in Seq(Seq(W)) /\ Len(f) = n
<1>1. ASSUME NEW i \in 1 .. n
      PROVE  f[i] \in Seq(W)
  <2>1. << >> \in Seq(W)
    OBVIOUS
  <2>2. \A w \in W : << w >> \in Seq(W)
    OBVIOUS
  <2>3. f[i] = << >> \/ \E w \in W : f[i] = << w >>
    OBVIOUS
  <2> QED
    BY <2>1, <2>2, <2>3
<1>2. PICK V : V = Seq(W)
  OBVIOUS
<1>3. f \in [1 .. n -> V]
  BY <1>1, <1>2
<1>4. f \in Seq(V) /\ Len(f) = n
  BY <1>3
<1> QED
  BY <1>2, <1>4

(* The list of the sequences is such a list. *)
LEMMA SequenceListType ==
  ASSUME NEW ns \in Seq(NodeSet)
  PROVE  /\ SequenceList(ns) \in Seq(Seq(Seq(Nat))) /\ Len(SequenceList(ns)) = Len(ns)
         /\ \A i \in 1 .. Len(ns) :
              SequenceList(ns)[i] = IF ns[i].type \in {RING, LINESTRING} THEN << ns[i].xs >>
                                    ELSE << >>
<1>1. PICK n, f, W : n = Len(ns) /\ f = SequenceList(ns) /\ W = Seq(Nat)
  OBVIOUS
<1>2. n \in Nat /\ DOMAIN ns = 1 .. n
  BY <1>1
<1>3. /\ f = [i \in 1 .. n |-> f[i]]
      /\ \A i \in 1 .. n :
           f[i] = IF ns[i].type \in {RING, LINESTRING} THEN << ns[i].xs >> ELSE << >>
  BY <1>1, <1>2 DEF SequenceList
<1>4. \A i \in 1 .. n : ns[i].xs \in W
  <2>1. \A i \in 1 .. n : ns[i] \in NodeSet
    BY <1>1
  <2> QED
    BY <1>1, <2>1 DEF NodeSet
<1>5. f \in Seq(Seq(W)) /\ Len(f) = n
  <2>1. \A i \in 1 .. n : f[i] = << >> \/ \E w \in W : f[i] = << w >>
    BY <1>3, <1>4
  <2> QED
    BY <1>2, <1>3, <2>1, ListOfOnes
<1> QED
  BY <1>1, <1>3, <1>5

(* So is the list of the polygons. *)
LEMMA PolygonListType ==
  ASSUME NEW ns \in Seq(NodeSet)
  PROVE  /\ PolygonList(ns) \in Seq(Seq(Seq(Seq(Nat)))) /\ Len(PolygonList(ns)) = Len(ns)
         /\ \A i \in 1 .. Len(ns) :
              PolygonList(ns)[i] = IF ns[i].type = POLYGON THEN << RingsOf(ns, i) >> ELSE << >>
<1>1. PICK n, f, W : n = Len(ns) /\ f = PolygonList(ns) /\ W = Seq(Seq(Nat))
  OBVIOUS
<1>2. n \in Nat /\ DOMAIN ns = 1 .. n
  BY <1>1
<1>3. /\ f = [i \in 1 .. n |-> f[i]]
      /\ \A i \in 1 .. n :
           f[i] = IF ns[i].type = POLYGON THEN << RingsOf(ns, i) >> ELSE << >>
  BY <1>1, <1>2 DEF PolygonList
<1>4. ASSUME NEW i \in 1 .. n
      PROVE  RingsOf(ns, i) \in W
  <2>1. PICK m, v : m = Cardinality(Parts(ns, i)) /\ v = SubSeq(ns, i + 1, i + m)
    OBVIOUS
  <2>2. m \in Nat /\ i + m <= n /\ i \in Nat
    BY <1>1, <1>2, <2>1, PartsBounded
  <2>3. v \in Seq(NodeSet)
    <3> HIDE DEF NodeSet
    <3> QED
      BY <1>1, <1>2, <2>1, <2>2
  <2>4. Sequences(v) \in Seq(Seq(Nat))
    BY <2>3, SequencesType
  <2> QED
    BY <1>1, <2>1, <2>4 DEF RingsOf
<1>5. f \in Seq(Seq(W)) /\ Len(f) = n
  <2>1. \A i \in 1 .. n : f[i] = << >> \/ \E w \in W : f[i] = << w >>
    BY <1>3, <1>4
  <2> QED
    BY <1>2, <1>3, <2>1, ListOfOnes
<1> QED
  BY <1>1, <1>3, <1>5

(* A sequence of none but a node of its own and the sequences after it.    *)
HeadOf(ns, p, m) ==
  /\ Followed(ns, p, m) /\ p + m = Len(ns)
  /\ \A k \in 1 .. p : ~HoldsCoords(ns[k].type) /\ ns[k].xs = << >>

(* The coordinates of a node with sequences are those of its parts. *)
LEMMA SequencesOfHead ==
  ASSUME NEW ns \in Seq(NodeSet), NEW p, NEW m, HeadOf(ns, p, m)
  PROVE  LET lists == After(Sequences(ns), p, m)
         IN AllCoords(ns) = FlattenSeq(lists) /\ SequencesOf(ns) = lists
<1>1. PICK n, ss, ks, W, u : /\ n = Len(ns) /\ ss = Sequences(ns) /\ ks = SequenceList(ns)
                             /\ W = Seq(Nat) /\ u = After(ss, p, m)
  OBVIOUS
<1>2. /\ n \in Nat /\ p \in 1 .. n /\ m \in Nat /\ p + m = n /\ p \in Nat
      /\ \A k \in 1 .. m : p + k \in p + 1 .. p + m /\ p + k \in 1 .. n
      /\ \A k \in 1 .. p : 0 + k \in 1 .. n /\ 0 + k = k
      /\ \A k \in p + 1 .. p + m : ns[k].type \in {RING, LINESTRING}
      /\ 0 \in Nat /\ 0 + p <= n /\ 0 \in 0 .. n
  BY <1>1 DEF HeadOf, Followed
<1>3. ss \in Seq(W) /\ Len(ss) = n /\ \A i \in 1 .. n : ss[i] = ns[i].xs
  BY <1>1, SequencesType
<1>4. /\ ks \in Seq(Seq(W)) /\ Len(ks) = n
      /\ \A i \in 1 .. n :
           ks[i] = IF ns[i].type \in {RING, LINESTRING} THEN << ns[i].xs >> ELSE << >>
  BY <1>1, SequenceListType
<1>5. u \in Seq(W) /\ Len(u) = m
  <2>1. Followed(ns, p, m)
    BY DEF HeadOf
  <2> QED
    BY <1>1, <2>1, SequencesAfter
<1>6. \A k \in 1 .. p : ss[0 + k] = << >> /\ ks[0 + k] = << >>
  <2> SUFFICES ASSUME NEW k \in 1 .. p
               PROVE  ss[0 + k] = << >> /\ ks[0 + k] = << >>
    OBVIOUS
  <2>1. k \in 1 .. n /\ 0 + k = k /\ ns[k].xs = << >> /\ ns[k].type \notin {RING, LINESTRING}
    BY <1>2 DEF HeadOf, HoldsCoords
  <2> QED
    BY <1>3, <1>4, <2>1
<1>7. AllCoords(ns) = FlattenSeq(u)
  <2>1. PICK h : JoinsTo(h, ss, Nat)
    BY <1>1, <1>3, JoinsExist
  <2>2. h \in [0 .. Len(ss) -> Seq(Nat)] /\ Joins(h, ss) /\ FlattenSeq(ss) = h[n]
    BY <1>3, <2>1 DEF JoinsTo
  <2>3. ss \in Seq(Seq(Nat)) /\ 0 + p <= Len(ss) /\ p + m <= Len(ss)
    BY <1>1, <1>2, <1>3
  <2>a. Empties(ss, 0, p)
    BY <1>6 DEF Empties
  <2>4. h[0 + p] = h[0]
    BY <1>2, <2>1, <2>a, <2>3, NoneAfter
  <2>5. h[p + m] = h[p] \o FlattenSeq(After(ss, p, m)) /\ FlattenSeq(After(ss, p, m)) \in Seq(Nat)
    BY <1>2, <2>1, <2>3, AllAfter
  <2>6. h[p] = << >>
    BY <1>2, <2>2, <2>4 DEF Joins
  <2>7. << >> \o FlattenSeq(u) = FlattenSeq(u)
    BY <1>1, <2>5
  <2> QED
    BY <1>1, <1>2, <2>2, <2>5, <2>6, <2>7 DEF AllCoords
<1>8. SequencesOf(ns) = u
  <2>1. PICK h : JoinsTo(h, ks, W)
    BY <1>4, JoinsExist
  <2>2. h \in [0 .. Len(ks) -> Seq(W)] /\ Joins(h, ks) /\ FlattenSeq(ks) = h[n]
    BY <1>4, <2>1 DEF JoinsTo
  <2>3. 0 + p <= Len(ks) /\ p + m <= Len(ks)
    BY <1>2, <1>4
  <2>a. Empties(ks, 0, p)
    BY <1>6 DEF Empties
  <2>4. h[0 + p] = h[0]
    BY <1>2, <1>4, <2>1, <2>a, <2>3, NoneAfter
  <2>5. SinglesOf(ks, p, u)
    <3> SUFFICES ASSUME NEW k \in 1 .. m
                 PROVE  ks[p + k] = << u[k] >>
      BY <1>5 DEF SinglesOf
    <3>1. ns[p + k].type \in {RING, LINESTRING} /\ p + k \in 1 .. n
      BY <1>2
    <3>2. u[k] = ns[p + k].xs
      BY <1>1, <1>3, <3>1 DEF After
    <3> QED
      BY <1>4, <3>1, <3>2
  <2>6. h[p + m] = h[p] \o u
    <3>a. p + Len(u) <= Len(ks) /\ p \in Nat
      BY <1>2, <1>5, <2>3
    <3>1. h[p + Len(u)] = h[p] \o u
      <4>1. ks \in Seq(Seq(W)) /\ u \in Seq(W) /\ JoinsTo(h, ks, W)
        BY <1>4, <1>5, <2>1
      <4> QED
        BY <4>1, <3>a, <2>5, SinglesAfter, Zenon
    <3> QED
      BY <1>5, <3>1
  <2>7. h[p] = << >>
    BY <1>2, <2>2, <2>4 DEF Joins
  <2>8. << >> \o u = u
    BY <1>5
  <2>9. SequencesOf(ns) = FlattenSeq(ks)
    BY <1>1 DEF SequencesOf, SequenceList
  <2> QED
    BY <1>2, <2>2, <2>6, <2>7, <2>8, <2>9
<1> QED
  BY <1>1, <1>7, <1>8

(* The states of the loop over polygons. *)
GroupsOf(f, st, geom) ==
  /\ f[0] = [st |-> AppendSize(st, 0, geom[1].size), at |-> 2]
  /\ \A k \in 1 .. geom[1].size :
       f[k] = [st |-> AppendPolygonOffsets(f[k - 1].st, geom, f[k - 1].at, 1),
               at |-> PolygonAfter(geom, f[k - 1].at)]
  /\ AppendMultiPolygonOffsets(st, geom) = f[geom[1].size].st

(* The loop of AppendMultiPolygonOffsets exists. *)
LEMMA GroupsLoop ==
  ASSUME NEW st, NEW geom, geom[1].size \in Nat
  PROVE  \E f : GroupsOf(f, st, geom)
<1>1. PICK n : n = geom[1].size
  OBVIOUS
<1>2. n \in Nat
  BY <1>1
<1> DEFINE grow(b) == [st |-> AppendPolygonOffsets(b.st, geom, b.at, 1),
                       at |-> PolygonAfter(geom, b.at)]
           first == [st |-> AppendSize(st, 0, n), at |-> 2]
           next(f, k) == IF k = 0 THEN first ELSE grow(f[k - 1])
           loop == CHOOSE f : f = [k \in 0 .. n |-> next(f, k)]
           T == {m \in Nat : \E f : f = [k \in 0 .. m |-> next(f, k)]}
<1>3. AppendMultiPolygonOffsets(st, geom) = loop[n].st
  BY <1>1 DEF AppendMultiPolygonOffsets
<1> HIDE DEF grow, first
<1>4. 0 \in T
  <2> DEFINE f == [k \in 0 .. 0 |-> first]
  <2>1. f = [k \in 0 .. 0 |-> next(f, k)]
    OBVIOUS
  <2> QED
    BY <2>1
<1>5. ASSUME NEW m \in 0 .. n - 1, m \in T
      PROVE  m + 1 \in T
  <2>1. PICK f : f = [k \in 0 .. m |-> next(f, k)]
    BY <1>5
  <2> DEFINE g == [k \in 0 .. m + 1 |-> next(f, k)]
  <2>2. /\ m \in Nat /\ m + 1 \in Nat
        /\ \A k \in 0 .. m : k \in 0 .. m + 1
        /\ \A k \in 0 .. m + 1 : k # 0 => k - 1 \in 0 .. m
    OBVIOUS
  <2>3. \A k \in 0 .. m : f[k] = next(f, k)
    <3> HIDE DEF next
    <3> QED
      BY <2>1
  <2>4. \A k \in 0 .. m + 1 : g[k] = next(f, k)
    <3> HIDE DEF next
    <3> QED
      OBVIOUS
  <2>5. g = [k \in 0 .. m + 1 |-> g[k]]
    <3> HIDE DEF next
    <3> QED
      OBVIOUS
  <2> HIDE DEF g
  <2>6. \A k \in 0 .. m : g[k] = f[k]
    <3> HIDE DEF next
    <3> QED
      BY <2>2, <2>3, <2>4
  <2>7. \A k \in 0 .. m + 1 : next(f, k) = next(g, k)
    BY <2>2, <2>6
  <2> HIDE DEF next
  <2>8. \A k \in 0 .. m + 1 : g[k] = next(g, k)
    BY <2>4, <2>7
  <2>9. g = [k \in 0 .. m + 1 |-> next(g, k)]
    BY <2>5, <2>8
  <2> QED
    BY <2>2, <2>9
<1>6. n \in T
  <2> HIDE DEF T
  <2>1. n \in 0 .. n
    BY <1>2
  <2> QED
    BY <1>2, <1>4, <1>5, <2>1, IntervalInduction
<1>7. loop = [k \in 0 .. n |-> next(loop, k)]
  <2> HIDE DEF next
  <2> QED
    BY <1>6
<1> HIDE DEF loop
<1>8. \A k \in 0 .. n : loop[k] = next(loop, k)
  <2> HIDE DEF next
  <2> QED
    BY <1>7
<1>9. loop[0] = first /\ \A k \in 1 .. n : loop[k] = grow(loop[k - 1])
  <2>1. 0 \in 0 .. n /\ \A k \in 1 .. n : k \in 0 .. n /\ k # 0
    BY <1>2
  <2> QED
    BY <1>8, <2>1
<1>10. GroupsOf(loop, st, geom)
  BY <1>1, <1>3, <1>9 DEF GroupsOf, grow, first
<1> QED
  BY <1>10

(* Polygons are appended under the rows of a multipolygon array.           *)
Extends(st, cs, r, ds, x) ==
  /\ r \in Ending /\ ds \in Seq(Nat) /\ Len(cs) <= Len(ds)
  /\ r.offsets[0] = st.offsets[0] /\ r.last[0] = st.last[0]
  /\ \A l \in 1 .. 2 : Len(st.offsets[l]) <= Len(r.offsets[l])
  /\ Countable(3, ds, r.offsets) /\ LowerSettled(3, st, cs) =>
       /\ LowerSettled(3, r, ds)
       /\ Below(3, ds, r.offsets) = Below(3, cs, st.offsets) \o x

(* The offsets of a level can be counted. *)
LEMMA LevelsFinite ==
  ASSUME NEW st \in Ending, NEW l \in Lvl
  PROVE  Len(st.offsets[l]) \in Nat
<1>1. st.offsets[l] \in Seq(Int)
  BY DEF Ending
<1> QED
  BY <1>1, LenProperties

(* Nothing extends an array by no polygons. *)
LEMMA ExtendsNone ==
  ASSUME NEW st \in Ending, NEW cs \in Seq(Nat)
  PROVE  Extends(st, cs, st, cs, << >>)
<1>1. \A l \in 1 .. 2 : Len(st.offsets[l]) <= Len(st.offsets[l])
  <2>1. \A l \in 1 .. 2 : l \in Lvl
    BY DEF Lvl
  <2> QED
    BY <2>1, LevelsFinite
<1>2. Len(cs) <= Len(cs)
  OBVIOUS
<1>3. ASSUME LowerSettled(3, st, cs)
      PROVE  Below(3, cs, st.offsets) = Below(3, cs, st.offsets) \o << >>
  <2>1. Below(3, cs, st.offsets) \in Seq(ElementKind(3))
    BY <1>3, BelowType
  <2> QED
    BY <2>1
<1> QED
  BY <1>1, <1>2, <1>3 DEF Extends

(* Joined lists are a list. *)
LEMMA FlattenTyped ==
  ASSUME NEW S, NEW lists \in Seq(Seq(S))
  PROVE  FlattenSeq(lists) \in Seq(S)
<1>1. PICK h : JoinsTo(h, lists, S)
  BY JoinsExist
<1>2. Len(lists) \in 0 .. Len(lists)
  OBVIOUS
<1> QED
  BY <1>1, <1>2 DEF JoinsTo

(* A polygon more extends it by one list of rings. *)
LEMMA PolygonExtends ==
  ASSUME NativeAssumption, NEW st \in Ending, NEW cs \in Seq(Nat), NEW r, NEW ds,
         NEW x \in Seq(Seq(Seq(Nat))), Extends(st, cs, r, ds, x), NEW geom, NEW i,
         NEW lists \in Seq(Seq(Nat)), Sized(Sequel(geom, i), lists),
         geom[i].size = Len(lists)
  PROVE  Extends(st, cs, AppendPolygonOffsets(r, geom, i, 1), ds \o FlattenSeq(lists),
                 Append(x, lists))
<1>1. PICK q, n, es, u, W : /\ q = AppendPolygonOffsets(r, geom, i, 1) /\ n = Len(lists)
                            /\ u = FlattenSeq(lists) /\ es = ds \o u /\ W = Seq(Seq(Nat))
  OBVIOUS
<1>2. 0 \in Lvl /\ 1 \in Lvl /\ 2 \in Lvl /\ n \in Nat /\ 1 \in 0 .. 1
  BY <1>1 DEF Lvl
<1>3. r \in Ending /\ ds \in Seq(Nat) /\ Len(cs) <= Len(ds)
  BY DEF Extends
<1>4. q \in Ending /\ MoreLists(q, r, 1, n)
  BY <1>1, <1>2, <1>3, PolygonCounts
<1>5. /\ q.offsets[0] = r.offsets[0] /\ q.last[0] = r.last[0]
      /\ Len(q.offsets[1]) = Len(r.offsets[1]) + 1 /\ Len(q.offsets[2]) = Len(r.offsets[2]) + n
  <2>1. 0 \in Lvl \ {1, 1 + 1} /\ 1 + 1 = 2
    BY <1>2
  <2> QED
    BY <1>4, <2>1 DEF MoreLists
<1>6. PICK a, b, c, e : /\ a = Len(r.offsets[1]) /\ b = Len(r.offsets[2])
                        /\ c = Len(ds) /\ e = Len(u)
  OBVIOUS
<1>7. a \in Nat /\ b \in Nat /\ c \in Nat
  BY <1>2, <1>3, <1>6, LevelsFinite
<1>8. u \in Seq(Nat)
  BY <1>1, FlattenTyped
<1>9. es \in Seq(Nat) /\ Len(es) = c + e /\ e \in Nat
  BY <1>1, <1>3, <1>6, <1>8
<1>10. Len(cs) <= Len(es) /\ \A l \in 1 .. 2 : Len(st.offsets[l]) <= Len(q.offsets[l])
  <2>1. \A l \in 1 .. 2 : l = 1 \/ l = 2
    OBVIOUS
  <2>2. Len(cs) <= Len(es)
    BY <1>3, <1>6, <1>7, <1>9
  <2>3. Len(st.offsets[1]) <= a /\ Len(st.offsets[2]) <= b
    BY <1>6 DEF Extends
  <2>4. Len(st.offsets[1]) \in Nat /\ Len(st.offsets[2]) \in Nat
    BY <1>2, LevelsFinite
  <2>5. Len(st.offsets[1]) <= Len(q.offsets[1]) /\ Len(st.offsets[2]) <= Len(q.offsets[2])
    <3>1. PICK f, g : f = Len(st.offsets[1]) /\ g = Len(st.offsets[2])
      OBVIOUS
    <3>2. f \in Nat /\ g \in Nat /\ f <= a /\ g <= b
      BY <2>3, <2>4, <3>1
    <3>3. f <= a + 1 /\ g <= b + n
      BY <1>2, <1>7, <3>2
    <3> QED
      BY <1>5, <1>6, <3>1, <3>3
  <2> QED
    BY <2>1, <2>2, <2>5
<1>11. ASSUME Countable(3, es, q.offsets), LowerSettled(3, st, cs)
       PROVE  /\ LowerSettled(3, q, es)
              /\ Below(3, es, q.offsets) = Below(3, cs, st.offsets) \o Append(x, lists)
  <2>1. Len(es) <= MaxOffset /\ Len(q.offsets[1]) - 1 <= MaxOffset
        /\ Len(q.offsets[2]) - 1 <= MaxOffset
    BY <1>11 DEF Countable
  <2>2. Countable(3, ds, r.offsets)
    <3>1. c + e <= MaxOffset /\ (a + 1) - 1 <= MaxOffset /\ (b + n) - 1 <= MaxOffset
      BY <1>5, <1>6, <1>9, <2>1
    <3>2. c <= MaxOffset /\ a - 1 <= MaxOffset /\ b - 1 <= MaxOffset
      BY <1>2, <1>7, <1>9, <3>1 DEF NativeAssumption
    <3> QED
      BY <1>6, <3>2 DEF Countable
  <2>3. /\ LowerSettled(3, r, ds)
        /\ Below(3, ds, r.offsets) = Below(3, cs, st.offsets) \o x
    BY <1>11, <2>2 DEF Extends
  <2>4. Ends(r, 2, ds) /\ Ends(r, 1, Cut(ds, r.offsets[2]))
    BY <2>3 DEF LowerSettled
  <2>5. EndsTwice(r, 1, ds)
    BY <2>4 DEF EndsTwice
  <2>6. Len(Cut(ds, r.offsets[2])) = b - 1
    BY <1>3, <1>6, <2>4, CutTyped DEF Ends
  <2>7. Len(Cut(ds, r.offsets[1 + 1])) + Len(lists) <= MaxOffset
    BY <1>1, <1>2, <1>5, <1>6, <1>7, <2>1, <2>6 DEF NativeAssumption
  <2>8. Len(ds) + Len(FlattenSeq(lists)) <= MaxOffset
    BY <1>1, <1>6, <1>9, <2>1
  <2>9. ListedTwice(q, r, 1, ds, lists)
    BY <1>1, <1>2, <1>3, <2>5, <2>7, <2>8, PolygonAppended
  <2>10. PICK k, below, c1 : /\ k = Cut(ds, r.offsets[2]) /\ below = k \o lists
                            /\ c1 = Cut(k, r.offsets[1])
    OBVIOUS
  <2>11. /\ EndsTwice(q, 1, es) /\ Cut(es, q.offsets[2]) = below
         /\ Cut(below, q.offsets[1]) = Append(c1, lists)
    BY <1>1, <2>9, <2>10 DEF ListedTwice
  <2>12. LowerSettled(3, q, es)
    BY <2>11 DEF EndsTwice, LowerSettled
  <2>13. Below(3, es, q.offsets) = Append(c1, lists) /\ Below(3, ds, r.offsets) = c1
    BY <2>10, <2>11 DEF Below
  <2>14. PICK y : y = Below(3, cs, st.offsets)
    OBVIOUS
  <2>15. y \in Seq(W) /\ x \in Seq(W) /\ lists \in W
    <3>1. y \in Seq(ElementKind(3))
      BY <1>11, <2>14, BelowType
    <3> QED
      BY <1>1, <3>1 DEF ElementKind
  <2>16. Append(y \o x, lists) = y \o Append(x, lists)
    <3>1. << lists >> \in Seq(W) /\ y \o x \in Seq(W)
      BY <2>15
    <3>2. PICK z : z = << lists >>
      OBVIOUS
    <3>3. z \in Seq(W)
      BY <3>1, <3>2
    <3>4. Append(y \o x, lists) = (y \o x) \o z /\ Append(x, lists) = x \o z
      BY <2>15, <3>1, <3>2, AppendIsConcat
    <3>5. Associates(W)
      BY JoinAssociates
    <3>6. (y \o x) \o z = y \o (x \o z)
      BY <2>15, <3>3, <3>5 DEF Associates
    <3> QED
      BY <3>4, <3>6
  <2> QED
    BY <2>3, <2>12, <2>13, <2>14, <2>16
<1>12. q.offsets[0] = st.offsets[0] /\ q.last[0] = st.last[0]
  BY <1>5 DEF Extends
<1> QED
  BY <1>1, <1>4, <1>9, <1>10, <1>11, <1>12 DEF Extends

(* After the size of their multipolygon, they are a row of it.             *)
LEMMA ExtendsAdds ==
  ASSUME NativeAssumption, NEW st \in Ending, NEW cs \in Seq(Nat), NEW r, NEW ds,
         NEW x, Len(x) \in Nat, Extends(AppendSize(st, 0, Len(x)), cs, r, ds, x)
  PROVE  Adds(3, st, cs, r, ds, x)
<1>1. PICK q : q = AppendSize(st, 0, Len(x))
  OBVIOUS
<1>2. q \in Ending /\ Apart(q, st, 0)
  BY <1>1, SizeAppended DEF Lvl
<1>3. \A l \in 1 .. 2 : q.offsets[l] = st.offsets[l] /\ q.last[l] = st.last[l]
  <2>1. \A l \in 1 .. 2 : l \in Lvl \ {0}
    BY DEF Lvl
  <2> QED
    BY <1>2, <2>1 DEF Apart
<1>4. Extends(q, cs, r, ds, x)
  BY <1>1
<1>5. Below(3, cs, q.offsets) = Below(3, cs, st.offsets)
  BY <1>3 DEF Below
<1>6. AllSettled(3, st, cs) => LowerSettled(3, q, cs)
  BY <1>3 DEF AllSettled, LowerSettled, Ends
<1> QED
  BY <1>1, <1>3, <1>4, <1>5, <1>6 DEF Adds, Extends

(* A multipolygon and its nodes.                                           *)
MultiPolygonNodes(ns) ==
  ns \in Seq(NodeSet) /\ WellFormed(ns) /\ ns # << >> /\ ns[1].type = MULTIPOLYGON

(* The polygons before the node p. *)
PolygonsBefore(ns, p) == {j \in 2 .. p - 1 : ns[j].type = POLYGON}

(* k polygons are before the next one, at p, if there is one.              *)
Between(ns, p, k) ==
  /\ p \in 2 .. Len(ns) + 1
  /\ p # Len(ns) + 1 => ns[p].type = POLYGON
  /\ Cardinality(PolygonsBefore(ns, p)) = k

(* No polygon is before the first. *)
LEMMA BetweenFirst ==
  ASSUME NEW ns, MultiPolygonNodes(ns)
  PROVE  Between(ns, 2, 0)
<1>1. PICK n : n = Len(ns)
  OBVIOUS
<1>2. n \in Nat /\ n >= 1 /\ (n >= 2 => ns[2].type = POLYGON)
  BY <1>1, EmptySeq, PolygonsOfMulti DEF MultiPolygonNodes
<1>3. PolygonsBefore(ns, 2) = {}
  BY DEF PolygonsBefore
<1>4. Cardinality({}) = 0
  BY FS_EmptySet
<1>5. 2 \in 2 .. n + 1 /\ (2 # n + 1 => n >= 2)
  BY <1>2
<1> QED
  BY <1>1, <1>2, <1>3, <1>4, <1>5 DEF Between

(* The polygons before a node can be counted. *)
LEMMA PolygonsBeforeFinite ==
  ASSUME NEW ns, NEW p \in Int
  PROVE  IsFiniteSet(PolygonsBefore(ns, p))
<1>1. IsFiniteSet(2 .. p - 1)
  BY FS_Interval
<1>2. PolygonsBefore(ns, p) \in SUBSET (2 .. p - 1)
  BY DEF PolygonsBefore
<1> QED
  BY <1>1, <1>2, FS_Subset

(* One more is before the node that follows the rings of a polygon. *)
LEMMA BetweenNext ==
  ASSUME NEW ns, MultiPolygonNodes(ns), NEW p, NEW k \in Nat, Between(ns, p, k),
         p # Len(ns) + 1
  PROVE  Between(ns, p + Cardinality(Parts(ns, p)) + 1, k + 1)
<1>1. PICK n, m : n = Len(ns) /\ m = Cardinality(Parts(ns, p))
  OBVIOUS
<1>2. n \in Nat /\ p \in 2 .. n /\ ns[p].type = POLYGON /\ p \in Nat
  BY <1>1 DEF Between, MultiPolygonNodes
<1>3. /\ m \in Nat /\ p + m <= n
      /\ \A j \in p + 1 .. p + m : ns[j].type = RING
      /\ p + m < n => ns[p + m + 1].type = POLYGON
  BY <1>1, <1>2, RingsOfPolygon DEF MultiPolygonNodes
<1>4. PICK q : q = p + m + 1
  OBVIOUS
<1>5. q \in 2 .. n + 1 /\ (q # n + 1 => ns[q].type = POLYGON)
  BY <1>2, <1>3, <1>4
<1>6. PolygonsBefore(ns, q) = PolygonsBefore(ns, p) \cup {p}
  <2>1. POLYGON # RING
    BY DEF POLYGON, RING
  <2>2. \A j \in 2 .. q - 1 : j \in 2 .. p - 1 \/ j = p \/ j \in p + 1 .. p + m
    BY <1>2, <1>3, <1>4
  <2>3. \A j \in 2 .. p - 1 : j \in 2 .. q - 1
    BY <1>2, <1>3, <1>4
  <2>4. p \in 2 .. q - 1
    BY <1>2, <1>3, <1>4
  <2> QED
    BY <1>2, <1>3, <2>1, <2>2, <2>3, <2>4 DEF PolygonsBefore
<1>7. Cardinality(PolygonsBefore(ns, q)) = k + 1
  <2>1. p \notin PolygonsBefore(ns, p)
    BY <1>2 DEF PolygonsBefore
  <2>2. IsFiniteSet(PolygonsBefore(ns, p)) /\ Cardinality(PolygonsBefore(ns, p)) = k
    BY <1>2, PolygonsBeforeFinite DEF Between
  <2> QED
    BY <1>6, <2>1, <2>2, FS_AddElement
<1> QED
  BY <1>1, <1>4, <1>5, <1>7 DEF Between

(* All polygons are before the end, and only the end.                      *)
LEMMA BetweenLast ==
  ASSUME NEW ns, MultiPolygonNodes(ns), NEW p, NEW k \in Nat, Between(ns, p, k)
  PROVE  p = Len(ns) + 1 <=> k = Cardinality(Parts(ns, 1))
<1>1. PICK n : n = Len(ns)
  OBVIOUS
<1>2. n \in Nat /\ p \in 2 .. n + 1
  BY <1>1 DEF Between, MultiPolygonNodes
<1>3. Parts(ns, 1) = PolygonsBefore(ns, n + 1)
  <2>1. (n + 1) - 1 = n
    BY <1>2
  <2>2. Parts(ns, 1) = {j \in 2 .. n : ns[j].type = POLYGON}
    BY <1>1, PolygonsOfMulti DEF MultiPolygonNodes
  <2> QED
    BY <2>1, <2>2 DEF PolygonsBefore
<1>4. ASSUME p # n + 1, k = Cardinality(Parts(ns, 1))
      PROVE  FALSE
  <2>1. p \in 2 .. n /\ ns[p].type = POLYGON /\ p \notin 2 .. p - 1
    BY <1>1, <1>2, <1>4 DEF Between
  <2>2. PolygonsBefore(ns, p) \in SUBSET PolygonsBefore(ns, n + 1)
    <3>1. \A j \in 2 .. p - 1 : j \in 2 .. (n + 1) - 1
      BY <1>2
    <3> QED
      BY <3>1 DEF PolygonsBefore
  <2>3. p \in PolygonsBefore(ns, n + 1) /\ p \notin PolygonsBefore(ns, p)
    <3>1. p \in 2 .. (n + 1) - 1
      BY <1>2, <2>1
    <3> QED
      BY <2>1, <3>1 DEF PolygonsBefore
  <2>4. IsFiniteSet(PolygonsBefore(ns, n + 1))
    BY <1>2, PolygonsBeforeFinite
  <2>5. Cardinality(PolygonsBefore(ns, p)) < Cardinality(PolygonsBefore(ns, n + 1))
    <3>1. PICK s, t : s = PolygonsBefore(ns, p) /\ t = PolygonsBefore(ns, n + 1)
      OBVIOUS
    <3>2. s \in SUBSET t /\ IsFiniteSet(t) /\ s # t
      BY <2>2, <2>3, <2>4, <3>1
    <3>3. IsFiniteSet(s) /\ Cardinality(s) <= Cardinality(t)
          /\ (Cardinality(s) = Cardinality(t) => s = t)
      BY <3>2, FS_Subset
    <3>4. Cardinality(s) \in Nat /\ Cardinality(t) \in Nat
      BY <3>2, <3>3, FS_CardinalityType
    <3> QED
      BY <3>1, <3>2, <3>3, <3>4
  <2>6. Cardinality(PolygonsBefore(ns, p)) = Cardinality(PolygonsBefore(ns, n + 1))
    BY <1>3, <1>4 DEF Between
  <2>7. k \in Nat /\ k < k
    BY <2>5, <2>6 DEF Between
  <2> QED
    BY <2>7
<1>5. ASSUME p = n + 1
      PROVE  k = Cardinality(Parts(ns, 1))
  BY <1>3, <1>5 DEF Between
<1> QED
  BY <1>1, <1>4, <1>5

(* The n lists after a are what the join has more after them. *)
Joined(h, ks, a, n, W) ==
  h[a + n] = h[a] \o FlattenSeq(After(ks, a, n)) /\ FlattenSeq(After(ks, a, n)) \in Seq(W)

(* So it is, of every list of lists. *)
LEMMA AllJoined ==
  ASSUME NEW W, NEW ks \in Seq(Seq(W)), NEW h, JoinsTo(h, ks, W),
         NEW a \in Nat, NEW n \in Nat, a + n <= Len(ks)
  PROVE  Joined(h, ks, a, n, W)
BY AllAfter DEF Joined

(* The polygon p takes the m lists of its rings. *)
PolygonTakes(ns, p, m, hc, hp, lists) ==
  /\ lists \in Seq(Seq(Nat)) /\ Len(lists) = m /\ GeometryOf(ns)[p].size = m
  /\ Sized(Sequel(GeometryOf(ns), p), lists)
  /\ hc[p + m] = hc[p - 1] \o FlattenSeq(lists)
  /\ hp[p + m] = Append(hp[p - 1], lists)

(* What a polygon adds to the coordinates and to the polygons.             *)
LEMMA PolygonJoins ==
  ASSUME NEW ns, MultiPolygonNodes(ns), NEW p \in 2 .. Len(ns), ns[p].type = POLYGON,
         NEW m, m = Cardinality(Parts(ns, p)), NEW hc, JoinsTo(hc, Sequences(ns), Nat),
         NEW hp, JoinsTo(hp, PolygonList(ns), Seq(Seq(Nat)))
  PROVE  PolygonTakes(ns, p, m, hc, hp, RingsOf(ns, p))
<1>1. PICK n, ss, ks, W, u, b : /\ n = Len(ns) /\ ss = Sequences(ns) /\ ks = PolygonList(ns)
                                /\ W = Seq(Seq(Nat)) /\ u = RingsOf(ns, p) /\ b = p - 1
  OBVIOUS
<1>2. /\ ns \in Seq(NodeSet) /\ WellFormed(ns) /\ n \in Nat /\ p \in 1 .. n /\ p \in Nat
      /\ b \in Nat /\ b + 1 = p /\ b + 1 <= n /\ 1 \in Nat /\ b \in 0 .. n
  BY <1>1 DEF MultiPolygonNodes
<1>3. /\ m \in Nat /\ p + m <= n
      /\ \A j \in p + 1 .. p + m : ns[j].type = RING
  BY <1>1, RingsOfPolygon DEF MultiPolygonNodes
<1>4. GeometryOf(ns)[p].size = m
  <2>1. ~HoldsCoords(ns[p].type)
    BY DEF HoldsCoords, POLYGON, POINT, LINESTRING, RING
  <2> QED
    BY <1>1, <1>2, <2>1, GeometryNodes
<1>5. Followed(ns, p, m)
  <2>1. \A j \in p + 1 .. p + m : ns[j].type \in {RING, LINESTRING}
    BY <1>3
  <2> QED
    BY <1>1, <1>2, <1>3, <1>4, <2>1 DEF Followed
<1>6. u = Sequences(SubSeq(ns, p + 1, p + m))
  BY <1>1 DEF RingsOf
<1>7. /\ u \in W /\ Len(u) = m /\ Sized(Sequel(GeometryOf(ns), p), u)
      /\ u = After(ss, p, m)
  BY <1>1, <1>2, <1>5, <1>6, SequencesAfter
<1>8. ss \in Seq(Seq(Nat)) /\ Len(ss) = n /\ \A i \in 1 .. n : ss[i] = ns[i].xs
  BY <1>1, <1>2, SequencesType
<1>9. /\ ks \in Seq(Seq(W)) /\ Len(ks) = n
      /\ \A i \in 1 .. n : ks[i] = IF ns[i].type = POLYGON THEN << RingsOf(ns, i) >> ELSE << >>
  BY <1>1, <1>2, PolygonListType
<1>10. hc[p + m] = hc[b] \o FlattenSeq(u)
  <2>1. ss[p] = << >>
    <3>1. DOMAIN ns = 1 .. n /\ ~HoldsCoords(ns[p].type)
      BY <1>1, <1>2 DEF HoldsCoords, POLYGON, POINT, LINESTRING, RING
    <3>2. ns[p].xs = << >>
      BY <1>2, <3>1 DEF WellFormed
    <3> QED
      BY <1>2, <1>8, <3>2
  <2>2. Empties(ss, b, 1)
    <3>1. \A k \in 1 .. 1 : b + k = p
      BY <1>2
    <3> QED
      BY <2>1, <3>1 DEF Empties
  <2>3. JoinsTo(hc, ss, Nat) /\ b + 1 <= Len(ss) /\ p + m <= Len(ss)
    BY <1>1, <1>2, <1>3, <1>8
  <2>4. hc[b + 1] = hc[b]
    BY <1>2, <1>8, <2>2, <2>3, NoneAfter
  <2>5. /\ hc[p + m] = hc[p] \o FlattenSeq(After(ss, p, m))
        /\ FlattenSeq(After(ss, p, m)) \in Seq(Nat)
    <3>1. ss \in Seq(Seq(Nat)) /\ p \in Nat /\ m \in Nat /\ p + m <= Len(ss)
      BY <1>2, <1>3, <1>8, <2>3
    <3>2. Joined(hc, ss, p, m, Nat)
      BY <2>3, <3>1, AllJoined
    <3> QED
      BY <3>2 DEF Joined
  <2> QED
    BY <1>2, <1>7, <2>4, <2>5
<1>11. hp[p + m] = Append(hp[b], u)
  <2>1. SinglesOf(ks, b, << u >>) /\ << u >> \in Seq(W) /\ Len(<< u >>) = 1
    <3>1. \A k \in 1 .. 1 : b + k = p /\ << u >>[k] = u
      BY <1>2
    <3>2. ks[p] = << u >>
      BY <1>1, <1>2, <1>9
    <3>3. << u >> \in Seq(W) /\ Len(<< u >>) = 1
      BY <1>7
    <3> QED
      BY <3>1, <3>2, <3>3 DEF SinglesOf
  <2>2. JoinsTo(hp, ks, W) /\ b + 1 <= Len(ks) /\ p + m <= Len(ks)
    BY <1>1, <1>2, <1>3, <1>9
  <2>3. PICK z : z = << u >>
    OBVIOUS
  <2>4. hp[b + Len(z)] = hp[b] \o z
    <3>1. z \in Seq(W) /\ SinglesOf(ks, b, z) /\ b + Len(z) <= Len(ks) /\ Len(z) = 1
      BY <2>1, <2>2, <2>3
    <3>2. ks \in Seq(Seq(W)) /\ b \in Nat
      BY <1>2, <1>9
    <3> QED
      BY <2>2, <3>1, <3>2, SinglesAfter, Zenon
  <2>5. Empties(ks, p, m)
    <3>1. ASSUME NEW k \in 1 .. m
          PROVE  ks[p + k] = << >>
      <4>1. p + k \in p + 1 .. p + m /\ p + k \in 1 .. n
        BY <1>2, <1>3
      <4>2. ns[p + k].type = RING /\ RING # POLYGON
        BY <1>3, <4>1 DEF POLYGON, RING
      <4> QED
        BY <1>9, <4>1, <4>2
    <3> QED
      BY <3>1 DEF Empties
  <2>6. hp[p + m] = hp[p]
    BY <1>2, <1>3, <1>9, <2>2, <2>5, NoneAfter
  <2>7. hp[b] \in Seq(W)
    <3>1. hp \in [0 .. n -> Seq(W)]
      BY <1>9, <2>2 DEF JoinsTo
    <3> QED
      BY <1>2, <3>1
  <2>8. Append(hp[b], u) = hp[b] \o << u >>
    BY <1>7, <2>7, AppendIsConcat
  <2> QED
    BY <1>2, <2>1, <2>3, <2>4, <2>6, <2>8
<1> QED
  BY <1>1, <1>4, <1>7, <1>10, <1>11 DEF PolygonTakes

(* AppendMultiPolygonOffsets adds the list of the polygons. *)
LEMMA GroupsAdd ==
  ASSUME NativeAssumption, NEW ns, MultiPolygonNodes(ns), NEW st \in Ending,
         NEW cs \in Seq(Nat)
  PROVE  /\ PolygonsOf(ns) \in Seq(Seq(Seq(Nat)))
         /\ Adds(3, st, cs, AppendMultiPolygonOffsets(st, GeometryOf(ns)),
                 cs \o AllCoords(ns), PolygonsOf(ns))
<1>1. PICK n, g, ss, ks, W, t : /\ n = Len(ns) /\ ss = Sequences(ns) /\ ks = PolygonList(ns)
                                /\ W = Seq(Seq(Nat)) /\ g = GeometryOf(ns)
                                /\ t = Cardinality(Parts(ns, 1))
  OBVIOUS
<1>2. /\ ns \in Seq(NodeSet) /\ WellFormed(ns) /\ n \in Nat /\ n >= 1 /\ ns[1].type = MULTIPOLYGON
      /\ 1 \in 1 .. n
  BY <1>1, EmptySeq DEF MultiPolygonNodes
<1>3. t \in Nat /\ g[1].size = t
  <2>1. ~HoldsCoords(ns[1].type)
    BY <1>2 DEF HoldsCoords, MULTIPOLYGON, POINT, LINESTRING, RING
  <2> QED
    BY <1>1, <1>2, <2>1, GeometryNodes, PartsBounded
<1>4. ss \in Seq(Seq(Nat)) /\ Len(ss) = n /\ \A i \in 1 .. n : ss[i] = ns[i].xs
  BY <1>1, <1>2, SequencesType
<1>5. /\ ks \in Seq(Seq(W)) /\ Len(ks) = n
      /\ \A i \in 1 .. n : ks[i] = IF ns[i].type = POLYGON THEN << RingsOf(ns, i) >> ELSE << >>
  BY <1>1, <1>2, PolygonListType
<1>6. PICK hc : JoinsTo(hc, ss, Nat)
  BY <1>4, JoinsExist
<1>7. PICK hp : JoinsTo(hp, ks, W)
  BY <1>5, JoinsExist
<1>8. /\ hc \in [0 .. n -> Seq(Nat)] /\ hp \in [0 .. n -> Seq(W)]
      /\ AllCoords(ns) = hc[n] /\ PolygonsOf(ns) = hp[n]
  BY <1>1, <1>4, <1>5, <1>6, <1>7 DEF JoinsTo, AllCoords, PolygonsOf, PolygonList
<1>9. hc[1] = << >> /\ hp[1] = << >>
  <2>1. 1 \in 1 .. n /\ (1 - 1) = 0 /\ 0 \in 0 .. n
    BY <1>2
  <2>2. ss[1] = << >> /\ ks[1] = << >>
    <3>1. DOMAIN ns = 1 .. n /\ ~HoldsCoords(ns[1].type) /\ ns[1].type # POLYGON
      BY <1>1, <1>2 DEF HoldsCoords, MULTIPOLYGON, POINT, LINESTRING, RING, POLYGON
    <3>2. ns[1].xs = << >>
      BY <1>2, <3>1 DEF WellFormed
    <3> QED
      BY <1>2, <1>4, <1>5, <3>1, <3>2
  <2>3. /\ hc[0] = << >> /\ hc[1] = hc[0] \o ss[1]
        /\ hp[0] = << >> /\ hp[1] = hp[0] \o ks[1]
    BY <1>4, <1>5, <1>6, <1>7, <2>1 DEF JoinsTo, Joins
  <2>4. << >> \o << >> = << >>
    OBVIOUS
  <2> QED
    BY <2>2, <2>3, <2>4
<1>10. PICK q : q = AppendSize(st, 0, t)
  OBVIOUS
<1>11. q \in Ending
  BY <1>3, <1>10, SizeAppended DEF Lvl
<1>12. PICK f : GroupsOf(f, st, g)
  BY <1>3, GroupsLoop
<1>13. /\ f[0] = [st |-> q, at |-> 2]
       /\ \A k \in 1 .. t : f[k] = [st |-> AppendPolygonOffsets(f[k - 1].st, g, f[k - 1].at, 1),
                                    at |-> PolygonAfter(g, f[k - 1].at)]
       /\ AppendMultiPolygonOffsets(st, g) = f[t].st
  BY <1>3, <1>10, <1>12 DEF GroupsOf
<1> DEFINE At(k, p, r) == /\ Between(ns, p, k) /\ Len(hp[p - 1]) = k
                          /\ Extends(q, cs, r, cs \o hc[p - 1], hp[p - 1])
           T == {k \in 0 .. t : At(k, f[k].at, f[k].st)}
<1>14. 0 \in T
  <2>1. f[0].at = 2 /\ f[0].st = q /\ 2 - 1 = 1
    BY <1>13
  <2>2. Between(ns, 2, 0)
    BY BetweenFirst
  <2>3. cs \o hc[1] = cs /\ Len(hp[1]) = 0
    BY <1>9
  <2>4. Extends(q, cs, q, cs, << >>)
    BY <1>11, ExtendsNone
  <2>5. At(0, 2, q)
    BY <1>9, <2>1, <2>2, <2>3, <2>4
  <2> HIDE DEF At
  <2> QED
    BY <1>3, <2>1, <2>5
<1>15. ASSUME NEW k \in 0 .. t - 1, k \in T
       PROVE  k + 1 \in T
  <2>1. k \in Nat /\ k + 1 \in 1 .. t /\ (k + 1) - 1 = k /\ k + 1 \in 0 .. t /\ k # t
    BY <1>3
  <2>2. PICK p, r : p = f[k].at /\ r = f[k].st
    OBVIOUS
  <2>3. At(k, p, r)
    BY <1>15, <2>2
  <2>4. Between(ns, p, k) /\ Len(hp[p - 1]) = k /\ Extends(q, cs, r, cs \o hc[p - 1], hp[p - 1])
    BY <2>3
  <2>5. p # n + 1
    BY <1>1, <2>1, <2>4, BetweenLast
  <2>6. p \in 2 .. n /\ ns[p].type = POLYGON /\ p - 1 \in 0 .. n
    <3>1. p \in 2 .. n + 1 /\ (p # n + 1 => ns[p].type = POLYGON)
      BY <1>1, <2>4 DEF Between
    <3> QED
      BY <1>2, <2>5, <3>1
  <2>7. PICK m, u : m = Cardinality(Parts(ns, p)) /\ u = RingsOf(ns, p)
    OBVIOUS
  <2>8. /\ u \in W /\ Len(u) = m /\ g[p].size = m /\ Sized(Sequel(g, p), u)
        /\ hc[p + m] = hc[p - 1] \o FlattenSeq(u) /\ hp[p + m] = Append(hp[p - 1], u)
    <3>1. /\ JoinsTo(hc, Sequences(ns), Nat) /\ JoinsTo(hp, PolygonList(ns), Seq(Seq(Nat)))
          /\ p \in 2 .. Len(ns)
      BY <1>1, <1>6, <1>7, <2>6
    <3>2. PolygonTakes(ns, p, m, hc, hp, RingsOf(ns, p))
      BY <2>6, <2>7, <3>1, PolygonJoins
    <3> QED
      BY <1>1, <2>7, <3>2 DEF PolygonTakes
  <2>9. m \in Nat /\ p + m <= n
    BY <1>1, <2>6, <2>7, RingsOfPolygon DEF MultiPolygonNodes
  <2>10. Between(ns, p + m + 1, k + 1)
    BY <1>1, <2>1, <2>4, <2>5, <2>7, BetweenNext
  <2>11. PICK c, x, d : c = hc[p - 1] /\ x = hp[p - 1] /\ d = FlattenSeq(u)
    OBVIOUS
  <2>12. c \in Seq(Nat) /\ x \in Seq(W) /\ d \in Seq(Nat) /\ u \in Seq(Seq(Nat))
    <3>1. u \in Seq(Seq(Nat))
      BY <1>1, <2>8
    <3> QED
      BY <1>8, <2>6, <2>11, <3>1, FlattenTyped
  <2>13. PICK r2 : r2 = AppendPolygonOffsets(r, g, p, 1)
    OBVIOUS
  <2>14. Extends(q, cs, r2, (cs \o c) \o d, Append(x, u))
    <3>1. PICK ds : ds = cs \o c
      OBVIOUS
    <3>2. Extends(q, cs, r, ds, x)
      BY <2>4, <2>11, <3>1
    <3>3. x \in Seq(Seq(Seq(Nat))) /\ g[p].size = Len(u)
      BY <1>1, <2>8, <2>12
    <3>4. Extends(q, cs, r2, ds \o d, Append(x, u))
      BY <1>11, <2>8, <2>11, <2>12, <2>13, <3>2, <3>3, PolygonExtends
    <3> QED
      BY <3>1, <3>4
  <2>15. (cs \o c) \o d = cs \o (c \o d)
    <3>1. Associates(Nat)
      BY JoinAssociates
    <3> QED
      BY <2>12, <3>1 DEF Associates
  <2>16. (p + m + 1) - 1 = p + m
    BY <2>6, <2>9
  <2>17. Len(Append(x, u)) = k + 1
    BY <2>4, <2>8, <2>11, <2>12, AppendProperties
  <2>18. At(k + 1, p + m + 1, r2)
    BY <2>8, <2>10, <2>11, <2>14, <2>15, <2>16, <2>17
  <2>19. f[k + 1].st = r2 /\ f[k + 1].at = p + m + 1
    <3>1. f[(k + 1) - 1] = f[k]
      BY <2>1
    <3>2. f[k + 1] = [st |-> AppendPolygonOffsets(f[k].st, g, f[k].at, 1),
                      at |-> PolygonAfter(g, f[k].at)]
      BY <1>13, <2>1, <3>1
    <3>3. PolygonAfter(g, p) = p + m + 1
      BY <2>8 DEF PolygonAfter
    <3> QED
      BY <2>2, <2>13, <3>2, <3>3
  <2> HIDE DEF At
  <2> QED
    BY <2>1, <2>18, <2>19
<1>16. t \in T
  <2> HIDE DEF T
  <2>1. t \in 0 .. t
    BY <1>3
  <2> QED
    BY <1>3, <1>14, <1>15, <2>1, IntervalInduction
<1>17. PICK p, r : p = f[t].at /\ r = f[t].st
  OBVIOUS
<1>18. /\ Between(ns, p, t) /\ Len(hp[p - 1]) = t
       /\ Extends(q, cs, r, cs \o hc[p - 1], hp[p - 1])
  BY <1>16, <1>17
<1>19. p = n + 1 /\ p - 1 = n
  BY <1>1, <1>2, <1>3, <1>18, BetweenLast
<1>20. PICK x, ds : x = PolygonsOf(ns) /\ ds = cs \o AllCoords(ns)
  OBVIOUS
<1>21. Extends(AppendSize(st, 0, Len(x)), cs, r, ds, x) /\ Len(x) \in Nat
  BY <1>3, <1>8, <1>10, <1>18, <1>19, <1>20
<1>22. Adds(3, st, cs, r, ds, x)
  BY <1>21, ExtendsAdds
<1>23. x \in Seq(W)
  BY <1>2, <1>8, <1>20
<1> QED
  BY <1>1, <1>13, <1>17, <1>20, <1>22, <1>23

(* A polygon is a multipolygon of its own.                                 *)
LEMMA PolygonAdds ==
  ASSUME NativeAssumption, NEW st \in Ending, NEW cs \in Seq(Nat), NEW geom, NEW i,
         NEW lists \in Seq(Seq(Nat)), Sized(Sequel(geom, i), lists),
         geom[i].size = Len(lists)
  PROVE  Adds(3, st, cs, AppendPolygonOffsets(AppendSize(st, 0, 1), geom, i, 1),
              cs \o FlattenSeq(lists), << lists >>)
<1>1. PICK q, r, ds, x : /\ q = AppendSize(st, 0, 1) /\ ds = cs \o FlattenSeq(lists)
                         /\ r = AppendPolygonOffsets(q, geom, i, 1) /\ x = << lists >>
  OBVIOUS
<1>2. q \in Ending
  BY <1>1, SizeAppended DEF Lvl
<1>3. PICK none : none = << >> /\ none \in Seq(Seq(Seq(Nat)))
  <2>1. << >> \in Seq(Seq(Seq(Nat)))
    OBVIOUS
  <2> QED
    BY <2>1
<1>4. Extends(q, cs, q, cs, none)
  BY <1>2, <1>3, ExtendsNone
<1>5. Extends(q, cs, r, ds, Append(none, lists))
  <2>1. Extends(q, cs, AppendPolygonOffsets(q, geom, i, 1), cs \o FlattenSeq(lists),
                Append(none, lists))
    BY <1>2, <1>3, <1>4, PolygonExtends
  <2> QED
    BY <1>1, <2>1
<1>6. Append(none, lists) = x /\ Len(x) = 1
  <2>1. << >> \o << lists >> = << lists >>
    OBVIOUS
  <2>2. Append(none, lists) = none \o << lists >>
    BY <1>3, AppendIsConcat
  <2> QED
    BY <1>1, <1>3, <2>1, <2>2
<1>7. Extends(AppendSize(st, 0, Len(x)), cs, r, ds, x) /\ Len(x) \in Nat
  BY <1>1, <1>5, <1>6
<1>8. Adds(3, st, cs, r, ds, x)
  BY <1>7, ExtendsAdds
<1> QED
  BY <1>1, <1>8

(* The sequences after the node at p are all there is.                     *)
Heads(ns, p, lists) ==
  /\ lists \in Seq(Seq(Nat)) /\ Sized(Sequel(GeometryOf(ns), p), lists)
  /\ GeometryOf(ns)[p].size = Len(lists)
  /\ AllCoords(ns) = FlattenSeq(lists) /\ SequencesOf(ns) = lists

(* All that SequencesAdd asks of a node with sequences. *)
LEMMA HeadLists ==
  ASSUME NEW ns \in Seq(NodeSet), NEW p, NEW m, HeadOf(ns, p, m)
  PROVE  Heads(ns, p, After(Sequences(ns), p, m))
<1>1. PICK u : u = After(Sequences(ns), p, m)
  OBVIOUS
<1>2. Followed(ns, p, m)
  BY DEF HeadOf
<1>3. u \in Seq(Seq(Nat)) /\ Len(u) = m /\ Sized(Sequel(GeometryOf(ns), p), u)
  BY <1>1, <1>2, SequencesAfter
<1>4. AllCoords(ns) = FlattenSeq(u) /\ SequencesOf(ns) = u
  BY <1>1, SequencesOfHead
<1>5. GeometryOf(ns)[p].size = m
  BY <1>2 DEF Followed
<1> QED
  BY <1>1, <1>3, <1>4, <1>5 DEF Heads

(* A polygon or multilinestring is such a node. *)
LEMMA HeadOfFirst ==
  ASSUME NEW ns \in Seq(NodeSet), WellFormed(ns), ns # << >>,
         ns[1].type \in {POLYGON, MULTILINESTRING}
  PROVE  HeadOf(ns, 1, Len(ns) - 1)
<1>1. PICK n, g : n = Len(ns) /\ g = GeometryOf(ns)
  OBVIOUS
<1>2. n \in Nat /\ n >= 1 /\ 1 \in 1 .. n /\ n - 1 \in Nat /\ 1 + (n - 1) = n /\ DOMAIN ns = 1 .. n
  BY <1>1, EmptySeq
<1>3. /\ Cardinality(Parts(ns, 1)) = n - 1
      /\ \A k \in 2 .. n : ns[k].type \in {RING, LINESTRING}
  BY <1>1, PartsOfFirst
<1>4. ~HoldsCoords(ns[1].type)
  BY DEF HoldsCoords, POLYGON, MULTILINESTRING, POINT, LINESTRING, RING
<1>5. g[1].size = n - 1
  BY <1>1, <1>2, <1>3, <1>4, GeometryNodes
<1>6. ns[1].xs = << >>
  BY <1>2, <1>4 DEF WellFormed
<1>7. \A k \in 1 + 1 .. 1 + (n - 1) : ns[k].type \in {RING, LINESTRING}
  BY <1>2, <1>3
<1>8. \A k \in 1 .. 1 : k = 1
  OBVIOUS
<1> QED
  BY <1>1, <1>2, <1>4, <1>5, <1>6, <1>7, <1>8 DEF HeadOf, Followed

(* The coordinates of a node and nothing else.                             *)
LEMMA JoinOfOne ==
  ASSUME NEW S, NEW x \in Seq(S)
  PROVE  FlattenSeq(<< x >>) = x
<1>1. PICK ks : ks = << x >>
  OBVIOUS
<1>2. ks \in Seq(Seq(S)) /\ Len(ks) = 1 /\ ks[1] = x
  BY <1>1
<1>3. PICK h : JoinsTo(h, ks, S)
  BY <1>2, JoinsExist
<1>4. h[0] = << >> /\ h[1] = h[0] \o ks[1] /\ FlattenSeq(ks) = h[1]
  <2>1. 1 \in 1 .. Len(ks) /\ 1 - 1 = 0
    BY <1>2
  <2> QED
    BY <1>2, <1>3, <2>1 DEF JoinsTo, Joins
<1>5. << >> \o x = x
  OBVIOUS
<1> QED
  BY <1>1, <1>2, <1>4, <1>5

(* A geometry of one node has the coordinates of it. *)
LEMMA CoordsOfOne ==
  ASSUME NEW ns \in Seq(NodeSet), Len(ns) = 1
  PROVE  /\ AllCoords(ns) = ns[1].xs /\ ns[1].xs \in Seq(Nat)
         /\ ns[1].type = LINESTRING => SequencesOf(ns) = << ns[1].xs >>
<1>1. PICK x : x = ns[1].xs
  OBVIOUS
<1>2. x \in Seq(Nat)
  <2>1. ns[1] \in NodeSet
    OBVIOUS
  <2> QED
    BY <1>1, <2>1 DEF NodeSet
<1>3. DOMAIN ns = 1 .. 1
  OBVIOUS
<1>4. Sequences(ns) = << x >>
  BY <1>1, <1>3 DEF Sequences
<1>5. AllCoords(ns) = x
  BY <1>2, <1>4, JoinOfOne DEF AllCoords
<1>6. ASSUME ns[1].type = LINESTRING
      PROVE  SequencesOf(ns) = << x >>
  <2>1. [i \in DOMAIN ns |-> IF ns[i].type \in {RING, LINESTRING} THEN << ns[i].xs >> ELSE << >>]
          = << << x >> >>
    BY <1>1, <1>3, <1>6
  <2>2. << x >> \in Seq(Seq(Nat))
    BY <1>2
  <2>3. PICK y, S : y = << x >> /\ S = Seq(Nat)
    OBVIOUS
  <2>4. FlattenSeq(<< y >>) = y
    BY <2>2, <2>3, JoinOfOne
  <2> QED
    BY <2>1, <2>3, <2>4 DEF SequencesOf
<1> QED
  BY <1>1, <1>2, <1>5, <1>6

(* A loop over one node appends its size. *)
LEMMA LineAppended ==
  ASSUME NativeAssumption, NEW st \in Ending, NEW l \in Lvl, NEW node, node.size \in Nat
  PROVE  AppendLinestringOffsets(st, << node >>, l) = AppendSize(st, l, node.size)
<1>1. PICK q : q = << node >>
  OBVIOUS
<1>2. Len(q) = 1 /\ q[1] = node /\ 1 \in Nat /\ \A k \in 1 .. 1 : q[k].size \in Nat
  BY <1>1
<1>3. PICK f : LoopOf(f, st, l, q)
  BY <1>2, LinesLoop
<1>4. /\ f[0] = st /\ f[1] = AppendSize(f[0], l, node.size)
      /\ AppendLinestringOffsets(st, q, l) = f[1]
  <2>1. 1 \in 1 .. Len(q) /\ 1 - 1 = 0
    BY <1>2
  <2> QED
    BY <1>2, <1>3, <2>1 DEF LoopOf
<1> QED
  BY <1>1, <1>4

(* Fitting geometries *)
LEMMA HeadOfSecond ==
  ASSUME NEW ns, MultiPolygonNodes(ns), Cardinality(Parts(ns, 1)) <= 1, AllCoords(ns) # << >>
  PROVE  HeadOf(ns, 2, Len(ns) - 2)
<1>1. PICK n, g : n = Len(ns) /\ g = GeometryOf(ns)
  OBVIOUS
<1>2. n \in Nat /\ n >= 1 /\ ns \in Seq(NodeSet) /\ WellFormed(ns) /\ DOMAIN ns = 1 .. n
  BY <1>1, EmptySeq DEF MultiPolygonNodes
<1>3. /\ ~HoldsCoords(MULTIPOLYGON) /\ ~HoldsCoords(POLYGON)
  BY DEF HoldsCoords, POLYGON, MULTIPOLYGON, POINT, LINESTRING, RING
<1>4. ns[1].xs = << >> /\ ns[1].type = MULTIPOLYGON
  BY <1>2, <1>3 DEF WellFormed, MultiPolygonNodes
<1>5. n >= 2
  <2>1. ASSUME n = 1
        PROVE  FALSE
    <3>1. AllCoords(ns) = ns[1].xs
      BY <1>1, <1>2, <2>1, CoordsOfOne
    <3> QED
      BY <1>4, <3>1
  <2> QED
    BY <1>2, <2>1
<1>6. ns[2].type = POLYGON /\ Parts(ns, 1) = {k \in 2 .. n : ns[k].type = POLYGON}
  BY <1>1, <1>5, PolygonsOfMulti DEF MultiPolygonNodes
<1>7. 2 \in 2 .. n /\ 2 \in 1 .. n /\ 1 \in 1 .. n
  BY <1>2, <1>5
<1>8. PICK m : m = Cardinality(Parts(ns, 2))
  OBVIOUS
<1>9. /\ m \in Nat /\ 2 + m <= n
      /\ \A k \in 2 + 1 .. 2 + m : ns[k].type = RING
      /\ 2 + m < n => ns[2 + m + 1].type = POLYGON
  BY <1>1, <1>2, <1>6, <1>7, <1>8, RingsOfPolygon DEF MultiPolygonNodes
<1>10. ASSUME 2 + m < n
       PROVE  FALSE
  <2>1. PICK q : q = 2 + m + 1
    OBVIOUS
  <2>2. q \in 2 .. n /\ q # 2 /\ ns[q].type = POLYGON
    BY <1>2, <1>9, <1>10, <2>1
  <2>3. PICK s, t : s = Parts(ns, 1) /\ t = {2, q}
    OBVIOUS
  <2>4. t \in SUBSET s
    BY <1>6, <1>7, <2>2, <2>3
  <2>5. IsFiniteSet(s)
    <3>1. IsFiniteSet(2 .. n) /\ s \in SUBSET (2 .. n)
      BY <1>2, <1>6, <2>3, FS_Interval
    <3> QED
      BY <3>1, FS_Subset
  <2>6. Cardinality(t) = 2
    <3>1. IsFiniteSet({2}) /\ Cardinality({2}) = 1
      BY FS_Singleton
    <3>2. t = {2} \cup {q} /\ q \notin {2}
      BY <2>2, <2>3
    <3> QED
      BY <3>1, <3>2, FS_AddElement
  <2>7. Cardinality(t) <= Cardinality(s)
    BY <2>4, <2>5, FS_Subset
  <2>8. Cardinality(s) \in Nat /\ Cardinality(s) <= 1
    BY <2>3, <2>5, FS_CardinalityType
  <2> QED
    BY <2>6, <2>7, <2>8
<1>11. m = n - 2 /\ n - 2 \in Nat /\ 2 + (n - 2) = n
  BY <1>2, <1>9, <1>10
<1>12. g[2].size = n - 2
  BY <1>1, <1>2, <1>3, <1>6, <1>7, <1>8, <1>11, GeometryNodes
<1>13. \A k \in 1 .. 2 : ~HoldsCoords(ns[k].type) /\ ns[k].xs = << >>
  <2>1. ns[2].xs = << >>
    BY <1>2, <1>3, <1>6, <1>7 DEF WellFormed
  <2>2. \A k \in 1 .. 2 : k = 1 \/ k = 2
    OBVIOUS
  <2> QED
    BY <1>3, <1>4, <1>6, <2>1, <2>2
<1>14. Followed(ns, 2, n - 2)
  <2>1. \A k \in 2 + 1 .. 2 + (n - 2) : ns[k].type \in {RING, LINESTRING}
    BY <1>9, <1>11
  <2> QED
    BY <1>1, <1>7, <1>11, <1>12, <2>1 DEF Followed
<1> QED
  BY <1>1, <1>11, <1>13, <1>14 DEF HeadOf

(* A polygon of its own.                                                   *)
LEMMA PolygonsOfOne ==
  ASSUME NEW ns \in Seq(NodeSet), WellFormed(ns), ns # << >>, ns[1].type = POLYGON
  PROVE  PolygonsOf(ns) = << After(Sequences(ns), 1, Len(ns) - 1) >>
<1>1. PICK n, ks, W, u, m : /\ n = Len(ns) /\ ks = PolygonList(ns) /\ m = n - 1
                         /\ W = Seq(Seq(Nat)) /\ u = RingsOf(ns, 1)
  OBVIOUS
<1>2. n \in Nat /\ n >= 1 /\ 1 \in 1 .. n /\ m \in Nat /\ 1 + m = n /\ 0 + 1 = 1 /\ 0 \in Nat
  BY <1>1, EmptySeq
<1>3. HeadOf(ns, 1, m)
  BY <1>1, HeadOfFirst
<1>4. Followed(ns, 1, m)
  BY <1>3 DEF HeadOf
<1>5. Cardinality(Parts(ns, 1)) = m
  BY <1>1, PartsOfFirst
<1>6. u = After(Sequences(ns), 1, m) /\ u \in W
  <2>1. PICK lists : lists = After(Sequences(ns), 1, m)
    OBVIOUS
  <2>2. lists \in Seq(Seq(Nat)) /\ lists = Sequences(SubSeq(ns, 1 + 1, 1 + m))
    BY <1>4, <2>1, SequencesAfter
  <2> QED
    BY <1>1, <1>5, <2>1, <2>2 DEF RingsOf
<1>7. /\ ks \in Seq(Seq(W)) /\ Len(ks) = n
      /\ \A i \in 1 .. n : ks[i] = IF ns[i].type = POLYGON THEN << RingsOf(ns, i) >> ELSE << >>
  BY <1>1, PolygonListType
<1>8. PICK h : JoinsTo(h, ks, W)
  BY <1>7, JoinsExist
<1>9. PICK z : z = << u >>
  OBVIOUS
<1>10. z \in Seq(W) /\ Len(z) = 1 /\ z[1] = u
  BY <1>6, <1>9
<1>11. h[0 + 1] = h[0] \o ks[1] /\ h[0] = << >> /\ PolygonsOf(ns) = h[n]
  <2>1. 1 \in 1 .. Len(ks) /\ 1 - 1 = 0
    BY <1>2, <1>7
  <2>2. PolygonsOf(ns) = FlattenSeq(ks)
    BY <1>1 DEF PolygonsOf, PolygonList
  <2> QED
    BY <1>2, <1>7, <1>8, <2>1, <2>2 DEF JoinsTo, Joins
<1>12. ks[1] = z
  BY <1>1, <1>2, <1>7, <1>9
<1>13. Empties(ks, 1, m)
  <2>1. ASSUME NEW k \in 1 .. m
        PROVE  ks[1 + k] = << >>
    <3>1. 1 + k \in 1 + 1 .. 1 + m /\ 1 + k \in 1 .. n
      BY <1>2
    <3>2. ns[1 + k].type # POLYGON
      BY <1>4, <3>1 DEF Followed, POLYGON, RING, LINESTRING
    <3> QED
      BY <1>7, <3>1, <3>2
  <2> QED
    BY <2>1 DEF Empties
<1>14. h[1 + m] = h[1]
  <2>1. 1 \in Nat /\ 1 + m <= Len(ks)
    BY <1>2, <1>7
  <2> QED
    BY <1>2, <1>7, <1>8, <1>13, <2>1, NoneAfter
<1>15. << >> \o z = z
  BY <1>10
<1> QED
  BY <1>1, <1>2, <1>6, <1>9, <1>11, <1>12, <1>14, <1>15

(* A geometry that is appended, and as what. *)
Appendable(ns) ==
  /\ ns \in Seq(NodeSet) /\ ns # << >> /\ ns[1].type # RING /\ WellFormed(ns)
  /\ AllCoords(ns) # << >>

(* The node the types are compared by, and its size. *)
LEMMA FirstNode ==
  ASSUME NEW ns, Appendable(ns)
  PROVE  /\ GeometryOf(ns)[1].type = ns[1].type /\ AllCoords(GeometryOf(ns)) = AllCoords(ns)
         /\ GeometryOf(ns)[1].size = IF HoldsCoords(ns[1].type) THEN Len(ns[1].xs)
                                     ELSE Cardinality(Parts(ns, 1))
         /\ Len(ns) \in Nat /\ Len(ns) >= 1 /\ 1 \in 1 .. Len(ns)
<1>1. Len(ns) \in Nat /\ Len(ns) >= 1 /\ 1 \in 1 .. Len(ns)
  BY EmptySeq DEF Appendable
<1> QED
  BY <1>1, GeometryNodes DEF Appendable

(* The coordinates of a geometry are a list of labels. *)
LEMMA AllCoordsType ==
  ASSUME NEW ns \in Seq(NodeSet)
  PROVE  AllCoords(ns) \in Seq(Nat)
<1>1. Sequences(ns) \in Seq(Seq(Nat))
  BY SequencesType
<1> QED
  BY <1>1, FlattenTyped DEF AllCoords

(* A linestring appends the number of its coordinates, at any level. *)
LEMMA LineAdds ==
  ASSUME NativeAssumption, NEW ns, Appendable(ns), NEW st \in Ending, NEW l \in Lvl,
         ns[1].type = LINESTRING
  PROVE  /\ AppendLinestringOffsets(st, << GeometryOf(ns)[1] >>, l)
              = AppendSize(st, l, Len(AllCoords(ns)))
         /\ Len(ns) = 1 /\ SequencesOf(ns) = << AllCoords(ns) >>
         /\ GeometryOf(ns)[1].size = Len(AllCoords(ns))
<1>1. HoldsCoords(ns[1].type)
  BY DEF HoldsCoords
<1>2. Len(ns) = 1
  BY <1>1, Alone DEF Appendable
<1>3. AllCoords(ns) = ns[1].xs /\ ns[1].xs \in Seq(Nat) /\ SequencesOf(ns) = << ns[1].xs >>
  BY <1>2, CoordsOfOne DEF Appendable
<1>4. GeometryOf(ns)[1].size = Len(AllCoords(ns))
  BY <1>1, <1>3, FirstNode
<1>5. PICK node : node = GeometryOf(ns)[1]
  OBVIOUS
<1>6. node.size \in Nat /\ node.size = Len(AllCoords(ns))
  BY <1>3, <1>4, <1>5
<1>7. AppendLinestringOffsets(st, << node >>, l) = AppendSize(st, l, node.size)
  BY <1>6, LineAppended
<1> QED
  BY <1>2, <1>3, <1>4, <1>5, <1>6, <1>7

(* A multilinestring of one linestring. *)
LEMMA OnlyLineAdds ==
  ASSUME NativeAssumption, NEW ns, Appendable(ns), NEW st \in Ending,
         ns[1].type = MULTILINESTRING, GeometryOf(ns)[1].size <= 1
  PROVE  AppendLinestringOffsets(st, << GeometryOf(ns)[2] >>, 0)
           = AppendSize(st, 0, Len(AllCoords(ns)))
<1>1. PICK n, g : n = Len(ns) /\ g = GeometryOf(ns)
  OBVIOUS
<1>2. ns \in Seq(NodeSet) /\ WellFormed(ns) /\ ns # << >> /\ n \in Nat /\ n >= 1
  BY <1>1, FirstNode DEF Appendable
<1>3. ~HoldsCoords(ns[1].type)
  BY DEF HoldsCoords, MULTILINESTRING, POINT, LINESTRING, RING
<1>4. Cardinality(Parts(ns, 1)) = n - 1 /\ \A k \in 2 .. n : ns[k].type \in {RING, LINESTRING}
  BY <1>1, <1>2, PartsOfFirst
<1>5. n - 1 <= 1
  BY <1>3, <1>4, FirstNode
<1>6. n # 1
  <2>1. ASSUME n = 1
        PROVE  FALSE
    <3>1. AllCoords(ns) = ns[1].xs
      BY <1>1, <1>2, <2>1, CoordsOfOne
    <3>2. ns[1].xs = << >>
      BY <1>1, <1>2, <1>3 DEF WellFormed
    <3> QED
      BY <3>1, <3>2 DEF Appendable
  <2> QED
    BY <2>1
<1>7. n = 2 /\ n - 1 = 1 /\ 2 \in 1 .. n /\ 2 \in 2 .. n
  BY <1>2, <1>5, <1>6
<1>8. PICK x : x = ns[2].xs
  OBVIOUS
<1>9. x \in Seq(Nat)
  <2>1. ns[2] \in NodeSet
    <3>1. \A i \in 1 .. Len(ns) : ns[i] \in NodeSet
      BY <1>2
    <3> QED
      BY <1>1, <1>7, <3>1
  <2> QED
    BY <1>8, <2>1 DEF NodeSet
<1>10. After(Sequences(ns), 1, 1) = << x >>
  <2>1. Sequences(ns)[2] = x
    BY <1>1, <1>2, <1>7, <1>8, SequencesType
  <2>2. \A k \in 1 .. 1 : 1 + k = 2
    OBVIOUS
  <2> QED
    BY <2>1, <2>2 DEF After
<1>11. AllCoords(ns) = x
  <2>1. HeadOf(ns, 1, n - 1)
    BY <1>1, <1>2, HeadOfFirst
  <2>2. Heads(ns, 1, After(Sequences(ns), 1, 1))
    BY <1>2, <1>7, <2>1, HeadLists
  <2>3. AllCoords(ns) = FlattenSeq(<< x >>)
    BY <1>10, <2>2 DEF Heads
  <2> QED
    BY <1>9, <2>3, JoinOfOne
<1>12. g[2].size = Len(x)
  <2>1. HoldsCoords(ns[2].type)
    BY <1>4, <1>7 DEF HoldsCoords
  <2> QED
    BY <1>1, <1>2, <1>7, <1>8, <2>1, GeometryNodes
<1>13. PICK node : node = g[2]
  OBVIOUS
<1>14. node.size \in Nat /\ node.size = Len(x)
  BY <1>9, <1>12, <1>13
<1>15. AppendLinestringOffsets(st, << node >>, 0) = AppendSize(st, 0, node.size)
  BY <1>14, LineAppended DEF Lvl
<1> QED
  BY <1>1, <1>11, <1>13, <1>14, <1>15

(* A geometry that arrays of linestrings or multipoints accept. *)
LEMMA FlatRowAdds ==
  ASSUME NativeAssumption, NEW ns, Appendable(ns), Written \in Ending, coords \in Seq(Nat),
         arrayType \in {LINESTRING, MULTIPOINT}, Accepts(GeometryOf(ns))
  PROVE  Adds(1, Written, coords, OffsetsOf(GeometryOf(ns)), coords \o AllCoords(ns), AllCoords(ns))
<1>1. PICK g, x, st : g = GeometryOf(ns) /\ x = AllCoords(ns) /\ st = Written
  OBVIOUS
<1>2. st \in Ending /\ x \in Seq(Nat) /\ 0 \in Lvl
  BY <1>1, AllCoordsType DEF Appendable, Lvl
<1>3. g[1].type = ns[1].type /\ AllCoords(g) = x
  BY <1>1, FirstNode
<1>4. OffsetsOf(g) = AppendSize(st, 0, Len(x))
  <2>1. CASE arrayType = MULTIPOINT
    BY <1>1, <1>3, <2>1 DEF OffsetsOf, POINT, LINESTRING, POLYGON,
        MULTIPOINT, MULTILINESTRING, MULTIPOLYGON
  <2>2. CASE arrayType = LINESTRING /\ ns[1].type = LINESTRING
    <3>1. OffsetsOf(g) = AppendLinestringOffsets(st, << g[1] >>, 0)
      BY <1>1, <1>3, <2>2 DEF OffsetsOf, POINT, LINESTRING, POLYGON,
        MULTIPOINT, MULTILINESTRING, MULTIPOLYGON
    <3> QED
      BY <1>1, <1>2, <2>2, <3>1, LineAdds
  <2>3. CASE arrayType = LINESTRING /\ ns[1].type # LINESTRING
    <3>1. ns[1].type = MULTILINESTRING /\ g[1].size <= 1
      BY <1>1, <1>3, <2>3 DEF Accepts, POINT, LINESTRING, POLYGON,
        MULTIPOINT, MULTILINESTRING, MULTIPOLYGON
    <3>2. OffsetsOf(g) = AppendLinestringOffsets(st, << g[2] >>, 0)
      BY <1>1, <1>3, <2>3 DEF OffsetsOf, POINT, LINESTRING, POLYGON,
        MULTIPOINT, MULTILINESTRING, MULTIPOLYGON
    <3> QED
      BY <1>1, <1>2, <3>1, <3>2, OnlyLineAdds
  <2> QED
    BY <2>1, <2>2, <2>3
<1>5. Adds(1, st, coords, AppendSize(st, 0, Len(x)), coords \o x, x)
  BY <1>2, CoordsAdd
<1> QED
  BY <1>1, <1>4, <1>5

(* A node with sequences adds them to an array of polygons. *)
LEMMA HeadAdds ==
  ASSUME NativeAssumption, NEW ns \in Seq(NodeSet), NEW p, NEW m, HeadOf(ns, p, m),
         NEW st \in Ending, NEW cs \in Seq(Nat)
  PROVE  /\ SequencesOf(ns) \in Seq(Seq(Nat))
         /\ Adds(2, st, cs, AppendPolygonOffsets(st, GeometryOf(ns), p, 0),
                 cs \o AllCoords(ns), SequencesOf(ns))
<1>1. PICK lists : lists = After(Sequences(ns), p, m)
  OBVIOUS
<1>2. Heads(ns, p, lists)
  BY <1>1, HeadLists
<1>3. /\ lists \in Seq(Seq(Nat)) /\ Sized(Sequel(GeometryOf(ns), p), lists)
      /\ GeometryOf(ns)[p].size = Len(lists)
      /\ AllCoords(ns) = FlattenSeq(lists) /\ SequencesOf(ns) = lists
  BY <1>2 DEF Heads
<1>4. Adds(2, st, cs, AppendPolygonOffsets(st, GeometryOf(ns), p, 0),
           cs \o FlattenSeq(lists), lists)
  BY <1>3, SequencesAdd
<1> QED
  BY <1>3, <1>4

(* A linestring is a multilinestring of its own.                           *)
LEMMA LineRowAdds ==
  ASSUME NativeAssumption, NEW ns, Appendable(ns), NEW st \in Ending, NEW cs \in Seq(Nat),
         ns[1].type = LINESTRING
  PROVE  /\ SequencesOf(ns) \in Seq(Seq(Nat))
         /\ Adds(2, st, cs,
                 AppendLinestringOffsets(AppendSize(st, 0, 1), << GeometryOf(ns)[1] >>, 1),
                 cs \o AllCoords(ns), SequencesOf(ns))
<1>1. PICK x, g1, lists, geom : /\ x = AllCoords(ns) /\ g1 = GeometryOf(ns)[1]
                                /\ lists = << x >> /\ geom = << [size |-> 1], g1 >>
  OBVIOUS
<1>2. SequencesOf(ns) = lists /\ g1.size = Len(x)
  <2>1. PICK l \in Lvl : l = 1
    BY DEF Lvl
  <2> QED
    BY <1>1, <2>1, LineAdds
<1>3. x \in Seq(Nat) /\ lists \in Seq(Seq(Nat)) /\ Len(lists) = 1 /\ lists[1] = x
  <2>1. x \in Seq(Nat)
    BY <1>1, AllCoordsType DEF Appendable
  <2> QED
    BY <1>1, <2>1
<1>4. geom[1].size = 1 /\ Sequel(geom, 1) = << g1 >>
  <2>1. geom[1].size = 1 /\ Len(geom) = 2 /\ geom[2] = g1
    BY <1>1
  <2>2. Sequel(geom, 1) = SubSeq(geom, 2, 2)
    BY <2>1 DEF Sequel
  <2>3. SubSeq(geom, 2, 2) = [i \in 1 .. 1 |-> geom[i + 1]]
    OBVIOUS
  <2>4. \A i \in 1 .. 1 : geom[i + 1] = g1
    BY <2>1
  <2> QED
    BY <2>1, <2>2, <2>3, <2>4
<1>5. Sized(Sequel(geom, 1), lists)
  BY <1>2, <1>3, <1>4 DEF Sized
<1>6. Adds(2, st, cs, AppendPolygonOffsets(st, geom, 1, 0), cs \o FlattenSeq(lists), lists)
  BY <1>3, <1>4, <1>5, SequencesAdd
<1>7. AppendPolygonOffsets(st, geom, 1, 0)
        = AppendLinestringOffsets(AppendSize(st, 0, 1), << g1 >>, 1)
  BY <1>4 DEF AppendPolygonOffsets
<1>8. FlattenSeq(lists) = x
  BY <1>1, <1>3, JoinOfOne
<1> QED
  BY <1>1, <1>2, <1>3, <1>6, <1>7, <1>8

(* A geometry that arrays of polygons or multilinestrings accept. *)
LEMMA SequencesRowAdds ==
  ASSUME NativeAssumption, NEW ns, Appendable(ns), Written \in Ending, coords \in Seq(Nat),
         arrayType \in {POLYGON, MULTILINESTRING}, Accepts(GeometryOf(ns))
  PROVE  /\ SequencesOf(ns) \in Seq(Seq(Nat))
         /\ Adds(2, Written, coords, OffsetsOf(GeometryOf(ns)), coords \o AllCoords(ns),
                 SequencesOf(ns))
<1>1. PICK g, t, st, n : g = GeometryOf(ns) /\ t = ns[1].type /\ st = Written /\ n = Len(ns)
  OBVIOUS
<1>2. g[1].type = t /\ st \in Ending /\ ns \in Seq(NodeSet)
  BY <1>1, FirstNode DEF Appendable
<1>3. CASE t \in {POLYGON, MULTILINESTRING}
  <2>1. HeadOf(ns, 1, n - 1)
    BY <1>1, <1>3, HeadOfFirst DEF Appendable
  <2>2. OffsetsOf(g) = AppendPolygonOffsets(st, g, 1, 0)
    <3>1. CASE arrayType = POLYGON
      <4>1. t = POLYGON
        BY <1>1, <1>2, <1>3, <3>1 DEF Accepts, POINT, LINESTRING, POLYGON,
           MULTIPOINT, MULTILINESTRING, MULTIPOLYGON
      <4> QED
        BY <1>1, <1>2, <3>1, <4>1 DEF OffsetsOf, POINT, LINESTRING, POLYGON,
           MULTIPOINT, MULTILINESTRING, MULTIPOLYGON
    <3>2. CASE arrayType = MULTILINESTRING
      <4>1. t = MULTILINESTRING
        BY <1>1, <1>2, <1>3, <3>2 DEF Accepts, POINT, LINESTRING, POLYGON,
           MULTIPOINT, MULTILINESTRING, MULTIPOLYGON
      <4> QED
        BY <1>1, <1>2, <3>2, <4>1 DEF OffsetsOf, POINT, LINESTRING, POLYGON,
           MULTIPOINT, MULTILINESTRING, MULTIPOLYGON
    <3> QED
      BY <3>1, <3>2
  <2> QED
    BY <1>1, <1>2, <2>1, <2>2, HeadAdds
<1>4. CASE arrayType = POLYGON /\ t \notin {POLYGON, MULTILINESTRING}
  <2>1. t = MULTIPOLYGON /\ g[1].size <= 1
    BY <1>1, <1>2, <1>4 DEF Accepts, POINT, LINESTRING, POLYGON,
       MULTIPOINT, MULTILINESTRING, MULTIPOLYGON
  <2>2. MultiPolygonNodes(ns)
    BY <1>1, <2>1 DEF Appendable, MultiPolygonNodes
  <2>3. Cardinality(Parts(ns, 1)) <= 1
    <3>1. ~HoldsCoords(t)
      BY <2>1 DEF HoldsCoords, MULTIPOLYGON, POINT, LINESTRING, RING
    <3> QED
      BY <1>1, <2>1, <3>1, FirstNode
  <2>4. HeadOf(ns, 2, n - 2)
    BY <1>1, <2>2, <2>3, HeadOfSecond DEF Appendable
  <2>5. OffsetsOf(g) = AppendPolygonOffsets(st, g, 2, 0)
    BY <1>1, <1>2, <1>4, <2>1 DEF OffsetsOf, POINT, LINESTRING, POLYGON,
       MULTIPOINT, MULTILINESTRING, MULTIPOLYGON
  <2> QED
    BY <1>1, <1>2, <2>4, <2>5, HeadAdds
<1>5. CASE arrayType = MULTILINESTRING /\ t \notin {POLYGON, MULTILINESTRING}
  <2>1. t = LINESTRING
    BY <1>1, <1>2, <1>5 DEF Accepts, POINT, LINESTRING, POLYGON,
       MULTIPOINT, MULTILINESTRING, MULTIPOLYGON
  <2>2. OffsetsOf(g) = AppendLinestringOffsets(AppendSize(st, 0, 1), << g[1] >>, 1)
    BY <1>1, <1>2, <1>5, <2>1 DEF OffsetsOf, POINT, LINESTRING, POLYGON,
       MULTIPOINT, MULTILINESTRING, MULTIPOLYGON
  <2> QED
    BY <1>1, <1>2, <2>1, <2>2, LineRowAdds
<1> QED
  BY <1>3, <1>4, <1>5

(* A geometry that arrays of multipolygons accept. *)
LEMMA PolygonsRowAdds ==
  ASSUME NativeAssumption, NEW ns, Appendable(ns), Written \in Ending, coords \in Seq(Nat),
         arrayType = MULTIPOLYGON, Accepts(GeometryOf(ns))
  PROVE  /\ PolygonsOf(ns) \in Seq(Seq(Seq(Nat)))
         /\ Adds(3, Written, coords, OffsetsOf(GeometryOf(ns)), coords \o AllCoords(ns),
                 PolygonsOf(ns))
<1>1. PICK g, t, st, n : g = GeometryOf(ns) /\ t = ns[1].type /\ st = Written /\ n = Len(ns)
  OBVIOUS
<1>2. g[1].type = t /\ st \in Ending /\ ns \in Seq(NodeSet)
  BY <1>1, FirstNode DEF Appendable
<1>3. CASE t = POLYGON
  <2>1. PICK lists : lists = After(Sequences(ns), 1, n - 1)
    OBVIOUS
  <2>2. PolygonsOf(ns) = << lists >>
    BY <1>1, <1>3, <2>1, PolygonsOfOne DEF Appendable
  <2>3. HeadOf(ns, 1, n - 1)
    BY <1>1, <1>3, HeadOfFirst DEF Appendable
  <2>4. Heads(ns, 1, lists)
    BY <1>2, <2>1, <2>3, HeadLists
  <2>5. /\ lists \in Seq(Seq(Nat)) /\ Sized(Sequel(g, 1), lists)
        /\ g[1].size = Len(lists) /\ AllCoords(ns) = FlattenSeq(lists)
    BY <1>1, <2>4 DEF Heads
  <2>6. Adds(3, st, coords, AppendPolygonOffsets(AppendSize(st, 0, 1), g, 1, 1),
             coords \o FlattenSeq(lists), << lists >>)
    BY <1>2, <2>5, PolygonAdds
  <2>7. OffsetsOf(g) = AppendPolygonOffsets(AppendSize(st, 0, 1), g, 1, 1)
    BY <1>1, <1>2, <1>3 DEF OffsetsOf, POINT, LINESTRING, POLYGON,
       MULTIPOINT, MULTILINESTRING, MULTIPOLYGON
  <2>8. << lists >> \in Seq(Seq(Seq(Nat)))
    BY <2>5
  <2> QED
    BY <1>1, <2>2, <2>5, <2>6, <2>7, <2>8
<1>4. CASE t # POLYGON
  <2>1. t = MULTIPOLYGON
    BY <1>1, <1>2, <1>4 DEF Accepts, POINT, LINESTRING, POLYGON,
       MULTIPOINT, MULTILINESTRING, MULTIPOLYGON
  <2>2. MultiPolygonNodes(ns)
    BY <1>1, <2>1 DEF Appendable, MultiPolygonNodes
  <2>3. OffsetsOf(g) = AppendMultiPolygonOffsets(st, g)
    BY <1>1, <1>2, <1>4 DEF OffsetsOf, POINT, LINESTRING, POLYGON,
       MULTIPOINT, MULTILINESTRING, MULTIPOLYGON
  <2> QED
    BY <1>1, <1>2, <2>2, <2>3, GroupsAdd
<1> QED
  BY <1>3, <1>4

(* Rows *)
(* A point is a coordinate. *)
LEMMA PointAppended ==
  ASSUME NEW st \in Ending, NEW cs \in Seq(Nat), NEW x \in Nat
  PROVE  MoreRows(0, st, cs, st, Append(cs, x), x)
<1>1. Append(cs, x) \in Seq(Nat) /\ Len(Append(cs, x)) = Len(cs) + 1
  OBVIOUS
<1> QED
  BY <1>1 DEF MoreRows, RowCount, Countable, AllSettled, LowerSettled, Nested

(* A null, or a geometry without coordinates, is a row of its own. *)
LEMMA EmptyRowAppended ==
  ASSUME NativeAssumption, depth \in 0 .. 3, Written \in Ending, coords \in Seq(Nat),
         NEW ns, AllCoords(ns) = << >>, AppendEmpty
  PROVE  MoreRows(depth, Written, coords, Written', coords', AppendedShape(ns))
<1>1. Written' = [offsets |-> offsets', last |-> lastOffset']
  BY DEF Written
<1>2. CASE depth = 0
  <2>1. coords' = Append(coords, NaN) /\ Written' = Written /\ AppendedShape(ns) = NaN
    BY <1>1, <1>2 DEF AppendEmpty, AppendedShape, Written
  <2>2. NaN \in Nat
    BY DEF NaN
  <2> QED
    BY <1>2, <2>1, <2>2, PointAppended
<1>3. CASE depth # 0
  <2>1. PICK r : r = AppendSize(Written, 0, 0)
    OBVIOUS
  <2>2. depth \in 1 .. 3 /\ depth > 0
    BY <1>3
  <2>3. coords' = coords /\ offsets' = r.offsets /\ lastOffset' = r.last
    BY <1>3, <2>1 DEF AppendEmpty
  <2>4. r = [offsets |-> r.offsets, last |-> r.last]
    BY <2>1 DEF AppendSize
  <2>5. Written' = r
    BY <1>1, <2>3, <2>4
  <2>6. AppendedShape(ns) = << >>
    BY <2>2 DEF AppendedShape
  <2>7. Adds(depth, Written, coords, r, coords, << >>)
    BY <2>1, <2>2, EmptyAdds
  <2>8. PICK none : none = << >> /\ none \in Seq(ElementKind(depth))
    <3>1. << >> \in Seq(ElementKind(depth))
      OBVIOUS
    <3> QED
      BY <3>1
  <2>9. MoreRows(depth, Written, coords, r, coords, none)
    BY <2>2, <2>7, <2>8, RowAppended
  <2> QED
    BY <2>3, <2>5, <2>6, <2>8, <2>9
<1> QED
  BY <1>2, <1>3

(* What is written for a geometry is one row more, its shape.              *)
LEMMA GeometryAdds ==
  ASSUME NativeAssumption, depth \in 1 .. 3, Written \in Ending, coords \in Seq(Nat),
         arrayType \in TypesOfDepth(depth), NEW ns, Appendable(ns), Accepts(GeometryOf(ns))
  PROVE  /\ AppendedShape(ns) \in Seq(ElementKind(depth))
         /\ Adds(depth, Written, coords, OffsetsOf(GeometryOf(ns)), coords \o AllCoords(ns),
                 AppendedShape(ns))
<1>1. AllCoords(ns) # << >> /\ ns \in Seq(NodeSet)
  BY DEF Appendable
<1>2. CASE depth = 1
  <2>1. arrayType \in {LINESTRING, MULTIPOINT}
    BY <1>2 DEF TypesOfDepth
  <2>2. AppendedShape(ns) = AllCoords(ns)
    BY <1>1, <1>2 DEF AppendedShape
  <2>3. AllCoords(ns) \in Seq(ElementKind(1))
    BY <1>1, AllCoordsType DEF ElementKind
  <2> QED
    BY <1>2, <2>1, <2>2, <2>3, FlatRowAdds
<1>3. CASE depth = 2
  <2>1. arrayType \in {POLYGON, MULTILINESTRING}
    BY <1>3 DEF TypesOfDepth
  <2>2. AppendedShape(ns) = SequencesOf(ns)
    BY <1>1, <1>3 DEF AppendedShape
  <2>3. ElementKind(2) = Seq(Nat)
    BY DEF ElementKind
  <2> QED
    BY <1>3, <2>1, <2>2, <2>3, SequencesRowAdds
<1>4. CASE depth = 3
  <2>1. arrayType = MULTIPOLYGON
    BY <1>4 DEF TypesOfDepth
  <2>2. AppendedShape(ns) = PolygonsOf(ns)
    BY <1>1, <1>4 DEF AppendedShape
  <2>3. ElementKind(3) = Seq(Seq(Nat))
    BY DEF ElementKind
  <2> QED
    BY <1>4, <2>1, <2>2, <2>3, PolygonsRowAdds
<1> QED
  BY <1>2, <1>3, <1>4

(* So is a geometry with coordinates. *)
LEMMA GeometryRowAppended ==
  ASSUME NativeAssumption, depth \in 0 .. 3, Written \in Ending, coords \in Seq(Nat),
         arrayType \in TypesOfDepth(depth), NEW ns, Appendable(ns), AppendGeometry(ns)
  PROVE  MoreRows(depth, Written, coords, Written', coords', AppendedShape(ns))
<1>1. PICK g, r, x : g = GeometryOf(ns) /\ r = OffsetsOf(g) /\ x = AllCoords(ns)
  OBVIOUS
<1>2. /\ Accepts(g) /\ offsets' = r.offsets /\ lastOffset' = r.last
      /\ coords' = coords \o AllCoords(g)
  BY <1>1 DEF AppendGeometry
<1>3. AllCoords(g) = x /\ x \in Seq(Nat) /\ x # << >>
  BY <1>1, FirstNode, AllCoordsType DEF Appendable
<1>4. Written' = [offsets |-> r.offsets, last |-> r.last]
  BY <1>2 DEF Written
<1>5. CASE depth = 0
  <2>1. arrayType = POINT
    BY <1>5 DEF TypesOfDepth
  <2>2. Len(x) = 1 /\ r = Written
    BY <1>1, <1>2, <1>3, <2>1 DEF Accepts, OffsetsOf, POINT, LINESTRING, POLYGON,
       MULTIPOINT, MULTILINESTRING, MULTIPOLYGON
  <2>3. Written' = Written
    BY <1>4, <2>2 DEF Written
  <2>4. AppendedShape(ns) = x[1] /\ x[1] \in Nat
    BY <1>1, <1>3, <1>5, <2>2 DEF AppendedShape
  <2>5. coords' = Append(coords, x[1])
    <3>1. x = << x[1] >>
      BY <1>3, <2>2
    <3>2. Append(coords, x[1]) = coords \o << x[1] >>
      BY <2>4, AppendIsConcat
    <3> QED
      BY <1>2, <1>3, <3>1, <3>2
  <2>6. PICK e : e = x[1]
    OBVIOUS
  <2>7. MoreRows(0, Written, coords, Written, Append(coords, e), e)
    BY <2>4, <2>6, PointAppended
  <2> QED
    BY <1>5, <2>3, <2>4, <2>5, <2>6, <2>7
<1>6. CASE depth # 0
  <2>1. depth \in 1 .. 3
    BY <1>6
  <2>2. /\ AppendedShape(ns) \in Seq(ElementKind(depth))
        /\ Adds(depth, Written, coords, r, coords \o x, AppendedShape(ns))
    BY <1>1, <1>2, <2>1, GeometryAdds
  <2>3. PICK y, ds, st : y = AppendedShape(ns) /\ ds = coords \o x /\ st = Written
    OBVIOUS
  <2>4. MoreRows(depth, st, coords, r, ds, y)
    BY <2>1, <2>2, <2>3, RowAppended
  <2>5. r \in Ending
    BY <2>2 DEF Adds
  <2>6. r = [offsets |-> r.offsets, last |-> r.last]
    BY <2>5 DEF Ending
  <2> QED
    BY <1>2, <1>3, <1>4, <2>3, <2>4, <2>6
<1> QED
  BY <1>5, <1>6

(* Every appended feature has a row and its validity; and as long as the   *)
(* elements can be counted, its lists end at the last element below and    *)
(* the rows are the shapes.                                                *)
ValidityKnown ==
  /\ validity \in Bitmap
  /\ ~validity.data => validity.bits = << >>
  /\ validity.data => Len(validity.bits) = Len(rows)
  /\ \A i \in 1 .. Len(rows) : IsValid(validity, i) = ~rows[i].null

(* As long as the elements can be counted, the lists end at the last       *)
(* element below, and the rows are the shapes of the features.             *)
ShapesAppended ==
  Countable(depth, coords, offsets) =>
    /\ AllSettled(depth, Written, coords)
    /\ Nested(depth, coords, offsets) = [i \in 1 .. Len(rows) |-> AppendedShape(rows[i].nodes)]

(* Types of the state of a writer that is appended to. *)
AppendTypes ==
  /\ depth \in 0 .. 3 /\ arrayType \in TypesOfDepth(depth)
  /\ Written \in Ending /\ coords \in Seq(Nat)
  /\ rows \in Seq(FeatureSet) /\ currentLength = Len(rows)

(* The inductive invariant of a writer that is appended to: the offsets    *)
(* and the last ones agree with the lists under them, as long as those can *)
(* be counted.                                                             *)
AppendInv ==
  appends => /\ AppendTypes /\ ValidityKnown /\ ShapesAppended
             /\ RowCount(depth, coords, offsets) = Len(rows)

(* The validity of a row more. *)
LEMMA ValidityAppended ==
  ASSUME ValidityKnown, rows \in Seq(FeatureSet), currentLength = Len(rows),
         NEW isNull \in BOOLEAN, NEW ns \in Seq(NodeSet), Appended(isNull, ns)
  PROVE  /\ ValidityKnown' /\ rows' \in Seq(FeatureSet) /\ currentLength' = Len(rows')
         /\ Len(rows') = Len(rows) + 1 /\ rows' = Append(rows, [null |-> isNull, nodes |-> ns])
<1>1. PICK n, row : n = Len(rows) + 1 /\ row = [null |-> isNull, nodes |-> ns]
  OBVIOUS
<1>2. row \in FeatureSet /\ row.null = isNull
  BY <1>1 DEF FeatureSet
<1>3. rows' = Append(rows, row) /\ currentLength' = currentLength + 1
  BY <1>1 DEF Appended, AppendValidity
<1>4. /\ n \in Nat \ {0} /\ Len(rows) = n - 1 /\ rows' \in Seq(FeatureSet) /\ Len(rows') = n
      /\ rows'[n] = row /\ \A i \in 1 .. n - 1 : rows'[i] = rows[i]
  BY <1>1, <1>2, <1>3, AppendProperties
<1>5. validity' = IF isNull THEN MarkNull(validity, n) ELSE MarkValid(validity)
  BY <1>1 DEF Appended, AppendValidity
<1>6. /\ validity \in Bitmap /\ (~validity.data => validity.bits = << >>)
      /\ (validity.data => Len(validity.bits) = n - 1)
      /\ \A i \in 1 .. n - 1 : IsValid(validity, i) = ~rows[i].null
  BY <1>4 DEF ValidityKnown
<1>7. validity' \in Bitmap
  BY <1>4, <1>5, <1>6, BitmapTypes
<1>8. (~validity'.data => validity'.bits = << >>) /\ (validity'.data => Len(validity'.bits) = n)
  <2>1. CASE isNull
    BY <1>4, <1>5, <1>6, <2>1, MarkNullCounts
  <2>2. CASE ~isNull
    BY <1>4, <1>5, <1>6, <2>2, MarkValidCounts
  <2> QED
    BY <2>1, <2>2
<1>9. ASSUME NEW i \in 1 .. n - 1
      PROVE  IsValid(validity', i) = ~rows'[i].null
  <2>1. IsValid(validity', i) = IsValid(validity, i)
    BY <1>4, <1>5, <1>6, ValidityKept
  <2> QED
    BY <1>4, <1>6, <2>1
<1>10. IsValid(validity', n) = ~isNull
  <2>1. PICK bits : bits = validity.bits
    OBVIOUS
  <2>2. bits \in Seq(Bit)
    BY <1>6, <2>1 DEF Bitmap
  <2>3. CASE isNull /\ ~validity.data
    <3>1. validity'.bits = [i \in 1 .. n |-> IF i = n THEN 0 ELSE 1]
      BY <1>5, <2>3 DEF MarkNull
    <3>2. Len(validity'.bits) = n /\ validity'.bits[n] = 0
      BY <1>4, <3>1
    <3> QED
      BY <1>4, <2>3, <3>2, EmptySeq DEF IsValid
  <2>4. CASE validity.data
    <3>1. PICK bit \in Bit : bit = IF isNull THEN 0 ELSE 1
      BY DEF Bit
    <3>2. validity'.bits = Append(bits, bit)
      BY <1>5, <2>1, <2>4, <3>1 DEF MarkNull, MarkValid, AppendBit
    <3>3. Len(bits) = n - 1
      BY <1>6, <2>1, <2>4
    <3>4. Len(Append(bits, bit)) = n /\ Append(bits, bit)[n] = bit
      BY <1>4, <2>2, <3>3, AppendProperties
    <3> QED
      BY <1>4, <3>1, <3>2, <3>4, EmptySeq DEF IsValid
  <2>5. CASE ~isNull /\ ~validity.data
    <3>1. validity'.bits = << >>
      BY <1>5, <1>6, <2>5 DEF MarkValid
    <3> QED
      BY <2>5, <3>1 DEF IsValid
  <2> QED
    BY <2>3, <2>4, <2>5
<1>11. \A i \in 1 .. n : IsValid(validity', i) = ~rows'[i].null
  <2>1. \A i \in 1 .. n : i = n \/ i \in 1 .. n - 1
    BY <1>4
  <2> QED
    BY <1>2, <1>4, <1>9, <1>10, <2>1
<1> QED
  BY <1>1, <1>3, <1>4, <1>7, <1>8, <1>11 DEF ValidityKnown

(* A row more, and its shape. *)
LEMMA RowStepAppended ==
  ASSUME AppendTypes, ValidityKnown, ShapesAppended,
         RowCount(depth, coords, offsets) = Len(rows),
         NEW isNull \in BOOLEAN, NEW ns \in Seq(NodeSet), Appended(isNull, ns),
         MoreRows(depth, Written, coords, Written', coords', AppendedShape(ns))
  PROVE  AppendInv'
<1>1. depth' = depth /\ arrayType' = arrayType
  BY DEF Appended
<1>2. /\ ValidityKnown' /\ rows' \in Seq(FeatureSet) /\ currentLength' = Len(rows')
      /\ Len(rows') = Len(rows) + 1 /\ rows' = Append(rows, [null |-> isNull, nodes |-> ns])
  BY ValidityAppended DEF AppendTypes
<1>3. Written.offsets = offsets /\ Written'.offsets = offsets'
  BY DEF Written
<1>4. /\ Written' \in Ending /\ coords' \in Seq(Nat)
      /\ RowCount(depth, coords', offsets') = RowCount(depth, coords, offsets) + 1
      /\ Countable(depth, coords', offsets') =>
           /\ Countable(depth, coords, offsets)
           /\ AllSettled(depth, Written, coords) =>
                /\ AllSettled(depth, Written', coords')
                /\ Nested(depth, coords', offsets')
                     = Append(Nested(depth, coords, offsets), AppendedShape(ns))
  BY <1>3 DEF MoreRows
<1>5. AppendTypes'
  BY <1>1, <1>2, <1>4 DEF AppendTypes, TypesOfDepth
<1>6. RowCount(depth, coords, offsets)' = Len(rows)'
  BY <1>1, <1>2, <1>4 DEF RowCount
<1>7. ASSUME Countable(depth, coords', offsets')
      PROVE  /\ AllSettled(depth, Written', coords')
             /\ Nested(depth, coords', offsets')
                  = [i \in 1 .. Len(rows') |-> AppendedShape(rows'[i].nodes)]
  <2>1. PICK s, x, n : /\ s = Nested(depth, coords, offsets) /\ x = AppendedShape(ns)
                       /\ n = Len(rows)
    OBVIOUS
  <2>2. s = [i \in 1 .. n |-> AppendedShape(rows[i].nodes)] /\ AllSettled(depth, Written, coords)
    BY <1>4, <1>7, <2>1 DEF ShapesAppended
  <2>3. AllSettled(depth, Written', coords') /\ Nested(depth, coords', offsets') = Append(s, x)
    BY <1>4, <1>7, <2>1, <2>2
  <2>4. n \in Nat /\ \A i \in 1 .. n : rows'[i] = rows[i]
    BY <1>2, <2>1, AppendProperties DEF AppendTypes
  <2>5. rows'[n + 1].nodes = ns
    BY <1>2, <2>1 DEF AppendTypes
  <2>6. Append(s, x) = [i \in 1 .. n + 1 |-> IF i \in 1 .. n THEN s[i] ELSE x]
    BY <2>2, <2>4
  <2>7. ASSUME NEW i \in 1 .. n + 1
        PROVE  (IF i \in 1 .. n THEN s[i] ELSE x) = AppendedShape(rows'[i].nodes)
    <3>1. CASE i \in 1 .. n
      BY <2>2, <2>4, <3>1
    <3>2. CASE i = n + 1
      BY <2>1, <2>4, <2>5, <3>2
    <3> QED
      BY <2>4, <3>1, <3>2
  <2>8. Append(s, x) = [i \in 1 .. n + 1 |-> AppendedShape(rows'[i].nodes)]
    BY <2>6, <2>7
  <2> QED
    BY <1>2, <2>1, <2>3, <2>8
<1>8. ShapesAppended'
  <2>1. \A i \in 1 .. Len(rows') : AppendedShape(rows[i].nodes)' = AppendedShape(rows'[i].nodes)
    BY <1>1 DEF AppendedShape
  <2>2. /\ Countable(depth, coords, offsets)' <=> Countable(depth, coords', offsets')
        /\ AllSettled(depth, Written, coords)' <=> AllSettled(depth, Written', coords')
        /\ Nested(depth, coords, offsets)' = Nested(depth, coords', offsets')
    BY <1>1
  <2> QED
    BY <1>1, <1>7, <2>1, <2>2 DEF ShapesAppended
<1> QED
  BY <1>2, <1>5, <1>6, <1>8 DEF AppendInv

(* A batch that starts has no rows. *)
LEMMA FreshRows ==
  ASSUME NEW d \in 0 .. 3, NEW st, st = [offsets |-> FreshOffsets(d), last |-> NoOffsets]
  PROVE  /\ st \in Ending /\ RowCount(d, << >>, st.offsets) = 0
         /\ AllSettled(d, st, << >>) /\ Nested(d, << >>, st.offsets) = << >>
<1>1. PICK zero : zero = << 0 >>
  OBVIOUS
<1>2. /\ st.offsets \in [Lvl -> Seq(Int)] /\ st.last \in [Lvl -> Int]
      /\ \A l \in Lvl : st.last[l] = 0 /\ (l < d => st.offsets[l] = zero)
  BY <1>1 DEF FreshOffsets, NoOffsets
<1>3. st \in Ending
  BY <1>2 DEF Ending
<1>4. Len(zero) = 1 /\ zero[1] = 0 /\ zero \in Seq(Nat) /\ LastOf(zero) = 0 /\ Cuts(zero, 0)
  BY <1>1 DEF LastOf, Cuts
<1>5. \A x : Cut(x, zero) = << >>
  BY <1>4 DEF Cut
<1>6. 0 \in Lvl /\ 1 \in Lvl /\ 2 \in Lvl
  BY DEF Lvl
<1>7. /\ d >= 1 => st.offsets[0] = zero
      /\ d >= 2 => st.offsets[1] = zero
      /\ d = 3 => st.offsets[2] = zero
  BY <1>2, <1>6
<1>8. PICK none : none = << >> /\ Len(none) = 0
  OBVIOUS
<1>9. \A x : Cut(x, zero) = none
  BY <1>5, <1>8
<1>10. RowCount(d, << >>, st.offsets) = 0
  <2>1. RowCount(d, none, st.offsets) = 0
    BY <1>4, <1>7, <1>8 DEF RowCount
  <2> QED
    BY <1>8, <2>1
<1>11. Nested(d, << >>, st.offsets) = << >>
  <2>1. Nested(d, none, st.offsets) = none
    <3>1. d \in {0, 1, 2, 3}
      OBVIOUS
    <3>2. d = 0 => Nested(d, none, st.offsets) = none
      BY DEF Nested
    <3>3. d = 1 => Nested(d, none, st.offsets) = none
      BY <1>7, <1>9 DEF Nested
    <3>4. d = 2 => Nested(d, none, st.offsets) = none
      BY <1>7, <1>9 DEF Nested
    <3>5. d = 3 => Nested(d, none, st.offsets) = none
      BY <1>7, <1>9 DEF Nested
    <3> QED
      BY <3>1, <3>2, <3>3, <3>4, <3>5
  <2> QED
    BY <1>8, <2>1
<1>12. ASSUME NEW l \in Lvl, l < d
      PROVE  Ends(st, l, << >>)
  BY <1>2, <1>4, <1>12 DEF Ends
<1>13. Below(d, << >>, st.offsets) = << >>
  BY <1>2, <1>5, <1>6 DEF Below
<1>14. d = 3 => Cut(<< >>, st.offsets[2]) = << >>
  BY <1>7, <1>8, <1>9
<1>15. (d >= 1 => Ends(st, 0, << >>)) /\ (d >= 2 => Ends(st, d - 1, << >>))
       /\ (d = 3 => Ends(st, 1, << >>))
  BY <1>6, <1>12 DEF Lvl
<1> QED
  BY <1>3, <1>10, <1>11, <1>13, <1>14, <1>15 DEF AllSettled, LowerSettled

(* The invariant of such a batch. *)
LEMMA FreshAppendInv ==
  ASSUME depth \in 0 .. 3, arrayType \in TypesOfDepth(depth), coords = << >>, rows = << >>,
         offsets = FreshOffsets(depth), lastOffset = NoOffsets, currentLength = 0,
         validity \in Bitmap, validity.bits = << >>
  PROVE  AppendInv
<1>1. /\ Written \in Ending /\ RowCount(depth, << >>, Written.offsets) = 0
      /\ AllSettled(depth, Written, << >>) /\ Nested(depth, << >>, Written.offsets) = << >>
  <2>1. Written = [offsets |-> FreshOffsets(depth), last |-> NoOffsets]
    BY DEF Written
  <2> QED
    BY <2>1, FreshRows
<1>2. Written.offsets = offsets
  BY DEF Written
<1>3. Len(rows) = 0 /\ 1 .. Len(rows) = {} /\ rows \in Seq(FeatureSet) /\ coords \in Seq(Nat)
      /\ Len(validity.bits) = 0
  BY EmptySeq
<1>4. AppendTypes
  BY <1>1, <1>3 DEF AppendTypes
<1>5. ValidityKnown
  BY <1>3 DEF ValidityKnown
<1>6. Nested(depth, coords, offsets) = [i \in 1 .. Len(rows) |-> AppendedShape(rows[i].nodes)]
  <2>1. Nested(depth, coords, offsets) = << >>
    BY <1>1, <1>2
  <2>2. Len(rows) = 0
    BY <1>3
  <2>3. [i \in 1 .. 0 |-> AppendedShape(rows[i].nodes)] = << >>
    OBVIOUS
  <2> QED
    BY <2>1, <2>2, <2>3
<1>7. ShapesAppended
  BY <1>1, <1>6 DEF ShapesAppended
<1> QED
  BY <1>1, <1>2, <1>3, <1>4, <1>5, <1>7 DEF AppendInv

(* The initial states satisfy it. *)
LEMMA AppendInitInv == ASSUME NativeAssumption, AppendInit PROVE AppendInv
<1>1. /\ depth \in 0 .. 3 /\ arrayType \in TypesOfDepth(depth) /\ coords = << >> /\ rows = << >>
      /\ offsets = FreshOffsets(depth) /\ lastOffset = NoOffsets /\ currentLength = 0
      /\ validity = NoBitmap
  BY NativeAssumption DEF AppendInit, Init, ProtocolInit, NativeAssumption
<1>2. validity \in Bitmap /\ validity.bits = << >>
  BY <1>1, NoBitmapType DEF NoBitmap
<1> QED
  BY <1>1, <1>2, FreshAppendInv

(* It holds after Finish, whether the bitmap kept its memory or not. *)
LEMMA AppendFinishInv == ASSUME AppendInv, appends, AppendFinish PROVE AppendInv'
<1>1. AppendTypes /\ ValidityKnown
  BY DEF AppendInv
<1>2. /\ depth' = depth /\ arrayType' = arrayType /\ coords' = << >> /\ rows' = << >>
      /\ offsets' = FreshOffsets(depth) /\ lastOffset' = NoOffsets /\ currentLength' = 0
      /\ validity' = Emptied(validity)
  BY DEF AppendFinish, Finish, Restart, BatchDone
<1>3. validity' \in Bitmap /\ validity'.bits = << >>
  BY <1>1, <1>2, EmptySeq DEF ValidityKnown, Emptied, Bitmap
<1>4. (depth \in 0 .. 3 /\ arrayType \in TypesOfDepth(depth) /\ offsets = FreshOffsets(depth)
        /\ lastOffset = NoOffsets)'
  BY <1>1, <1>2 DEF AppendTypes, TypesOfDepth, FreshOffsets, NoOffsets
<1>5. (depth \in 0 .. 3 /\ arrayType \in TypesOfDepth(depth) /\ coords = << >> /\ rows = << >>
        /\ offsets = FreshOffsets(depth) /\ lastOffset = NoOffsets /\ currentLength = 0
        /\ validity \in Bitmap /\ validity.bits = << >> => AppendInv)'
  BY FreshAppendInv, PTL
<1> QED
  BY <1>2, <1>3, <1>4, <1>5

(* Every step keeps it, the ones of a visited writer included. *)
LEMMA AppendNextInv ==
  ASSUME NativeAssumption, GeometriesAssumption, AppendInv, [AppendNext]_<< vars, appendVars >>
  PROVE  AppendInv'
<1>1. CASE ~appends /\ ~appends'
  BY <1>1 DEF AppendInv
<1>2. CASE UNCHANGED << vars, appendVars >>
  <2>1. /\ appends' = appends /\ depth' = depth /\ arrayType' = arrayType /\ coords' = coords
        /\ rows' = rows /\ offsets' = offsets /\ lastOffset' = lastOffset
        /\ currentLength' = currentLength /\ validity' = validity
    BY <1>2 DEF vars, appendVars, protocolVars, writerVars, bitVars, listVars
  <2>2. AppendTypes' = AppendTypes /\ ValidityKnown' = ValidityKnown
        /\ ShapesAppended' = ShapesAppended
        /\ RowCount(depth, coords, offsets)' = RowCount(depth, coords, offsets)
    BY <2>1 DEF AppendTypes, TypesOfDepth, Written, ValidityKnown, ShapesAppended, RowCount,
       Countable, AllSettled, LowerSettled, Below, Ends, Nested, AppendedShape
  <2> QED
    BY <2>1, <2>2 DEF AppendInv
<1>3. CASE ~appends /\ Next /\ UNCHANGED appendVars
  BY <1>1, <1>3 DEF appendVars
<1>4. CASE appends /\ AppendFinish
  BY <1>4, AppendFinishInv
<1>5. ASSUME NEW isNull \in BOOLEAN, NEW ns, Appended(isNull, ns), AppendEmpty,
             isNull => ns = << >>, ~isNull => ns \in Geometries, AllCoords(ns) = << >>
      PROVE  AppendInv'
  <2>1. /\ AppendTypes /\ ValidityKnown /\ ShapesAppended
        /\ RowCount(depth, coords, offsets) = Len(rows)
    BY <1>5 DEF AppendInv, Appended
  <2>2. ns \in Seq(NodeSet)
    BY <1>5, EmptySeq, GeometriesAssumption DEF GeometriesAssumption
  <2>3. MoreRows(depth, Written, coords, Written', coords', AppendedShape(ns))
    BY <1>5, <2>1, EmptyRowAppended DEF AppendTypes
  <2> QED
    BY <1>5, <2>1, <2>2, <2>3, RowStepAppended
<1>6. ASSUME NEW ns \in Geometries, AppendGeometry(ns)
      PROVE  AppendInv'
  <2>1. Appended(FALSE, ns) /\ AllCoords(ns) # << >>
    BY <1>6 DEF AppendGeometry
  <2>2. /\ AppendTypes /\ ValidityKnown /\ ShapesAppended
        /\ RowCount(depth, coords, offsets) = Len(rows)
    BY <2>1 DEF AppendInv, Appended
  <2>3. Appendable(ns) /\ ns \in Seq(NodeSet)
    BY <2>1, GeometriesAssumption DEF GeometriesAssumption, Appendable
  <2>4. MoreRows(depth, Written, coords, Written', coords', AppendedShape(ns))
    BY <1>6, <2>2, <2>3, GeometryRowAppended DEF AppendTypes
  <2>5. PICK no \in BOOLEAN : no = FALSE
    OBVIOUS
  <2> QED
    BY <2>1, <2>2, <2>3, <2>4, <2>5, RowStepAppended
<1>7. ASSUME NEW ns \in Geometries, AppendWithoutCoords(ns)
      PROVE  AppendInv'
  <2>1. PICK no \in BOOLEAN : no = FALSE
    OBVIOUS
  <2>2. Appended(no, ns) /\ AppendEmpty /\ AllCoords(ns) = << >>
    BY <1>7, <2>1 DEF AppendWithoutCoords
  <2> QED
    BY <1>5, <2>1, <2>2
<1>8. CASE AppendNull
  <2>1. PICK yes \in BOOLEAN : yes = TRUE
    OBVIOUS
  <2>2. PICK none : none = << >>
    OBVIOUS
  <2>3. Appended(yes, none) /\ AppendEmpty /\ AllCoords(none) = << >>
    BY <1>8, <2>1, <2>2, NoCoords DEF AppendNull
  <2> QED
    BY <1>5, <2>1, <2>2, <2>3
<1>9. ASSUME NEW ns \in Geometries, AppendRefused(ns)
      PROVE  AppendInv'
  BY <1>2, <1>9 DEF AppendRefused
<1> QED
  BY <1>2, <1>3, <1>4, <1>6, <1>7, <1>8, <1>9 DEF AppendNext

(* It implies the property, of the batch that is open. *)
LEMMA AppendedDecoded ==
  ASSUME NativeAssumption, AppendInv
  PROVE  AppendedRowsAreShapes
<1> SUFFICES ASSUME appends, ElementsCountable
             PROVE  Decoded = [i \in DOMAIN rows |->
                      [valid |-> ~rows[i].null, value |-> AppendedShape(rows[i].nodes)]]
  BY DEF AppendedRowsAreShapes
<1>1. AppendTypes /\ ValidityKnown /\ ShapesAppended
  BY DEF AppendInv
<1>2. PICK all, n : all = Nested(depth, coords, offsets) /\ n = Len(rows)
  OBVIOUS
<1>3. n \in Nat /\ DOMAIN rows = 1 .. n
  BY <1>1, <1>2 DEF AppendTypes
<1>4. Countable(depth, coords, offsets)
  <2>1. depth \in 0 .. 3
    BY <1>1 DEF AppendTypes
  <2> QED
    BY <2>1 DEF ElementsCountable, Elements, Countable
<1>5. all = [i \in 1 .. n |-> AppendedShape(rows[i].nodes)]
  BY <1>1, <1>2, <1>4 DEF ShapesAppended
<1>6. Len(all) = n
  BY <1>3, <1>5
<1>7. Rows(n) = all
  <2>1. Rows(n) = SubSeq(all, 1, n)
    BY <1>2, <1>3, <1>6 DEF Rows
  <2>2. SubSeq(all, 1, n) = [i \in 1 .. n |-> all[i]]
    BY <1>3, <1>5
  <2> QED
    BY <1>5, <2>1, <2>2
<1>8. ASSUME NEW i \in 1 .. n
      PROVE  /\ IsValid(validity, i) = ~rows[i].null
             /\ Rows(n)[i] = AppendedShape(rows[i].nodes)
  BY <1>1, <1>2, <1>5, <1>7 DEF ValidityKnown
<1>9. Decoded = [i \in 1 .. n |-> [valid |-> IsValid(validity, i), value |-> Rows(n)[i]]]
  BY <1>2 DEF Decoded
<1> QED
  BY <1>3, <1>8, <1>9

(* Whatever geometries are appended, refused and finished before, every    *)
(* row of the batch decodes to the geometry that was appended, null        *)
(* exactly when a null was (GeoArrowNativeWriterAppend,                    *)
(* native_writer.c:425), as long as every level has at most 2^31 - 1       *)
(* elements.                                                               *)
THEOREM AppendedRowsCorrect == AppendSpec => []AppendedRowsAreShapes
<1>1. AppendInit => AppendInv
  BY NativeAssumption, AppendInitInv
<1>2. AppendInv /\ [AppendNext]_<< vars, appendVars >> => AppendInv'
  BY NativeAssumption, GeometriesAssumption, AppendNextInv
<1>3. AppendInv => AppendedRowsAreShapes
  BY NativeAssumption, AppendedDecoded
<1> QED
  BY <1>1, <1>2, <1>3, PTL DEF AppendSpec
=============================================================================
