--------------------------- MODULE SchedulerProofs ---------------------------
(***************************************************************************)
(* Proofs about Scheduler, for any number of tests, clones and schedule()  *)
(* calls.  The invariant is split in two: Queues says where processes are, *)
(* Accounts says which exits have been announced and reported.  Accounts   *)
(* sees the queues only through the set of live processes, so schedule(),  *)
(* which moves processes without creating or ending any, disturbs it only  *)
(* by delivering one notice.                                               *)
(***************************************************************************)
EXTENDS Scheduler, SequenceTheorems, TLAPS

-----------------------------------------------------------------------------
(* Sequences without duplicates.                                           *)

\* Two index ranges that are equal have the same length, which makes the size of
\* a Vector a function of its indices.
LEMMA IntervalLength ==
  ASSUME NEW m \in Nat, NEW n \in Nat, 1..m = 1..n
  PROVE  m = n
<1>1. ~(m < n)
  <2> SUFFICES ASSUME m < n PROVE FALSE
    OBVIOUS
  <2>1. n \in 1..n /\ n \notin 1..m
    OBVIOUS
  <2> QED BY <2>1
<1>2. ~(n < m)
  <2> SUFFICES ASSUME n < m PROVE FALSE
    OBVIOUS
  <2>1. m \in 1..m /\ m \notin 1..n
    OBVIOUS
  <2> QED BY <2>1
<1> QED BY <1>1, <1>2

\* Vector::erase returns a vector, one shorter, with the other elements.
LEMMA EraseSeq ==
  ASSUME NEW S, NEW s \in Seq(S), NEW i \in DOMAIN s
  PROVE  /\ Erase(s, i) \in Seq(S)
         /\ Len(Erase(s, i)) = Len(s) - 1
         /\ \A j \in 1..(Len(s) - 1) :
              Erase(s, i)[j] = IF j < i THEN s[j] ELSE s[j + 1]
<1> DEFINE n == Len(s) - 1
           t == Erase(s, i)
<1>1. n \in Nat /\ DOMAIN s = 1..Len(s) /\ Len(s) \in Nat
  BY LenProperties
<1>2. t = [j \in 1..n |-> IF j < i THEN s[j] ELSE s[j + 1]]
  BY DEF Erase
<1>3. t \in [1..n -> S]
  BY <1>1, <1>2, ElementOfSeq
<1>4. t \in Seq(S)
  BY <1>1, <1>3, SeqDef
<1>5. Len(t) = n
  <2>1. DOMAIN t = 1..Len(t) /\ Len(t) \in Nat
    BY <1>4, LenProperties
  <2>2. 1..Len(t) = 1..n
    BY <1>3, <2>1
  <2> QED BY <1>1, <2>1, <2>2, IntervalLength
<1> QED
  BY <1>2, <1>4, <1>5

\* The elements of a queue of processes are processes.
LEMMA RangeInSet ==
  ASSUME NEW S, NEW s \in Seq(S)
  PROVE  Range(s) \subseteq S
BY ElementOfSeq, LenProperties DEF Range

\* Erasing one element of a queue without duplicates removes that element only.
LEMMA EraseInjective ==
  ASSUME NEW S, NEW s \in Seq(S), NEW i \in DOMAIN s, IsInjective(s)
  PROVE  /\ IsInjective(Erase(s, i))
         /\ Range(Erase(s, i)) = Range(s) \ {s[i]}
<1> DEFINE t == Erase(s, i)
<1>1. /\ t \in Seq(S)
      /\ Len(t) = Len(s) - 1
      /\ \A j \in 1..(Len(s) - 1) : t[j] = IF j < i THEN s[j] ELSE s[j + 1]
  BY EraseSeq
<1>2. /\ DOMAIN s = 1..Len(s)
      /\ DOMAIN t = 1..(Len(s) - 1)
      /\ Len(s) \in Nat
  BY <1>1, LenProperties
<1> HIDE DEF t
<1>3. IsInjective(t)
  <2> SUFFICES ASSUME NEW a \in 1..(Len(s) - 1), NEW b \in 1..(Len(s) - 1),
                      t[a] = t[b]
               PROVE  a = b
    BY <1>2 DEF IsInjective
  <2> DEFINE up(k) == IF k < i THEN k ELSE k + 1
  <2>1. up(a) \in 1..Len(s) /\ up(b) \in 1..Len(s) /\ i \in 1..Len(s)
    BY <1>2
  <2>2. t[a] = s[up(a)] /\ t[b] = s[up(b)]
    BY <1>1, <1>2
  <2>3. up(a) = up(b)
    BY <1>2, <2>1, <2>2 DEF IsInjective
  <2> QED BY <1>2, <2>1, <2>3
<1>4. Range(t) \subseteq Range(s) \ {s[i]}
  BY <1>1, <1>2 DEF IsInjective, Range
<1>5. ASSUME NEW x \in Range(s) \ {s[i]}
      PROVE  x \in Range(t)
  <2>1. PICK k \in 1..Len(s) : s[k] = x
    BY <1>2 DEF Range
  <2>2. k # i /\ i \in 1..Len(s)
    BY <1>2, <2>1
  <2>3. CASE k < i
    <3>1. k \in 1..(Len(s) - 1) /\ t[k] = s[k]
      BY <1>1, <1>2, <2>2, <2>3
    <3> QED BY <1>2, <2>1, <3>1 DEF Range
  <2>4. CASE k > i
    <3>1. k - 1 \in 1..(Len(s) - 1) /\ t[k - 1] = s[(k - 1) + 1]
      BY <1>1, <1>2, <2>2, <2>4
    <3> QED BY <1>2, <2>1, <3>1 DEF Range
  <2> QED BY <1>2, <2>2, <2>3, <2>4
<1> QED BY <1>3, <1>4, <1>5 DEF t

\* push_back of a new element adds that element only.
LEMMA AppendInjectiveRange ==
  ASSUME NEW S, NEW s \in Seq(S), NEW e \in S
  PROVE  /\ Append(s, e) \in Seq(S)
         /\ Range(Append(s, e)) = Range(s) \cup {e}
         /\ IsInjective(s) /\ e \notin Range(s) => IsInjective(Append(s, e))
<1> DEFINE t == Append(s, e)
<1>1. /\ t \in Seq(S)
      /\ Len(t) = Len(s) + 1
      /\ \A i \in 1..Len(s) : t[i] = s[i]
      /\ t[Len(s) + 1] = e
  BY AppendProperties
<1>2. /\ DOMAIN s = 1..Len(s)
      /\ DOMAIN t = 1..(Len(s) + 1)
      /\ Len(s) \in Nat
  BY <1>1, LenProperties
<1> HIDE DEF t
<1>3. Range(t) = Range(s) \cup {e}
  BY <1>1, <1>2 DEF Range
<1>4. ASSUME IsInjective(s), e \notin Range(s)
      PROVE  IsInjective(t)
  BY <1>1, <1>2, <1>4 DEF IsInjective, Range
<1> QED BY <1>1, <1>3, <1>4 DEF t

-----------------------------------------------------------------------------
(* The two halves of the invariant, as predicates of values.               *)

LiveIn(r, rq, bq) == ({r} \ {NoPid}) \cup Range(rq) \cup Range(bq)

Queues(r, rq, bq) ==
  /\ r \in Pid \cup {NoPid}
  /\ rq \in Seq(Pid)
  /\ bq \in Seq(Pid)
  /\ IsInjective(rq)
  /\ IsInjective(bq)
  /\ Range(rq) \cap Range(bq) = {}
  /\ r \notin Range(rq) \cup Range(bq)

Notices(L, sg, rp, pp, gp) ==
  \A q \in Pid : \A i \in 1..Len(sg[q]) :
    /\ q \in L
    /\ sg[q][i] \in (2..gp) \ L
    /\ pp[sg[q][i]] = q
    /\ rp[sg[q][i]] = "no"
    /\ \A j \in 1..Len(sg[q]) : sg[q][j] = sg[q][i] => i = j

NoLoss(L, sg, rp, pp, gp) ==
  \A c \in (2..gp) \ L :
    pp[c] \in L => rp[c] # "no" \/ \E i \in 1..Len(sg[pp[c]]) : sg[pp[c]][i] = c

Book(L, sg, rp, pp, gp) ==
  /\ sg \in [Pid -> Seq(Pid)]
  /\ rp \in [Pid -> Report]
  /\ pp \in [Pid -> Pid \cup {1}]
  /\ gp \in Nat
  /\ 2..gp \subseteq Pid
  /\ L \subseteq 2..gp
  /\ \A c \in 2..gp : pp[c] \in 1..(c - 1)
  /\ \A c \in Pid : c \in L \/ c \notin 2..gp => rp[c] = "no"

Accounts(L, sg, rp, pp, gp) ==
  /\ Book(L, sg, rp, pp, gp)
  /\ Notices(L, sg, rp, pp, gp)
  /\ NoLoss(L, sg, rp, pp, gp)

\* Notify as a function of values.
Notified(L, sg, pp, p) ==
  [q \in Pid |-> IF q = p THEN <<>>
                 ELSE IF q = pp[p] /\ q \in L THEN Append(sg[q], p)
                 ELSE sg[q]]

\* PCB::kill keeps the accounts: the dead process leaves the live ones and its
\* notice reaches a live parent.
LEMMA Death ==
  ASSUME NEW L, NEW sg, NEW rp, NEW pp, NEW gp, NEW p \in L,
         Accounts(L, sg, rp, pp, gp)
  PROVE  Accounts(L \ {p}, Notified(L, sg, pp, p), rp, pp, gp)
<1> DEFINE M == L \ {p}
           N == Notified(L, sg, pp, p)
<1>1. /\ Book(L, sg, rp, pp, gp)
      /\ Notices(L, sg, rp, pp, gp)
      /\ NoLoss(L, sg, rp, pp, gp)
  BY DEF Accounts
<1>2. /\ p \in 2..gp
      /\ p \in Pid
      /\ pp[p] # p
      /\ rp[p] = "no"
  BY <1>1 DEF Book
<1>3. \A q \in Pid : sg[q] \in Seq(Pid) /\ Len(sg[q]) \in Nat
  BY <1>1, LenProperties DEF Book
<1>4. ASSUME NEW q \in Pid, q = pp[p], q \in L
      PROVE  /\ N[q] \in Seq(Pid)
             /\ Len(N[q]) = Len(sg[q]) + 1
             /\ \A i \in 1..Len(sg[q]) : N[q][i] = sg[q][i]
             /\ N[q][Len(sg[q]) + 1] = p
  <2>1. N[q] = Append(sg[q], p)
    BY <1>2, <1>4 DEF Notified
  <2> DEFINE s == sg[q]
  <2>2. s \in Seq(Pid)
    BY <1>3
  <2> HIDE DEF s
  <2>3. /\ Append(s, p) \in Seq(Pid)
        /\ Len(Append(s, p)) = Len(s) + 1
        /\ \A i \in 1..Len(s) : Append(s, p)[i] = s[i]
        /\ Append(s, p)[Len(s) + 1] = p
    BY <1>2, <2>2, AppendProperties
  <2> QED BY <2>1, <2>3 DEF s
<1>5. ASSUME NEW q \in Pid, q # p, ~(q = pp[p] /\ q \in L)
      PROVE  N[q] = sg[q]
  BY <1>5 DEF Notified
<1>6. N[p] = <<>> /\ Len(N[p]) = 0 /\ N[p] \in Seq(Pid)
  BY <1>2, EmptySeq DEF Notified
<1>0. N = [q \in Pid |-> N[q]]
  BY DEF Notified
<1> HIDE DEF N
<1>7. Book(M, N, rp, pp, gp)
  <2>1. ASSUME NEW q \in Pid PROVE N[q] \in Seq(Pid)
    BY <1>3, <1>4, <1>5, <1>6
  <2>2. N \in [Pid -> Seq(Pid)]
    BY <1>0, <2>1
  <2> QED BY <1>1, <2>2 DEF Book
<1>8. Notices(M, N, rp, pp, gp)
  <2> SUFFICES ASSUME NEW q \in Pid, NEW i \in 1..Len(N[q])
               PROVE  /\ q \in M
                      /\ N[q][i] \in (2..gp) \ M
                      /\ pp[N[q][i]] = q
                      /\ rp[N[q][i]] = "no"
                      /\ \A j \in 1..Len(N[q]) : N[q][j] = N[q][i] => i = j
    BY DEF Notices
  <2>1. q # p
    BY <1>6
  <2>2. CASE ~(q = pp[p] /\ q \in L)
    BY <1>1, <1>5, <2>1, <2>2 DEF Notices
  <2>3. CASE q = pp[p] /\ q \in L
    <3>1. \A k \in 1..Len(sg[q]) : /\ sg[q][k] \in (2..gp) \ L
                                   /\ pp[sg[q][k]] = q
                                   /\ rp[sg[q][k]] = "no"
                                   /\ \A j \in 1..Len(sg[q]) : sg[q][j] = sg[q][k] => k = j
      BY <1>1 DEF Notices
    <3>2. /\ Len(N[q]) = Len(sg[q]) + 1
          /\ \A k \in 1..Len(sg[q]) : N[q][k] = sg[q][k]
          /\ N[q][Len(sg[q]) + 1] = p
          /\ Len(sg[q]) \in Nat
      BY <1>3, <1>4, <2>3
    <3>3. \A k \in 1..Len(sg[q]) : N[q][k] # p
      BY <3>1, <3>2
    <3>4. CASE i = Len(sg[q]) + 1
      <4>1. N[q][i] = p
        BY <3>2, <3>4
      <4>2. ASSUME NEW j \in 1..Len(N[q]), N[q][j] = p PROVE i = j
        BY <3>2, <3>3, <3>4, <4>2
      <4> QED BY <1>2, <2>1, <2>3, <4>1, <4>2
    <3>5. CASE i \in 1..Len(sg[q])
      <4>1. N[q][i] = sg[q][i]
        BY <3>2, <3>5
      <4>2. ASSUME NEW j \in 1..Len(N[q]), N[q][j] = N[q][i] PROVE i = j
        <5>1. j # Len(sg[q]) + 1
          BY <3>2, <3>3, <3>5, <4>2
        <5>2. j \in 1..Len(sg[q])
          BY <3>2, <5>1
        <5> QED BY <3>1, <3>2, <3>5, <4>2, <5>2
      <4> QED BY <2>1, <2>3, <3>1, <3>5, <4>1, <4>2
    <3> QED BY <3>2, <3>4, <3>5
  <2> QED BY <2>2, <2>3
<1>9. NoLoss(M, N, rp, pp, gp)
  <2> SUFFICES ASSUME NEW c \in (2..gp) \ M, pp[c] \in M, rp[c] = "no"
               PROVE  \E i \in 1..Len(N[pp[c]]) : N[pp[c]][i] = c
    BY DEF NoLoss
  <2>1. pp[c] \in Pid /\ pp[c] \in L /\ pp[c] # p
    BY <1>1 DEF Book
  <2>2. CASE c = p
    BY <1>3, <1>4, <2>1, <2>2
  <2>3. CASE c # p
    <3>1. PICK i \in 1..Len(sg[pp[c]]) : sg[pp[c]][i] = c
      BY <1>1, <2>1, <2>3 DEF NoLoss
    <3>2. CASE pp[c] = pp[p]
      BY <1>3, <1>4, <2>1, <3>1, <3>2
    <3>3. CASE pp[c] # pp[p]
      BY <1>5, <2>1, <3>1, <3>3
    <3> QED BY <3>2, <3>3
  <2> QED BY <2>2, <2>3
<1> QED BY <1>7, <1>8, <1>9 DEF Accounts, N

\* get_new_pid and the new PCB: the child starts alive, with no notice and no
\* child, and its parent is an older process or none.
LEMMA Birth ==
  ASSUME NEW L, NEW sg, NEW rp, NEW pp, NEW gp, NEW parent \in L \cup {1},
         Accounts(L, sg, rp, pp, gp), gp >= 1, gp + 1 \in Pid
  PROVE  Accounts(L \cup {gp + 1}, sg, rp, [pp EXCEPT ![gp + 1] = parent], gp + 1)
<1> DEFINE c0 == gp + 1
           M == L \cup {c0}
           P == [pp EXCEPT ![c0] = parent]
<1>1. /\ Book(L, sg, rp, pp, gp)
      /\ Notices(L, sg, rp, pp, gp)
      /\ NoLoss(L, sg, rp, pp, gp)
  BY DEF Accounts
<1>2. /\ gp \in Nat
      /\ c0 \in Pid
      /\ 2..c0 = (2..gp) \cup {c0}
      /\ c0 \notin 2..gp
      /\ c0 \notin L
      /\ parent \in 1..gp
      /\ parent \in Pid \cup {1}
  BY <1>1 DEF Book
<1>3. /\ P[c0] = parent
      /\ \A c \in 2..gp : P[c] = pp[c]
      /\ P \in [Pid -> Pid \cup {1}]
  BY <1>1, <1>2 DEF Book
<1> HIDE DEF P
<1>4. Book(M, sg, rp, P, c0)
  <2>1. \A c \in 2..c0 : P[c] \in 1..(c - 1)
    BY <1>1, <1>2, <1>3 DEF Book
  <2>2. \A c \in Pid : c \in M \/ c \notin 2..c0 => rp[c] = "no"
    BY <1>1, <1>2 DEF Book
  <2>3. 2..c0 \subseteq Pid /\ M \subseteq 2..c0 /\ c0 \in Nat
    BY <1>1, <1>2 DEF Book
  <2> QED BY <1>1, <1>3, <2>1, <2>2, <2>3 DEF Book
<1>5. Notices(M, sg, rp, P, c0)
  <2> SUFFICES ASSUME NEW q \in Pid, NEW i \in 1..Len(sg[q])
               PROVE  /\ q \in M
                      /\ sg[q][i] \in (2..c0) \ M
                      /\ P[sg[q][i]] = q
                      /\ rp[sg[q][i]] = "no"
                      /\ \A j \in 1..Len(sg[q]) : sg[q][j] = sg[q][i] => i = j
    BY DEF Notices
  <2>1. /\ q \in L
        /\ sg[q][i] \in (2..gp) \ L
        /\ pp[sg[q][i]] = q
        /\ rp[sg[q][i]] = "no"
        /\ \A j \in 1..Len(sg[q]) : sg[q][j] = sg[q][i] => i = j
    BY <1>1 DEF Notices
  <2> QED BY <1>2, <1>3, <2>1
<1>6. NoLoss(M, sg, rp, P, c0)
  <2> SUFFICES ASSUME NEW c \in (2..c0) \ M, P[c] \in M, rp[c] = "no"
               PROVE  \E i \in 1..Len(sg[P[c]]) : sg[P[c]][i] = c
    BY DEF NoLoss
  <2>1. c \in (2..gp) \ L /\ P[c] = pp[c]
    BY <1>2, <1>3
  <2>2. pp[c] \in L
    BY <1>1, <1>2, <2>1 DEF Book
  <2> QED BY <1>1, <2>1, <2>2 DEF NoLoss
<1> QED BY <1>4, <1>5, <1>6 DEF Accounts, P

\* wait() and try_to_unfreeze: the first notice leaves the list and its child
\* counts as reported from then on.
LEMMA Reap ==
  ASSUME NEW L, NEW sg, NEW rp, NEW pp, NEW gp, NEW q \in L,
         NEW how \in Report \ {"no"},
         Accounts(L, sg, rp, pp, gp), sg[q] # <<>>
  PROVE  Accounts(L, [sg EXCEPT ![q] = Tail(@)],
                  [rp EXCEPT ![Head(sg[q])] = how], pp, gp)
<1> DEFINE s == sg[q]
           t == Tail(s)
           c0 == Head(s)
           S == [sg EXCEPT ![q] = Tail(@)]
           R == [rp EXCEPT ![c0] = how]
<1>1. /\ Book(L, sg, rp, pp, gp)
      /\ Notices(L, sg, rp, pp, gp)
      /\ NoLoss(L, sg, rp, pp, gp)
  BY DEF Accounts
<1>2. q \in Pid /\ s \in Seq(Pid) /\ s # <<>> /\ Len(s) \in Nat \ {0}
  BY <1>1, EmptySeq DEF Book
<1>3. /\ t \in Seq(Pid)
      /\ Len(t) = Len(s) - 1
      /\ \A i \in 1..(Len(s) - 1) : t[i] = s[i + 1]
      /\ c0 = s[1]
  <2> HIDE DEF s
  <2> QED BY <1>2, HeadTailProperties
<1>4. /\ S[q] = t
      /\ \A p \in Pid : p # q => S[p] = sg[p]
      /\ S \in [Pid -> Seq(Pid)]
  BY <1>1, <1>2, <1>3 DEF Book
<1>5. /\ c0 \in (2..gp) \ L
      /\ pp[c0] = q
      /\ \A j \in 1..Len(s) : s[j] = c0 => j = 1
  BY <1>1, <1>2, <1>3 DEF Notices
<1>6. /\ R[c0] = how
      /\ \A c \in Pid : c # c0 => R[c] = rp[c]
      /\ R \in [Pid -> Report]
      /\ c0 \in Pid
  BY <1>1, <1>5 DEF Book
<1> HIDE DEF s, t, S, R, c0
<1>7. Book(L, S, R, pp, gp)
  BY <1>1, <1>4, <1>5, <1>6 DEF Book
<1>10. \A i \in 1..Len(S[q]) : /\ i \in 1..(Len(s) - 1)
                               /\ i + 1 \in 1..Len(s)
                               /\ S[q][i] = s[i + 1]
  <2> TAKE i \in 1..Len(S[q])
  <2>1. i \in 1..(Len(s) - 1)
    BY <1>3, <1>4
  <2>2. i + 1 \in 1..Len(s)
    BY <1>2, <2>1
  <2> QED BY <1>3, <1>4, <2>1, <2>2
<1>8. Notices(L, S, R, pp, gp)
  <2> SUFFICES ASSUME NEW p \in Pid, NEW i \in 1..Len(S[p])
               PROVE  /\ p \in L
                      /\ S[p][i] \in (2..gp) \ L
                      /\ pp[S[p][i]] = p
                      /\ R[S[p][i]] = "no"
                      /\ \A j \in 1..Len(S[p]) : S[p][j] = S[p][i] => i = j
    BY DEF Notices
  <2>1. CASE p # q
    <3>1. /\ p \in L
          /\ sg[p][i] \in (2..gp) \ L
          /\ pp[sg[p][i]] = p
          /\ rp[sg[p][i]] = "no"
          /\ \A j \in 1..Len(sg[p]) : sg[p][j] = sg[p][i] => i = j
      BY <1>1, <1>4, <2>1 DEF Notices
    <3>2. sg[p][i] # c0 /\ sg[p][i] \in Pid
      BY <1>1, <1>5, <2>1, <3>1 DEF Book
    <3> QED BY <1>4, <1>6, <2>1, <3>1, <3>2
  <2>2. CASE p = q
    <3>1. i \in 1..(Len(s) - 1) /\ S[p][i] = s[i + 1] /\ i + 1 \in 1..Len(s)
      BY <1>10, <2>2
    <3>2. /\ s[i + 1] \in (2..gp) \ L
          /\ pp[s[i + 1]] = p
          /\ rp[s[i + 1]] = "no"
          /\ \A j \in 1..Len(s) : s[j] = s[i + 1] => i + 1 = j
      BY <1>1, <1>2, <2>2, <3>1 DEF Notices, s
    <3>3. s[i + 1] # c0 /\ s[i + 1] \in Pid
      <4>1. i + 1 # 1
        BY <1>2, <3>1
      <4>2. s[i + 1] # c0
        BY <1>5, <3>1, <4>1
      <4> QED BY <1>1, <3>2, <4>2 DEF Book
    <3>4. ASSUME NEW j \in 1..Len(S[p]), S[p][j] = S[p][i] PROVE i = j
      <4>1. j \in 1..(Len(s) - 1) /\ S[p][j] = s[j + 1] /\ j + 1 \in 1..Len(s)
        BY <1>10, <2>2
      <4>2. i + 1 = j + 1
        BY <3>1, <3>2, <3>4, <4>1
      <4> QED BY <3>1, <4>1, <4>2
    <3> QED BY <1>6, <2>2, <3>1, <3>2, <3>3, <3>4
  <2> QED BY <2>1, <2>2
<1>9. NoLoss(L, S, R, pp, gp)
  <2> SUFFICES ASSUME NEW c \in (2..gp) \ L, pp[c] \in L, R[c] = "no"
               PROVE  \E i \in 1..Len(S[pp[c]]) : S[pp[c]][i] = c
    BY DEF NoLoss
  <2>1. c # c0 /\ c \in Pid /\ rp[c] = "no" /\ pp[c] \in Pid
    BY <1>1, <1>6 DEF Book
  <2>2. PICK i \in 1..Len(sg[pp[c]]) : sg[pp[c]][i] = c
    BY <1>1, <2>1 DEF NoLoss
  <2>3. CASE pp[c] # q
    BY <1>4, <2>1, <2>2, <2>3
  <2>4. CASE pp[c] = q
    <3>1. i \in 1..Len(s) /\ s[i] = c /\ i # 1
      BY <1>3, <2>1, <2>2, <2>4 DEF s
    <3>2. i - 1 \in 1..(Len(s) - 1) /\ t[i - 1] = s[(i - 1) + 1]
      BY <1>2, <1>3, <3>1
    <3> QED BY <1>2, <1>3, <1>4, <2>4, <3>1, <3>2
  <2> QED BY <2>3, <2>4
<1> QED BY <1>7, <1>8, <1>9 DEF Accounts, S, R, c0, t, s

-----------------------------------------------------------------------------
(* The inductive invariant, in the two halves.                             *)

Machine ==
  /\ machine = "on" <=> running # NoPid
  /\ machine \in {"boot", "off"} => Live = {}
  /\ PanicQuiet
  /\ FastPidCurrent

Core ==
  /\ TypeOK
  /\ Queues(running, runnable, blocked)
  /\ Accounts(Live, signal_list, reaped, ppid, global_pid)
  /\ Machine

\* The pids that get_new_pid has given out are pids, and neither the null process
\* nor pid 1, which the counter starts from, is one.
LEMMA PidRange ==
  TypeOK => /\ global_pid \in Nat
            /\ global_pid >= 1
            /\ 2..global_pid \subseteq Pid
            /\ NoPid \notin Pid
            /\ 1 \notin Pid
BY WorkloadAssumption DEF TypeOK, Pid, NoPid

\* The form of the invariant that the handlers' proofs use, which splits it into
\* where the processes are and who has been announced, is the one TLC checks.
LEMMA CoreIsIInv == Core <=> IInv
<1> DEFINE L == Live
           sg == signal_list
<1>1. ASSUME TypeOK
      PROVE  /\ \A q \in Pid : DOMAIN sg[q] = 1..Len(sg[q])
             /\ Created = 2..global_pid
  BY <1>1, LenProperties DEF TypeOK, Created
<1>2. ASSUME TypeOK
      PROVE  Notices(L, sg, reaped, ppid, global_pid) <=> NoticesOnce
  <2>1. \A q \in Pid : DOMAIN sg[q] = 1..Len(sg[q])
    BY <1>1, <1>2
  <2>2. Created = 2..global_pid
    BY <1>1, <1>2
  <2>3. NoticesOnce => Notices(L, sg, reaped, ppid, global_pid)
    <3> SUFFICES ASSUME NoticesOnce, NEW q \in Pid, NEW i \in 1..Len(sg[q])
                 PROVE  /\ q \in L
                        /\ sg[q][i] \in (2..global_pid) \ L
                        /\ ppid[sg[q][i]] = q
                        /\ reaped[sg[q][i]] = "no"
                        /\ \A j \in 1..Len(sg[q]) : sg[q][j] = sg[q][i] => i = j
      BY Zenon DEF Notices
    <3>1. i \in DOMAIN signal_list[q] /\ DOMAIN signal_list[q] = 1..Len(sg[q])
      BY <2>1
    <3> QED BY <3>1, <2>2 DEF NoticesOnce
  <2>4. Notices(L, sg, reaped, ppid, global_pid) => NoticesOnce
    <3> SUFFICES ASSUME Notices(L, sg, reaped, ppid, global_pid),
                        NEW q \in Pid, NEW i \in DOMAIN signal_list[q]
                 PROVE  /\ q \in Live
                        /\ sg[q][i] \in Created \ Live
                        /\ ppid[sg[q][i]] = q
                        /\ reaped[sg[q][i]] = "no"
                        /\ \A j \in DOMAIN signal_list[q] : sg[q][j] = sg[q][i] => i = j
      BY Zenon DEF NoticesOnce
    <3>1. i \in 1..Len(sg[q]) /\ DOMAIN signal_list[q] = 1..Len(sg[q])
      BY <2>1
    <3> QED BY <3>1, <2>2 DEF Notices
  <2> QED BY <2>3, <2>4
<1>3. ASSUME TypeOK, Live \subseteq 2..global_pid
      PROVE  NoLoss(L, sg, reaped, ppid, global_pid) <=> NoLostExit
  <2>1. 2..global_pid \subseteq Pid
    BY <1>3, PidRange
  <2>2. \A c \in (2..global_pid) \ L : ppid[c] \in L =>
           (c \in Range(sg[ppid[c]]) <=> \E i \in 1..Len(sg[ppid[c]]) : sg[ppid[c]][i] = c)
    BY <1>1, <1>3, <2>1 DEF Range
  <2> QED BY <1>1, <1>3, <2>2 DEF NoLoss, NoLostExit
<1>4. ASSUME TypeOK
      PROVE  Book(L, sg, reaped, ppid, global_pid) <=> Live \subseteq 2..global_pid /\ Lineage
  BY <1>1, <1>4, PidRange DEF Book, Lineage, TypeOK
<1>5. ASSUME TypeOK
      PROVE  OneState <=> /\ Queues(running, runnable, blocked)
                          /\ Live \subseteq 2..global_pid
                          /\ machine = "on" <=> running # NoPid
                          /\ machine \in {"boot", "off"} => Live = {}
  BY <1>1, <1>5 DEF OneState, Queues, TypeOK
<1> QED
  BY <1>2, <1>3, <1>4, <1>5 DEF Core, IInv, Accounts, Machine

\* The status schedule() stores is a report, and the call counter stays an int.
LEMMA SmallTypes ==
  /\ \A p, ptr : ptr \in Pointer => Store(p, ptr) \in Report \ {"no"}
  /\ \A n \in (-IntMax - 1)..IntMax : Increment(n) \in (-IntMax - 1)..IntMax
<1>1. ASSUME NEW p, NEW ptr \in Pointer
      PROVE  Store(p, ptr) \in Report \ {"no"}
  <2>1. CASE ptr = "null"
    BY <2>1 DEF Store, Report
  <2>2. CASE ptr = "stack"
    BY <2>2 DEF Store, Report
  <2>3. CASE ptr = "data"
    BY <2>3 DEF Store, Report
  <2> QED BY <2>1, <2>2, <2>3 DEF Pointer
<1> QED BY <1>1, CounterAssumption DEF Increment

\* schedule() restores the invariant from the queues, notices and status
\* pointers a handler hands it, whichever process it resumes.
LEMMA ScheduleStep ==
  ASSUME Core, Up, NEW rq, NEW bq, NEW sg, NEW ws,
         Queues(NoPid, rq, bq),
         Accounts(LiveIn(NoPid, rq, bq), sg, reaped, ppid, global_pid),
         ws \in [Pid -> Pointer],
         Schedule(rq, bq, sg, ws)
  PROVE  Core'
<1> DEFINE K == LiveIn(NoPid, rq, bq)
<1>1. /\ rq \in Seq(Pid) /\ bq \in Seq(Pid)
      /\ IsInjective(rq) /\ IsInjective(bq)
      /\ Range(rq) \cap Range(bq) = {}
      /\ K = Range(rq) \cup Range(bq)
  BY DEF Queues, LiveIn
<1>2. NoPid \notin Pid
  BY PidRange DEF Core
<1>3. /\ wstatus' \in [Pid -> Pointer]
      /\ try_unfreeze_times' \in (-IntMax - 1)..IntMax
  BY SmallTypes DEF Schedule, Core, TypeOK
<1>4. Book(K, sg, reaped, ppid, global_pid)
  BY DEF Accounts
<1>5. sg \in [Pid -> Seq(Pid)]
  BY <1>4 DEF Book
<1>6. CASE TryToUnfreeze(rq, bq, sg, ws)
  <2>1. PICK i \in Signalled(bq, sg) :
          /\ Resume(bq[i])
          /\ blocked' = Erase(bq, i)
          /\ runnable' = rq
          /\ reaped' = [reaped EXCEPT ![Head(sg[bq[i]])] = Store(bq[i], ws[bq[i]])]
          /\ signal_list' = [sg EXCEPT ![bq[i]] = Tail(@)]
          /\ UNCHANGED <<procVars, testVars>>
    BY <1>6 DEF TryToUnfreeze
  <2> DEFINE q == bq[i]
  <2>2. i \in DOMAIN bq /\ sg[q] # <<>>
    BY <2>1 DEF Signalled
  <2>3. q \in Range(bq) /\ q \in Pid /\ q \notin Range(rq)
    BY <1>1, <2>2, ElementOfSeq, LenProperties DEF Range
  <2>4. /\ blocked' \in Seq(Pid)
        /\ IsInjective(blocked')
        /\ Range(blocked') = Range(bq) \ {q}
    BY <1>1, <2>1, <2>2, EraseSeq, EraseInjective
  <2>5. running' = q /\ fast_pid' = q
    BY <2>1 DEF Resume
  <2>6. Live' = K
    BY <1>1, <1>2, <2>1, <2>3, <2>4, <2>5 DEF Live, Running
  <2>7. Store(q, ws[q]) \in Report \ {"no"}
    BY <2>3, SmallTypes
  <2>8. Accounts(K, signal_list', reaped', ppid, global_pid)
    BY <1>1, <2>1, <2>2, <2>3, <2>7, Reap
  <2>9. Book(K, signal_list', reaped', ppid, global_pid)
    BY <2>8 DEF Accounts
  <2>10. UNCHANGED <<ppid, aspace, global_pid, machine, memory_dirty, test_cnt>>
    BY <2>1 DEF procVars, testVars
  <2>11. TypeOK'
    BY <1>1, <1>3, <2>1, <2>3, <2>4, <2>5, <2>9, <2>10 DEF Core, TypeOK, Book
  <2>12. Queues(running, runnable, blocked)'
    BY <1>1, <1>2, <2>1, <2>3, <2>4, <2>5 DEF Queues
  <2>13. Machine'
    BY <1>2, <2>3, <2>5, <2>10 DEF Machine, PanicQuiet, FastPidCurrent, Up
  <2> QED BY <2>6, <2>8, <2>10, <2>11, <2>12, <2>13 DEF Core
<1>7. CASE PickRunnable(rq, bq, sg)
  <2> DEFINE q == rq[1]
  <2>1. 1 \in DOMAIN rq
    BY <1>1, <1>7, EmptySeq, LenProperties DEF PickRunnable
  <2>2. q \in Range(rq) /\ q \in Pid /\ q \notin Range(bq)
    <3>1. q \in Range(rq)
      BY <2>1 DEF Range
    <3> QED BY <1>1, <3>1, RangeInSet
  <2>3. /\ runnable' \in Seq(Pid)
        /\ IsInjective(runnable')
        /\ Range(runnable') = Range(rq) \ {q}
    BY <1>1, <1>7, <2>1, EraseSeq, EraseInjective DEF PickRunnable
  <2>4. /\ running' = q /\ fast_pid' = q /\ blocked' = bq /\ signal_list' = sg
        /\ UNCHANGED <<ppid, aspace, global_pid, machine, memory_dirty, test_cnt, reaped>>
    BY <1>7 DEF PickRunnable, Resume, procVars, testVars
  <2>5. Live' = K
    BY <1>1, <1>2, <2>2, <2>3, <2>4 DEF Live, Running
  <2>6. TypeOK'
    BY <1>1, <1>3, <1>5, <2>2, <2>3, <2>4 DEF Core, TypeOK
  <2>7. Queues(running, runnable, blocked)'
    BY <1>1, <1>2, <2>2, <2>3, <2>4 DEF Queues
  <2>8. Machine'
    BY <1>2, <2>2, <2>4 DEF Machine, PanicQuiet, FastPidCurrent, Up
  <2> QED BY <2>4, <2>5, <2>6, <2>7, <2>8 DEF Core
<1>8. CASE Signalled(bq, sg) = {} /\ NothingToRun(rq, bq, sg)
  <2>1. /\ rq = <<>> /\ runnable' = rq /\ blocked' = bq /\ signal_list' = sg
        /\ running' = NoPid
        /\ machine' = IF bq # <<>> THEN "panic" ELSE "boot"
        /\ UNCHANGED <<ppid, aspace, global_pid, memory_dirty, test_cnt, fast_pid, reaped>>
    BY <1>8 DEF NothingToRun, procVars
  <2>2. Range(rq) = {} /\ (bq = <<>> => Range(bq) = {})
    BY <2>1 DEF Range
  <2>3. Live' = K
    BY <1>1, <2>1 DEF Live, Running
  <2>4. TypeOK'
    BY <1>1, <1>3, <1>5, <2>1 DEF Core, TypeOK
  <2>5. Queues(running, runnable, blocked)'
    BY <1>1, <2>1 DEF Queues
  <2>6. \A p \in Range(bq) : sg[p] = <<>>
    BY <1>8 DEF Signalled, Range
  <2>7. Machine'
    BY <1>1, <2>1, <2>2, <2>3, <2>6 DEF Machine, PanicQuiet, FastPidCurrent
  <2> QED BY <2>1, <2>3, <2>4, <2>5, <2>7 DEF Core
<1> QED
  BY <1>6, <1>7, <1>8 DEF Schedule

-----------------------------------------------------------------------------
(* The handlers, one lemma each.                                           *)

\* The facts about the running process that every handler starts from.
LEMMA RunningFacts ==
  ASSUME Core, Up
  PROVE  /\ running \in Pid
         /\ running \notin Range(runnable) \cup Range(blocked)
         /\ Live = {running} \cup Range(runnable) \cup Range(blocked)
         /\ runnable \in Seq(Pid) /\ IsInjective(runnable)
         /\ blocked \in Seq(Pid) /\ IsInjective(blocked)
         /\ Range(runnable) \cap Range(blocked) = {}
         /\ NoPid \notin Pid
         /\ wstatus \in [Pid -> Pointer]
BY PidRange DEF Core, Up, Queues, Live, Running, TypeOK

\* yield puts the running process at the back of the ready queue.
LEMMA YieldStep ==
  ASSUME Core, Yield
  PROVE  Core'
<1> DEFINE rq == Append(runnable, running)
<1>1. Up /\ Schedule(rq, blocked, signal_list, wstatus)
  BY DEF Yield
<1>2. /\ rq \in Seq(Pid)
      /\ Range(rq) = Range(runnable) \cup {running}
      /\ IsInjective(rq)
  BY <1>1, RunningFacts, AppendInjectiveRange
<1> HIDE DEF rq
<1>3. Queues(NoPid, rq, blocked)
  <2>1. \A x \in Range(rq) \cup Range(blocked) : x \in Pid
    BY <1>1, <1>2, RunningFacts, RangeInSet
  <2> QED BY <1>1, <1>2, <2>1, RunningFacts DEF Queues
<1>4. LiveIn(NoPid, rq, blocked) = Live
  BY <1>1, <1>2, RunningFacts DEF LiveIn
<1> QED
  BY <1>1, <1>3, <1>4, RunningFacts, ScheduleStep DEF Core

\* wait() without a notice moves the running process to the blocked queue.
LEMMA WaitBlockStep ==
  ASSUME Core, NEW ptr \in Pointers, WaitBlock(ptr)
  PROVE  Core'
<1> DEFINE bq == Append(blocked, running)
           ws == [wstatus EXCEPT ![running] = ptr]
<1>1. Up /\ Schedule(runnable, bq, signal_list, ws)
  BY DEF WaitBlock
<1>2. /\ bq \in Seq(Pid)
      /\ Range(bq) = Range(blocked) \cup {running}
      /\ IsInjective(bq)
  BY <1>1, RunningFacts, AppendInjectiveRange
<1>3. ws \in [Pid -> Pointer]
  BY <1>1, RunningFacts, WorkloadAssumption DEF Pointer
<1> HIDE DEF bq, ws
<1>4. Queues(NoPid, runnable, bq)
  <2>1. \A x \in Range(runnable) \cup Range(bq) : x \in Pid
    BY <1>1, <1>2, RunningFacts, RangeInSet
  <2> QED BY <1>1, <1>2, <2>1, RunningFacts DEF Queues
<1>5. LiveIn(NoPid, runnable, bq) = Live
  BY <1>1, <1>2, RunningFacts DEF LiveIn
<1> QED
  BY <1>1, <1>3, <1>4, <1>5, RunningFacts, ScheduleStep DEF Core

\* exit_process ends the running process, which is in no queue.
LEMMA ExitStep ==
  ASSUME Core, ExitProcess
  PROVE  Core'
<1> DEFINE sg == Notify(signal_list, running)
<1>1. Up /\ Schedule(runnable, blocked, sg, wstatus)
  BY DEF ExitProcess
<1>2. sg = Notified(Live, signal_list, ppid, running)
  BY DEF Notify, Notified
<1> HIDE DEF sg
<1>3. Accounts(Live \ {running}, sg, reaped, ppid, global_pid)
  BY <1>1, <1>2, RunningFacts, Death DEF Core
<1>4. LiveIn(NoPid, runnable, blocked) = Live \ {running}
  BY <1>1, RunningFacts DEF LiveIn
<1>5. Queues(NoPid, runnable, blocked)
  <2>1. \A x \in Range(runnable) \cup Range(blocked) : x \in Pid
    BY <1>1, RunningFacts, RangeInSet
  <2> QED BY <1>1, <2>1, RunningFacts DEF Queues
<1> QED
  BY <1>1, <1>3, <1>4, <1>5, RunningFacts, ScheduleStep

\* sys_kill takes its victim out of the one queue that holds it.
LEMMA KillStep ==
  ASSUME Core, NEW p \in Pid, Kill(p)
  PROVE  Core'
<1>1. /\ Up
      /\ signal_list' = Notified(Live, signal_list, ppid, p)
      /\ UNCHANGED <<ppid, aspace, global_pid, machine, memory_dirty, test_cnt,
                     running, wstatus, try_unfreeze_times, fast_pid, reaped>>
  BY DEF Kill, Notify, Notified, procVars, testVars
<1>2. /\ runnable' \in Seq(Pid) /\ IsInjective(runnable')
      /\ blocked' \in Seq(Pid) /\ IsInjective(blocked')
      /\ Range(runnable') \subseteq Range(runnable)
      /\ Range(blocked') \subseteq Range(blocked)
      /\ Range(runnable') \cup Range(blocked')
           = (Range(runnable) \cup Range(blocked)) \ {p}
      /\ p \in Range(runnable) \cup Range(blocked)
  <2>1. CASE KillIn(runnable, p) /\ UNCHANGED blocked
    <3>1. PICK i \in DOMAIN runnable : runnable[i] = p /\ runnable' = Erase(runnable, i)
      BY <2>1 DEF KillIn
    <3>2. /\ runnable' \in Seq(Pid) /\ IsInjective(runnable')
          /\ Range(runnable') = Range(runnable) \ {p}
      BY <1>1, <3>1, RunningFacts, EraseSeq, EraseInjective
    <3>3. p \in Range(runnable)
      BY <3>1 DEF Range
    <3> QED BY <1>1, <2>1, <3>2, <3>3, RunningFacts
  <2>2. CASE KillIn(blocked, p) /\ UNCHANGED runnable
    <3>1. PICK i \in DOMAIN blocked : blocked[i] = p /\ blocked' = Erase(blocked, i)
      BY <2>2 DEF KillIn
    <3>2. /\ blocked' \in Seq(Pid) /\ IsInjective(blocked')
          /\ Range(blocked') = Range(blocked) \ {p}
      BY <1>1, <3>1, RunningFacts, EraseSeq, EraseInjective
    <3>3. p \in Range(blocked)
      BY <3>1 DEF Range
    <3> QED BY <1>1, <2>2, <3>2, <3>3, RunningFacts
  <2> QED BY <2>1, <2>2 DEF Kill
<1>3. Live' = Live \ {p}
  BY <1>1, <1>2, RunningFacts DEF Live, Running
<1>4. Accounts(Live, signal_list, reaped, ppid, global_pid)'
  <2>1. Accounts(Live \ {p}, signal_list', reaped, ppid, global_pid)
    BY <1>1, <1>2, RunningFacts, Death DEF Core
  <2> QED BY <1>1, <1>3, <2>1
<1>5. signal_list' \in [Pid -> Seq(Pid)]
  BY <1>4 DEF Accounts, Book
<1>6. TypeOK'
  BY <1>1, <1>2, <1>5 DEF Core, TypeOK
<1>7. Queues(running, runnable, blocked)'
  BY <1>1, <1>2, RunningFacts DEF Queues
<1>8. Machine'
  BY <1>1, RunningFacts DEF Core, Machine, PanicQuiet, FastPidCurrent, Up
<1> QED BY <1>4, <1>6, <1>7, <1>8 DEF Core

\* clone() appends the child, whose pid is new, to the ready queue.
LEMMA CloneStep ==
  ASSUME Core, NEW thread \in BOOLEAN, Clone(thread)
  PROVE  Core'
<1> DEFINE g == global_pid + 1
<1>1. /\ Up
      /\ global_pid - 1 - test_cnt < MaxClones
      /\ global_pid' = g
      /\ ppid' = [ppid EXCEPT ![g] = running]
      /\ aspace' = [aspace EXCEPT ![g] = IF thread THEN aspace[running] ELSE g]
      /\ runnable' = Append(runnable, g)
      /\ UNCHANGED <<machine, memory_dirty, test_cnt, running, blocked, signal_list,
                     wstatus, try_unfreeze_times, fast_pid, reaped>>
  BY DEF Clone, testVars
<1>2. /\ global_pid \in Nat /\ test_cnt \in 0..NTests
      /\ global_pid >= 1
      /\ global_pid <= 1 + test_cnt + MaxClones
  BY WorkloadAssumption DEF Core, TypeOK
<1>3. g \in Pid /\ g \in 1..(1 + test_cnt + MaxClones)
  BY <1>1, <1>2, WorkloadAssumption DEF Pid
<1>4. Live \subseteq 2..global_pid
  BY DEF Core, Accounts, Book
<1>5. g \notin Live
  BY <1>2, <1>4
<1>6. /\ runnable' \in Seq(Pid)
      /\ Range(runnable') = Range(runnable) \cup {g}
      /\ IsInjective(runnable')
  <2>1. g \notin Range(runnable)
    BY <1>5 DEF Live
  <2> QED BY <1>1, <1>3, <2>1, RunningFacts, AppendInjectiveRange
<1>7. Live' = Live \cup {g}
  BY <1>1, <1>6 DEF Live, Running
<1>8. Accounts(Live, signal_list, reaped, ppid, global_pid)'
  <2>1. Accounts(Live \cup {g}, signal_list, reaped, [ppid EXCEPT ![g] = running], g)
    BY <1>1, <1>2, <1>3, RunningFacts, Birth DEF Core
  <2> QED BY <1>1, <1>7, <2>1
<1>9. TypeOK'
  <2>1. ppid' \in [Pid -> Pid \cup {1}]
    BY <1>8 DEF Accounts, Book
  <2>2. aspace' \in [Pid -> Pid]
    BY <1>1, <1>3, RunningFacts DEF Core, TypeOK
  <2> QED BY <1>1, <1>3, <1>6, <2>1, <2>2 DEF Core, TypeOK
<1>10. Queues(running, runnable, blocked)'
  BY <1>1, <1>5, <1>6, RunningFacts DEF Queues, Live
<1>11. Machine'
  BY <1>1 DEF Core, Machine, PanicQuiet, FastPidCurrent, Up
<1> QED BY <1>8, <1>9, <1>10, <1>11 DEF Core

\* wait() with a pending notice consumes it and moves no process.
LEMMA WaitPendingStep ==
  ASSUME Core, NEW ptr \in Pointers, WaitPending(ptr)
  PROVE  Core'
<1> DEFINE how == IF ptr = "null" THEN "none asked" ELSE "skipped"
<1>1. /\ Up
      /\ signal_list[running] # <<>>
      /\ reaped' = [reaped EXCEPT ![Head(signal_list[running])] = how]
      /\ signal_list' = [signal_list EXCEPT ![running] = Tail(@)]
      /\ UNCHANGED <<ppid, aspace, global_pid, machine, memory_dirty, test_cnt,
                     running, runnable, blocked, wstatus, try_unfreeze_times, fast_pid>>
  BY DEF WaitPending, procVars, testVars
<1>2. how \in Report \ {"no"}
  BY DEF Report
<1> HIDE DEF how
<1>3. Live' = Live
  BY <1>1 DEF Live, Running
<1>4. Accounts(Live, signal_list, reaped, ppid, global_pid)'
  <2>1. Accounts(Live, signal_list', reaped', ppid, global_pid)
    BY <1>1, <1>2, RunningFacts, Reap DEF Core
  <2> QED BY <1>1, <1>3, <2>1
<1>5. TypeOK'
  BY <1>1, <1>4 DEF Core, TypeOK, Accounts, Book
<1>6. Queues(running, runnable, blocked)'
  BY <1>1 DEF Core, Queues
<1>7. Machine'
  BY <1>1 DEF Core, Machine, PanicQuiet, FastPidCurrent, Up
<1> QED BY <1>4, <1>5, <1>6, <1>7 DEF Core

\* A boot finds no process, keeps what was reported, and starts at most one.
LEMMA BootStep ==
  ASSUME Core, Boot
  PROVE  Core'
<1>1. /\ machine = "boot" /\ runnable' = <<>> /\ blocked' = <<>>
      /\ signal_list' = [p \in Pid |-> <<>>]
      /\ UNCHANGED <<wstatus, reaped>>
      /\ Live = {}
  BY DEF Boot, Core, Machine
<1>2. /\ runnable' \in Seq(Pid) /\ blocked' \in Seq(Pid)
      /\ IsInjective(runnable') /\ IsInjective(blocked')
      /\ Range(runnable') = {} /\ Range(blocked') = {}
  BY <1>1 DEF IsInjective, Range
<1>3. /\ signal_list' \in [Pid -> Seq(Pid)]
      /\ \A q \in Pid : Len(signal_list'[q]) = 0
  BY <1>1
<1>4. /\ global_pid \in Nat /\ test_cnt \in 0..NTests
      /\ global_pid >= 1
      /\ global_pid <= 1 + test_cnt + MaxClones
      /\ NoPid \notin Pid
      /\ 2..global_pid \subseteq Pid
  BY PidRange DEF Core, TypeOK
<1>5. Accounts({}, signal_list', reaped, ppid, global_pid)
  <2>1. Book({}, signal_list', reaped, ppid, global_pid)
    BY <1>1, <1>3 DEF Core, Accounts, Book
  <2>2. Notices({}, signal_list', reaped, ppid, global_pid)
    BY <1>3 DEF Notices
  <2> QED BY <2>1, <2>2 DEF Accounts, NoLoss
<1>6. \A n \in (-IntMax - 1)..IntMax :
        /\ Increment(n) \in (-IntMax - 1)..IntMax
        /\ Increment(Increment(n)) \in (-IntMax - 1)..IntMax
  BY SmallTypes
<1>7. CASE StartTest
  <2> DEFINE g == global_pid + 1
  <2>1. /\ test_cnt < NTests /\ test_cnt' = test_cnt + 1
        /\ global_pid' = g
        /\ ppid' = [ppid EXCEPT ![g] = 1]
        /\ aspace' = [aspace EXCEPT ![g] = g]
        /\ memory_dirty' = TRUE /\ machine' = "on"
        /\ running' = g /\ fast_pid' = g
        /\ try_unfreeze_times' = Increment(Increment(try_unfreeze_times))
    BY <1>7 DEF StartTest, Resume
  <2>2. g \in Pid /\ g \in 1..(1 + test_cnt' + MaxClones) /\ test_cnt' \in 0..NTests
    BY <1>4, <2>1, WorkloadAssumption DEF Pid
  <2>3. Live' = {g}
    BY <1>2, <1>4, <2>1, <2>2 DEF Live, Running
  <2>4. Accounts(Live, signal_list, reaped, ppid, global_pid)'
    <3>1. Accounts({} \cup {g}, signal_list', reaped, [ppid EXCEPT ![g] = 1], g)
      BY <1>4, <1>5, <2>2, Birth
    <3>2. {} \cup {g} = {g}
      OBVIOUS
    <3> QED BY <1>1, <2>1, <2>3, <3>1, <3>2
  <2>5. TypeOK'
    <3>1. ppid' \in [Pid -> Pid \cup {1}]
      BY <2>4 DEF Accounts, Book
    <3> QED BY <1>1, <1>2, <1>3, <1>6, <2>1, <2>2, <3>1 DEF Core, TypeOK
  <2>6. Queues(running, runnable, blocked)'
    BY <1>2, <2>1, <2>2 DEF Queues
  <2>7. Machine'
    BY <1>4, <2>1, <2>2 DEF Machine, PanicQuiet, FastPidCurrent
  <2> QED BY <2>4, <2>5, <2>6, <2>7 DEF Core
<1>8. CASE ProgramMissing \/ NoTestLeft
  <2>1. /\ machine' \in {"panic", "off"} /\ memory_dirty' = FALSE
        /\ test_cnt' \in 0..NTests /\ test_cnt' >= test_cnt
        /\ running' = NoPid
        /\ try_unfreeze_times' = Increment(try_unfreeze_times)
        /\ UNCHANGED <<ppid, aspace, global_pid, fast_pid>>
    BY <1>4, <1>8, WorkloadAssumption DEF ProgramMissing, NoTestLeft, procVars
  <2>2. Live' = {}
    BY <1>2, <2>1 DEF Live, Running
  <2>3. Accounts(Live, signal_list, reaped, ppid, global_pid)'
    BY <1>1, <1>5, <2>1, <2>2
  <2>4. global_pid' \in 1..(1 + test_cnt' + MaxClones)
    <3>1. ASSUME NEW g \in Nat, NEW m \in Nat, NEW t \in Nat, NEW u \in Nat,
                 g >= 1, g <= 1 + t + m, u >= t
          PROVE  g \in 1..(1 + u + m)
      BY <3>1
    <3>2. /\ global_pid \in Nat /\ MaxClones \in Nat
          /\ test_cnt \in Nat /\ test_cnt' \in Nat
      BY <1>4, <2>1, WorkloadAssumption
    <3>3. global_pid >= 1 /\ global_pid <= 1 + test_cnt + MaxClones
      BY <1>4
    <3>4. test_cnt' >= test_cnt /\ global_pid' = global_pid
      BY <2>1
    <3> QED BY <3>1, <3>2, <3>3, <3>4, Zenon
  <2>5. TypeOK'
    BY <1>1, <1>2, <1>3, <1>6, <2>1, <2>4 DEF Core, TypeOK
  <2>6. Queues(running, runnable, blocked)'
    BY <1>2, <1>4, <2>1 DEF Queues
  <2>7. Machine'
    BY <1>1, <2>1, <2>2 DEF Machine, PanicQuiet, FastPidCurrent
  <2> QED BY <2>3, <2>5, <2>6, <2>7 DEF Core
<1> QED BY <1>7, <1>8 DEF Boot

-----------------------------------------------------------------------------
(* The theorems.                                                           *)

\* The machine that boots for the first time satisfies the invariant.
LEMMA InitCore == Init => Core
<1> SUFFICES ASSUME Init PROVE Core
  OBVIOUS
<1>1. /\ IsInjective(runnable) /\ IsInjective(blocked)
      /\ Range(runnable) = {} /\ Range(blocked) = {}
      /\ runnable \in Seq(Pid) /\ blocked \in Seq(Pid)
  BY DEF Init, IsInjective, Range
<1>2. Live = {}
  BY <1>1 DEF Init, Live, Running
<1>3. 2..global_pid = {}
  BY DEF Init
<1>4. TypeOK
  <2>1. /\ global_pid \in 1..(1 + test_cnt + MaxClones)
        /\ try_unfreeze_times \in (-IntMax - 1)..IntMax
        /\ test_cnt \in 0..NTests
    BY WorkloadAssumption, CounterAssumption DEF Init
  <2>2. /\ wstatus \in [Pid -> Pointer]
        /\ reaped \in [Pid -> Report]
    BY DEF Init, Pointer, Report
  <2>3. /\ ppid \in [Pid -> Pid \cup {1}]
        /\ aspace \in [Pid -> Pid]
        /\ signal_list \in [Pid -> Seq(Pid)]
    BY DEF Init
  <2> QED BY <1>1, <2>1, <2>2, <2>3 DEF Init, TypeOK
<1>5. NoPid \notin Pid
  BY <1>4, PidRange
<1>6. Queues(running, runnable, blocked)
  BY <1>1, <1>5 DEF Init, Queues
<1>7. Accounts(Live, signal_list, reaped, ppid, global_pid)
  <2>1. Book(Live, signal_list, reaped, ppid, global_pid)
    BY <1>2, <1>3, <1>4 DEF Init, Book, TypeOK
  <2>2. Notices(Live, signal_list, reaped, ppid, global_pid)
    BY DEF Init, Notices
  <2> QED BY <1>3, <2>1, <2>2 DEF Accounts, NoLoss
<1>8. Machine
  BY <1>2 DEF Init, Machine, PanicQuiet, FastPidCurrent
<1> QED BY <1>4, <1>6, <1>7, <1>8 DEF Core

\* Every handler, and a step that changes nothing, preserves the invariant.
LEMMA NextCore == Core /\ [Next]_vars => Core'
<1> SUFFICES ASSUME Core, [Next]_vars PROVE Core'
  OBVIOUS
<1>1. CASE UNCHANGED vars
  <2>1. Live' = Live
    BY <1>1 DEF vars, Live, Running
  <2>2. TypeOK' /\ Queues(running, runnable, blocked)'
    BY <1>1 DEF vars, Core, TypeOK, Queues
  <2>3. Accounts(Live, signal_list, reaped, ppid, global_pid)'
    BY <1>1, <2>1 DEF vars, Core
  <2>4. Machine'
    BY <1>1, <2>1 DEF vars, Core, Machine, PanicQuiet, FastPidCurrent
  <2> QED BY <2>2, <2>3, <2>4 DEF Core
<1>2. ASSUME NEW thread \in BOOLEAN, Clone(thread) PROVE Core'
  BY <1>2, CloneStep
<1>3. ASSUME NEW ptr \in Pointers, WaitPending(ptr) \/ WaitBlock(ptr) PROVE Core'
  BY <1>3, WaitPendingStep, WaitBlockStep
<1>4. ASSUME NEW p \in Pid, Kill(p) PROVE Core'
  BY <1>4, KillStep
<1>5. CASE Halted
  BY <1>1, <1>5 DEF Halted
<1> QED
  BY <1>1, <1>2, <1>3, <1>4, <1>5, BootStep, YieldStep, ExitStep DEF Next

\* The inductive invariant holds of every behaviour of the scheduler.
THEOREM Invariance == Spec => []IInv
<1>1. Spec => []Core
  BY InitCore, NextCore, PTL DEF Spec
<1>2. Core => IInv
  BY CoreIsIInv
<1> QED BY <1>1, <1>2, PTL

\* The kernel's scheduler state is well formed at every trap boundary.
THEOREM TypeCorrect == Spec => []TypeOK
<1>1. IInv => TypeOK
  BY DEF IInv
<1> QED BY <1>1, Invariance, PTL

\* The three-state model of processes: no path through the handlers and
\* schedule() duplicates or loses a live process.
THEOREM ThreeStates == Spec => []OneState
<1>1. IInv => OneState
  BY DEF IInv
<1> QED BY <1>1, Invariance, PTL

\* Exit notices are delivered exactly once: none is duplicated or stale, and
\* none is lost while the parent lives.
THEOREM ExitNotices == Spec => [](NoticesOnce /\ NoLostExit)
<1>1. IInv => NoticesOnce /\ NoLostExit
  BY DEF IInv
<1> QED BY <1>1, Invariance, PTL

\* schedule() declares a dead waiting loop only where there is one: every
\* process is blocked, and no child's exit could wake any of them.
THEOREM DeadWait == Spec => []DeadWaitIsReal
<1>1. IInv => DeadWaitIsReal
  <2> SUFFICES ASSUME IInv, machine = "panic" PROVE
        /\ Live = Range(blocked)
        /\ \A c \in Created :
             ppid[c] \in Live => c \in Range(blocked) \/ reaped[c] # "no"
    BY DEF DeadWaitIsReal
  <2>1. runnable = <<>> /\ running = NoPid
    BY DEF IInv, OneState, PanicQuiet
  <2>2. Range(runnable) = {}
    BY <2>1 DEF Range
  <2>3. Live = Range(blocked)
    BY <2>1, <2>2 DEF Live, Running
  <2>4. ASSUME NEW c \in Created, ppid[c] \in Live, c \notin Live
        PROVE  reaped[c] # "no"
    <3>1. signal_list[ppid[c]] = <<>>
      BY <2>4 DEF IInv, PanicQuiet
    <3>2. Range(signal_list[ppid[c]]) = {}
      BY <3>1 DEF Range
    <3> QED BY <2>4, <3>2 DEF IInv, NoLostExit
  <2> QED BY <2>3, <2>4
<1> QED BY <1>1, Invariance, PTL

\* The pid cached for the fast system call is current at every return to user mode.
THEOREM FastPid == Spec => []FastPidCurrent
<1>1. IInv => FastPidCurrent
  BY DEF IInv
<1> QED BY <1>1, Invariance, PTL
=============================================================================
