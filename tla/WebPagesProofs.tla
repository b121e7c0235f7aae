--------------------------- MODULE WebPagesProofs ---------------------------
(***************************************************************************)
(* Theorems about WebPages, for every table of pages and thunks that keeps *)
(* to a discipline which can be read off the tables, and for every number  *)
(* of clicks, refused requests and lost answers.                           *)
(***************************************************************************)
EXTENDS WebPages, TLAPS

\* The fields of a request.
CallFields == {"op", "item", "v", "body", "left", "ans", "phase", "owes"}

-----------------------------------------------------------------------------
(* Bags of calls, and the thunks of a page.                                *)

\* The call c gives way to the calls in cs; the others stay in flight.
LEMMA BecomesCalls ==
    ASSUME IsABag(calls), NEW c, NEW cs
    PROVE  LET b == Becomes(c, cs)
           IN  /\ IsABag(b)
               /\ cs \subseteq DOMAIN b
               /\ DOMAIN calls \ {c} \subseteq DOMAIN b
               /\ DOMAIN b \subseteq DOMAIN calls \cup cs
<1> DEFINE s == SetToBag({c})
           m == calls (-) s
<1>1. DOMAIN s = {c} /\ s[c] = 1
  BY DEF SetToBag
<1>2. /\ \A e \in DOMAIN calls : calls[e] \in Nat /\ calls[e] > 0
      /\ calls = [e \in DOMAIN calls |-> calls[e]]
  BY DEF IsABag
<1>3. /\ \A e \in DOMAIN m : m[e] \in Nat /\ m[e] > 0
      /\ DOMAIN m \subseteq DOMAIN calls
      /\ DOMAIN calls \ {c} \subseteq DOMAIN m
  <2> HIDE DEF s
  <2> QED
    BY <1>1, <1>2 DEF (-)
<1> DEFINE t == SetToBag(cs)
           b == m (+) t
<1>4. DOMAIN t = cs /\ \A e \in cs : t[e] = 1
  BY DEF SetToBag
<1> HIDE DEF m, t
<1>5. /\ DOMAIN b = DOMAIN m \cup DOMAIN t
      /\ \A e \in DOMAIN b : b[e] \in Nat /\ b[e] > 0
      /\ b = [e \in DOMAIN b |-> b[e]]
  BY <1>3, <1>4 DEF (+)
<1>6. IsABag(b)
  <2> HIDE DEF b
  <2> QED
    BY <1>5 DEF IsABag
<1>7. b = Becomes(c, cs)
  BY DEF Becomes, m, s, t
<1> HIDE DEF b
<1> QED
  BY <1>3, <1>4, <1>5, <1>6, <1>7

\* More calls are put into a bag.
LEMMA MoreCalls ==
    ASSUME NEW a, NEW b, IsABag(a), IsABag(b)
    PROVE  IsABag(a (+) b) /\ DOMAIN (a (+) b) = DOMAIN a \cup DOMAIN b
<1>1. /\ \A e \in DOMAIN a : a[e] \in Nat /\ a[e] > 0
      /\ \A e \in DOMAIN b : b[e] \in Nat /\ b[e] > 0
  BY DEF IsABag
<1> DEFINE s == a (+) b
<1>2. /\ DOMAIN s = DOMAIN a \cup DOMAIN b
      /\ \A e \in DOMAIN s : s[e] \in Nat /\ s[e] > 0
      /\ s = [e \in DOMAIN s |-> s[e]]
  BY <1>1 DEF (+)
<1> HIDE DEF s
<1>3. IsABag(s) /\ DOMAIN s = DOMAIN a \cup DOMAIN b
  BY <1>2 DEF IsABag
<1> QED
  BY <1>3 DEF s

\* A set as a bag.
LEMMA SetBag ==
    ASSUME NEW S
    PROVE  IsABag(SetToBag(S)) /\ DOMAIN SetToBag(S) = S
<1> DEFINE b == SetToBag(S)
<1>1. DOMAIN b = S /\ (\A e \in S : b[e] = 1) /\ b = [e \in DOMAIN b |-> b[e]]
  BY DEF SetToBag
<1> HIDE DEF b
<1>2. IsABag(b) /\ DOMAIN b = S
  BY <1>1 DEF IsABag
<1> QED
  BY <1>2 DEF b

\* Ops has every thunk that a page starts by itself or from a control.
LEMMA OwnOps ==
    ASSUME NEW p \in Shown
    PROVE  /\ Range(AllPages[p].mount) \subseteq Ops[p]
           /\ Range(AllPages[p].shown) \subseteq Ops[p]
           /\ \A c \in AllPages[p].ctl : c.op \in Ops[p] /\ Range(c.also) \subseteq Ops[p]
<1> DEFINE pg == AllPages[p]
           After(ops) == ops \cup UNION {Range(ThunksOf[p][op].next) : op \in ops}
           own == Range(pg.mount) \cup Range(pg.shown)
                    \cup UNION {{c.op} \cup Range(c.also) : c \in pg.ctl}
<1>1. Ops[p] = After(After(own))
  BY DEF Ops
<1>2. \A ops : ops \subseteq After(ops)
  OBVIOUS
<1> HIDE DEF After
<1>3. own \subseteq After(After(own))
  BY <1>2
<1>4. \A c \in pg.ctl : {c.op} \cup Range(c.also) \subseteq own
  OBVIOUS
<1> QED
  BY <1>1, <1>3, <1>4

\* A request as it leaves.
LEMMA RequestFields ==
    ASSUME NEW op, NEW item, NEW v, NEW base, NEW owes, NEW st
    PROVE  LET r == Request(op, item, v, base, owes, st)
           IN  r.op = op /\ r.owes = owes /\ DOMAIN r = CallFields
<1> DEFINE row == T(op)
           body == CASE row.sends \in {"put", "draft"} ->
                          WithItem(st[row.doc], item, v)
                     [] row.sends = "putAnswer" -> WithItem(base[row.doc], item, v)
                     [] row.sends = "hold" -> base[row.doc]
                     [] OTHER -> {}
           parts == row.parts
           e == <<>>
<1>1. Request(op, item, v, base, owes, st)
        = [op |-> op, item |-> item, v |-> v, body |-> body, left |-> parts,
           ans |-> e, phase |-> "sent", owes |-> owes]
  BY DEF Request
<1> HIDE DEF body, parts, e
<1> QED
  BY <1>1 DEF CallFields

-----------------------------------------------------------------------------
(* SpinnersEnd.                                                            *)

\* The flags that the call c answers for: it lowers them when it settles, or
\* leaves them to a call that it starts then.
AnswersFor(c) == c.owes \cup Lowers(page, c.op) \cup HandsOn(page, c.op)

\* Calls are records of thunks of the page.
CallsInv ==
    /\ page \in Shown
    /\ IsABag(calls)
    /\ \A c \in DOMAIN calls : c.op \in Ops[page] /\ DOMAIN c = CallFields

\* Each flag that the user waits for has a call in flight that answers for it.
Awaited ==
    \A f \in busy \cap Watched[page] : \E c \in DOMAIN calls : f \in AnswersFor(c)

SpinInv == CallsInv /\ Awaited

\* A call that changes its phase or its answer answers for the same flags.
LEMMA SameThunk ==
    ASSUME SpinInv, NEW c \in DOMAIN calls, NEW d,
           d.op = c.op /\ d.owes = c.owes /\ DOMAIN d = CallFields,
           calls' = Becomes(c, {d}), UNCHANGED <<page, busy>>
    PROVE  SpinInv'
<1>1. /\ IsABag(calls')
      /\ {d} \subseteq DOMAIN calls'
      /\ DOMAIN calls \ {c} \subseteq DOMAIN calls'
      /\ DOMAIN calls' \subseteq DOMAIN calls \cup {d}
  BY BecomesCalls DEF SpinInv, CallsInv
<1>2. CallsInv'
  BY <1>1 DEF SpinInv, CallsInv
<1>3. Awaited'
  <2> SUFFICES ASSUME NEW f \in busy \cap Watched[page]
               PROVE  \E e \in DOMAIN calls' : f \in AnswersFor(e)'
    BY DEF Awaited
  <2>1. PICK e \in DOMAIN calls : f \in AnswersFor(e)
    BY DEF SpinInv, Awaited
  <2>2. CASE e = c
    BY <1>1, <2>1, <2>2 DEF AnswersFor
  <2>3. CASE e # c
    BY <1>1, <2>1, <2>3 DEF AnswersFor
  <2> QED
    BY <2>2, <2>3
<1> QED
  BY <1>2, <1>3 DEF SpinInv

\* Thunks started by the page itself answer for the flags that they raise.
LEMMA OwnRequests ==
    ASSUME Bracketed, page \in Shown, NEW ops, Range(ops) \subseteq Ops[page], NEW st
    PROVE  LET b == Requests(ops, st)
           IN  /\ IsABag(b)
               /\ \A c \in DOMAIN b : c.op \in Ops[page] /\ DOMAIN c = CallFields
               /\ \A op \in Range(ops) : \E c \in DOMAIN b :
                     Lowers(page, op) \cup HandsOn(page, op) \subseteq AnswersFor(c)
               /\ \A f \in SetBy(ops) \cap Watched[page] :
                     \E c \in DOMAIN b : f \in AnswersFor(c)
<1> DEFINE R(op) == Request(op, NoItem, FALSE, <<>>, {}, st)
           rs == {R(op) : op \in Range(ops)}
           b == Requests(ops, st)
<1>1. \A op : R(op).op = op /\ DOMAIN R(op) = CallFields
  <2> TAKE op
  <2> DEFINE e == <<>>
             n == {}
             v == FALSE
  <2>1. R(op) = Request(op, NoItem, v, e, n, st)
    OBVIOUS
  <2> HIDE DEF R, e, n, v
  <2> QED
    BY <2>1, RequestFields
<1>2. IsABag(b) /\ DOMAIN b = rs
  <2>1. b = SetToBag(rs)
    BY DEF Requests
  <2> HIDE DEF b, rs
  <2> QED
    BY <2>1, SetBag
<1> HIDE DEF R, b
<1>3. \A op \in Range(ops) : R(op) \in DOMAIN b
  BY <1>2
<1>4. \A op \in Range(ops) :
         Lowers(page, op) \cup HandsOn(page, op) \subseteq AnswersFor(R(op))
  BY <1>1 DEF AnswersFor
<1>5. \A f \in SetBy(ops) \cap Watched[page] : \E c \in DOMAIN b : f \in AnswersFor(c)
  <2> SUFFICES ASSUME NEW f \in SetBy(ops) \cap Watched[page]
               PROVE  \E c \in DOMAIN b : f \in AnswersFor(c)
    OBVIOUS
  <2>1. PICK op \in Range(ops) : f \in T(op).set
    BY DEF SetBy
  <2>2. T(op).set \cap Watched[page] \subseteq Lowers(page, op) \cup HandsOn(page, op)
    BY DEF Bracketed, T
  <2> QED
    BY <1>3, <1>4, <2>1, <2>2
<1>6. \A c \in DOMAIN b : c.op \in Ops[page] /\ DOMAIN c = CallFields
  BY <1>1, <1>2
<1> QED
  BY <1>2, <1>3, <1>4, <1>5, <1>6 DEF b

\* A handler returns: the flags that the call answered for are down, or a
\* thunk that the handler has started answers for them.
LEMMA ReturnAwaited ==
    ASSUME Bracketed, SpinInv, NEW c \in DOMAIN calls, NEW st, NEW lowered, NEW next,
           Return(c, st, lowered, next), UNCHANGED page,
           next = <<>> \/ next = T(c.op).next,
           \A f \in AnswersFor(c) :
              \/ f \in lowered
              \/ next = <<>> /\ f \in c.owes
              \/ next # <<>> /\ f \in c.owes \cup T(c.op).owes
              \/ \E n \in Range(next) : f \in Lowers(page, n)
    PROVE  SpinInv'
<1> DEFINE flags == ((busy \ lowered) \ (IF next = <<>> THEN c.owes ELSE {}))
                       \cup SetBy(next)
           appear == ~ready /\ Visible(flags)
           cs == IF next = <<>> THEN {} ELSE Started(c, st)
           more == IF appear THEN Requests(P.shown, st) ELSE EmptyBag
           owed == c.owes \cup T(c.op).owes
<1>1. /\ busy' = flags \cup (IF appear THEN SetBy(P.shown) ELSE {})
      /\ calls' = Becomes(c, cs) (+) more
  BY DEF Return
<1> HIDE DEF flags, cs, more, appear
<1>2. page \in Shown /\ IsABag(calls) /\ c.op \in Ops[page]
  BY DEF SpinInv, CallsInv
<1>3. /\ IsABag(more)
      /\ \A d \in DOMAIN more : d.op \in Ops[page] /\ DOMAIN d = CallFields
      /\ appear => \A f \in SetBy(P.shown) \cap Watched[page] :
                      \E d \in DOMAIN more : f \in AnswersFor(d)
  <2>1. CASE appear
    <3>1. Range(P.shown) \subseteq Ops[page]
      BY <1>2, OwnOps DEF P
    <3> QED
      BY <1>2, <2>1, <3>1, OwnRequests DEF more
  <2>2. CASE ~appear
    <3>1. IsABag(EmptyBag) /\ DOMAIN EmptyBag = {}
      BY SetBag DEF EmptyBag
    <3> QED
      BY <2>2, <3>1 DEF more
  <2> QED
    BY <2>1, <2>2
<1>4. /\ \A d \in cs : d.op \in Ops[page] /\ DOMAIN d = CallFields
      /\ \A n \in Range(next) : \E d \in cs : d.op = n
      /\ next # <<>> => \E d \in cs : d.owes = owed
  <2>1. CASE next = <<>>
    BY <2>1 DEF cs, Range
  <2>2. CASE next # <<>>
    <3> DEFINE S(n) == Request(n, c.item, c.v, c.ans, IF n = Last(next) THEN owed ELSE {}, st)
    <3>1. cs = {S(n) : n \in Range(next)}
      BY <2>2 DEF cs, Started
    <3>2. \A n : S(n).op = n /\ DOMAIN S(n) = CallFields /\ (n = Last(next) => S(n).owes = owed)
      <4> TAKE n
      <4> DEFINE o == IF n = Last(next) THEN owed ELSE {}
      <4>1. n = Last(next) => o = owed
        OBVIOUS
      <4> HIDE DEF o
      <4>2. S(n) = Request(n, c.item, c.v, c.ans, o, st)
        BY DEF o
      <4> HIDE DEF S
      <4> QED
        BY <4>1, <4>2, RequestFields
    <3> HIDE DEF S
    <3>3. Range(next) \subseteq Ops[page] /\ Last(next) \in Range(next)
      BY <1>2, <2>2 DEF Bracketed, T
    <3> QED
      BY <3>1, <3>2, <3>3
  <2> QED
    BY <2>1, <2>2
<1>5. /\ IsABag(calls')
      /\ cs \subseteq DOMAIN calls' /\ DOMAIN more \subseteq DOMAIN calls'
      /\ DOMAIN calls \ {c} \subseteq DOMAIN calls'
      /\ DOMAIN calls' \subseteq DOMAIN calls \cup cs \cup DOMAIN more
  <2> DEFINE b == Becomes(c, cs)
  <2>1. /\ IsABag(b) /\ cs \subseteq DOMAIN b
        /\ DOMAIN calls \ {c} \subseteq DOMAIN b /\ DOMAIN b \subseteq DOMAIN calls \cup cs
    BY <1>2, BecomesCalls
  <2>2. calls' = b (+) more
    BY <1>1
  <2> HIDE DEF b
  <2>3. IsABag(calls') /\ DOMAIN calls' = DOMAIN b \cup DOMAIN more
    BY <1>3, <2>1, <2>2, MoreCalls
  <2> QED
    BY <2>1, <2>3
<1>6. CallsInv'
  BY <1>2, <1>3, <1>4, <1>5 DEF SpinInv, CallsInv
<1>7. ASSUME NEW f \in busy' \cap Watched[page]
      PROVE  \E d \in DOMAIN calls' : f \in AnswersFor(d)
  <2>1. CASE appear /\ f \in SetBy(P.shown)
    BY <1>3, <1>5, <2>1
  <2>2. CASE f \in SetBy(next)
    <3>1. PICK n \in Range(next) : f \in T(n).set
      BY <2>2 DEF SetBy
    <3>2. n \in Ops[page]
      BY <1>4
    <3>3. f \in Lowers(page, n) \cup HandsOn(page, n)
      BY <1>2, <3>1, <3>2 DEF Bracketed, T
    <3> QED
      BY <1>4, <1>5, <3>1, <3>3 DEF AnswersFor
  <2>3. CASE f \in busy /\ f \notin lowered /\ (next = <<>> => f \notin c.owes)
    <3>1. PICK d \in DOMAIN calls : f \in AnswersFor(d)
      BY <2>3 DEF SpinInv, Awaited
    <3>2. CASE d # c
      BY <1>5, <3>1, <3>2
    <3>3. CASE d = c
      <4>1. (next # <<>> /\ f \in owed) \/ \E n \in Range(next) : f \in Lowers(page, n)
        BY <2>3, <3>1, <3>3
      <4> QED
        BY <1>4, <1>5, <4>1 DEF AnswersFor
    <3> QED
      BY <3>2, <3>3
  <2> QED
    BY <1>1, <2>1, <2>2, <2>3 DEF flags
<1>8. Awaited'
  BY <1>7 DEF Awaited, AnswersFor, HandsOn, Lowers
<1> QED
  BY <1>6, <1>8 DEF SpinInv

\* The page is mounted.
LEMMA SpinInit == Bracketed /\ PageInit => SpinInv
<1> SUFFICES ASSUME Bracketed, PageInit
             PROVE  SpinInv
  OBVIOUS
<1>1. /\ page \in Shown
      /\ calls = Requests(P.mount, store)
      /\ busy = P.raised \cup SetBy(P.mount)
  BY DEF PageInit
<1>2. Range(P.mount) \subseteq Ops[page]
  BY <1>1, OwnOps DEF P
<1>3. /\ IsABag(calls)
      /\ \A c \in DOMAIN calls : c.op \in Ops[page] /\ DOMAIN c = CallFields
      /\ \A op \in Range(P.mount) : \E c \in DOMAIN calls :
            Lowers(page, op) \cup HandsOn(page, op) \subseteq AnswersFor(c)
      /\ \A f \in SetBy(P.mount) \cap Watched[page] :
            \E c \in DOMAIN calls : f \in AnswersFor(c)
  BY <1>1, <1>2, OwnRequests
<1>4. P.raised \cap Watched[page]
        \subseteq UNION {Lowers(page, op) \cup HandsOn(page, op) : op \in Range(P.mount)}
  BY <1>1 DEF Bracketed, P
<1>5. \A f \in P.raised \cap Watched[page] : \E c \in DOMAIN calls : f \in AnswersFor(c)
  <2> TAKE f \in P.raised \cap Watched[page]
  <2>1. PICK op \in Range(P.mount) : f \in Lowers(page, op) \cup HandsOn(page, op)
    BY <1>4
  <2> QED
    BY <1>3, <2>1
<1> QED
  BY <1>1, <1>3, <1>5 DEF SpinInv, CallsInv, Awaited

\* A control is operated.
LEMMA SpinClick ==
    ASSUME Bracketed, SpinInv, NEW ctl \in P.ctl, NEW item, Click(ctl, item)
    PROVE  SpinInv'
<1> DEFINE row == T(ctl.op)
           st == IF row.early THEN [store EXCEPT ![row.doc] = @ \ {item}] ELSE store
           w == Wish(row, item)
           e == <<>>
           R(op) == Request(op, item, w, e, IF op = ctl.op THEN ctl.holds ELSE {}, st)
           ops == {ctl.op} \cup Range(ctl.also)
           rs == {R(op) : op \in ops}
<1>1. /\ busy' = busy \cup row.set \cup ctl.holds \cup SetBy(ctl.also)
      /\ calls' = calls (+) SetToBag(rs)
      /\ page' = page
  BY DEF Click
<1>2. page \in Shown /\ IsABag(calls) /\ ops \subseteq Ops[page]
  BY OwnOps DEF SpinInv, CallsInv, P
<1>3. \A op : R(op).op = op /\ DOMAIN R(op) = CallFields
              /\ (op = ctl.op => R(op).owes = ctl.holds)
  <2> TAKE op
  <2> DEFINE o == IF op = ctl.op THEN ctl.holds ELSE {}
  <2>1. R(op) = Request(op, item, w, e, o, st) /\ (op = ctl.op => o = ctl.holds)
    OBVIOUS
  <2> HIDE DEF R, e, o, w, st
  <2> QED
    BY <2>1, RequestFields
<1> HIDE DEF R, st, w, e
<1>4. /\ IsABag(calls')
      /\ DOMAIN calls' = DOMAIN calls \cup rs
  <2> DEFINE b == SetToBag(rs)
  <2>1. calls' = calls (+) b
    BY <1>1
  <2>2. IsABag(b) /\ DOMAIN b = rs
    <3> HIDE DEF rs
    <3> QED
      BY SetBag
  <2> HIDE DEF rs, b
  <2> QED
    BY <1>2, <2>1, <2>2, MoreCalls
<1>5. \A op \in ops : \E c \in DOMAIN calls' :
         Lowers(page, op) \cup HandsOn(page, op) \subseteq AnswersFor(c)
  <2> TAKE op \in ops
  <2>1. R(op) \in DOMAIN calls' /\ R(op).op = op
    BY <1>3, <1>4
  <2> QED
    BY <2>1 DEF AnswersFor
<1>6. \A c \in DOMAIN calls' : c.op \in Ops[page] /\ DOMAIN c = CallFields
  BY <1>2, <1>3, <1>4 DEF SpinInv, CallsInv
<1>7. ASSUME NEW f \in busy' \cap Watched[page]
      PROVE  \E c \in DOMAIN calls' : f \in AnswersFor(c)
  <2>1. CASE f \in busy
    BY <1>4, <2>1 DEF SpinInv, Awaited
  <2>2. CASE f \in ctl.holds
    <3>1. R(ctl.op) \in DOMAIN calls' /\ R(ctl.op).owes = ctl.holds
      BY <1>3, <1>4
    <3> QED
      BY <2>2, <3>1 DEF AnswersFor
  <2>3. CASE \E op \in ops : f \in T(op).set
    <3>1. PICK op \in ops : f \in T(op).set
      BY <2>3
    <3>2. f \in Lowers(page, op) \cup HandsOn(page, op)
      BY <1>2, <3>1 DEF Bracketed, T
    <3> QED
      BY <1>5, <3>2
  <2> QED
    BY <1>1, <2>1, <2>2, <2>3 DEF SetBy
<1>8. Awaited'
  <2>1. page' = page
    BY <1>1
  <2>2. \A c : AnswersFor(c)' = AnswersFor(c)
    BY <2>1 DEF AnswersFor, HandsOn, Lowers
  <2> QED
    BY <1>7, <2>1, <2>2 DEF Awaited
<1> QED
  BY <1>1, <1>2, <1>4, <1>6, <1>8 DEF SpinInv, CallsInv

\* The server handles a request or refuses it, or an answer is lost.
LEMMA SpinServe ==
    ASSUME SpinInv, NEW c \in DOMAIN calls, Serve(c) \/ Refuse(c) \/ Lose(c)
    PROVE  SpinInv'
<1>1. DOMAIN c = CallFields
  BY DEF SpinInv, CallsInv
<1>2. PICK d : /\ calls' = Becomes(c, {d})
               /\ d.op = c.op /\ d.owes = c.owes /\ DOMAIN d = CallFields
  <2>1. CASE Serve(c)
    <3>1. PICK part : calls' = Becomes(c,
            {[c EXCEPT !.ans = [d \in DOMAIN @ \union part |->
                                  IF d \in part THEN server'[d] ELSE @[d]],
                       !.left = @ \ {part},
                       !.phase = IF c.left \ {part} = {} THEN "ok" ELSE @]})
      BY <2>1 DEF Serve
    <3> DEFINE a == [d \in DOMAIN c.ans \union part |->
                       IF d \in part THEN server'[d] ELSE c.ans[d]]
               l == c.left \ {part}
               ph == IF c.left \ {part} = {} THEN "ok" ELSE c.phase
               d == [c EXCEPT !.ans = a, !.left = l, !.phase = ph]
    <3>2. calls' = Becomes(c, {d})
      BY <3>1
    <3> HIDE DEF a, l, ph
    <3>3. d.op = c.op /\ d.owes = c.owes /\ DOMAIN d = CallFields
      BY <1>1 DEF CallFields
    <3> QED
      BY <3>2, <3>3
  <2>2. CASE Refuse(c) \/ Lose(c)
    <3> DEFINE d == [c EXCEPT !.phase = "err"]
    <3>1. calls' = Becomes(c, {d})
      BY <2>2 DEF Refuse, Lose
    <3>2. d.op = c.op /\ d.owes = c.owes /\ DOMAIN d = CallFields
      BY <1>1 DEF CallFields
    <3> QED
      BY <3>1, <3>2
  <2> QED
    BY <2>1, <2>2
<1>3. UNCHANGED <<page, busy>>
  BY DEF Serve, Refuse, Lose
<1> QED
  BY <1>2, <1>3, SameThunk

\* A success handler runs to its end, or returns early, or a catch block runs.
LEMMA SpinSettle ==
    ASSUME Bracketed, SpinInv, NEW c \in DOMAIN calls,
           Settle(c) \/ SettleEarly(c) \/ Fail(c)
    PROVE  SpinInv'
<1> DEFINE row == T(c.op)
<1>1. UNCHANGED page
  BY DEF Settle, SettleEarly, Fail
<1>2. \A f \in AnswersFor(c) :
         \/ f \in c.owes
         \/ /\ f \in row.fail \cup row.owes
            /\ f \in row.done \/ (row.next # <<>> /\ f \in row.owes)
            /\ row.stops => f \in row.fail
         \/ f \in row.fail /\ \E n \in Range(row.next) : f \in Lowers(page, n)
  BY DEF AnswersFor, HandsOn, Lowers, T
<1>3. \A n : n = <<>> => Range(n) = {}
  BY DEF Range
<1>4. CASE Settle(c)
  <2>1. Return(c, Kept(c), row.done, row.next)
    BY <1>4 DEF Settle
  <2>2. \A f \in AnswersFor(c) :
           \/ f \in row.done
           \/ row.next = <<>> /\ f \in c.owes
           \/ row.next # <<>> /\ f \in c.owes \cup row.owes
           \/ \E n \in Range(row.next) : f \in Lowers(page, n)
    BY <1>2
  <2> QED
    BY <1>1, <2>1, <2>2, ReturnAwaited
<1>5. CASE SettleEarly(c)
  <2> DEFINE e == <<>>
  <2>1. Return(c, store, row.fail, e) /\ row.stops
    BY <1>5 DEF SettleEarly
  <2>2. \A f \in AnswersFor(c) :
           \/ f \in row.fail
           \/ e = <<>> /\ f \in c.owes
    BY <1>2, <2>1
  <2>3. e = <<>>
    OBVIOUS
  <2> HIDE DEF e
  <2> QED
    BY <1>1, <2>1, <2>2, <2>3, ReturnAwaited
<1>6. CASE Fail(c)
  <2> DEFINE next == IF row.anyway THEN row.next ELSE <<>>
             lowered == row.fail \cup row.owes
  <2>1. Return(c, store, lowered, next)
    BY <1>6 DEF Fail
  <2>2. \A f \in AnswersFor(c) : f \in lowered \/ f \in c.owes
    BY <1>2
  <2>3. next = <<>> \/ next = row.next
    OBVIOUS
  <2> HIDE DEF next, lowered
  <2>4. \A f \in AnswersFor(c) :
           \/ f \in lowered
           \/ next = <<>> /\ f \in c.owes
           \/ next # <<>> /\ f \in c.owes \cup row.owes
    BY <2>2
  <2> QED
    BY <1>1, <2>1, <2>3, <2>4, ReturnAwaited
<1> QED
  BY <1>4, <1>5, <1>6

\* No spinner turns for ever (SpinnersEnd), for all pages and thunks that keep
\* the discipline Bracketed, however often the user clicks, requests are
\* refused and answers are lost, and in whatever order they come: a "processing"
\* flag is up only as long as a request is in flight whose handlers lower it,
\* or leave it to a request that they start.
THEOREM SpinnersEndTheorem == Bracketed => (PageSpec => []SpinnersEnd)
<1> SUFFICES ASSUME Bracketed
             PROVE  PageSpec => []SpinnersEnd
  OBVIOUS
<1>1. PageInit => SpinInv
  BY SpinInit
<1>2. SpinInv /\ [PageNext]_pageVars => SpinInv'
  <2> SUFFICES ASSUME SpinInv, [PageNext]_pageVars
               PROVE  SpinInv'
    OBVIOUS
  <2>1. CASE \E c \in P.ctl, item \in Items : Click(c, item)
    BY <2>1, SpinClick
  <2>2. CASE \E c \in BagToSet(calls) : Serve(c) \/ Refuse(c) \/ Lose(c)
    BY <2>2, SpinServe DEF BagToSet
  <2>3. CASE \E c \in BagToSet(calls) : Settle(c) \/ SettleEarly(c) \/ Fail(c)
    BY <2>3, SpinSettle DEF BagToSet
  <2>4. CASE UNCHANGED pageVars
    BY <2>4 DEF pageVars, SpinInv, CallsInv, Awaited, AnswersFor, HandsOn, Lowers
  <2> QED
    BY <2>1, <2>2, <2>3, <2>4 DEF PageNext
<1>3. SpinInv => SpinnersEnd
  <2> SUFFICES ASSUME SpinInv, calls = EmptyBag
               PROVE  busy \cap Watched[page] = {}
    BY DEF SpinnersEnd
  <2>1. DOMAIN calls = {}
    BY SetBag DEF EmptyBag
  <2> QED
    BY <2>1 DEF SpinInv, Awaited
<1> QED
  BY <1>1, <1>2, <1>3, PTL DEF PageSpec
-----------------------------------------------------------------------------
(* Converged.                                                              *)

\* Two versions of a document agree on the item j.
Agree(A, B, j) == j \in A <=> j \in B

\* If all goes well, the call c will leave in the store what val, the server's
\* version of the document d, says of the item j.
Brings(p, c, d, j, val) ==
    LET row == ThunksOf[p][c.op]
    IN  \/ c.phase = "sent" /\ Loads(p, c.op, d) /\ d \in UNION c.left
        \/ /\ c.phase \in {"sent", "ok"} /\ Loads(p, c.op, d)
           /\ d \in DOMAIN c.ans /\ Agree(c.ans[d], val, j)
        \/ c.phase \in {"sent", "ok"} /\ Holds(p, c.op, d) /\ Agree(c.body, val, j)
        \/ c.phase = "ok" /\ row.doc = d /\ row.keeps = "put" /\ Agree(c.body, val, j)
        \/ /\ c.phase = "ok" /\ row.doc = d /\ row.keeps \in {"patch", "flip"}
           /\ c.item = j /\ (c.v <=> j \in val)
        \/ /\ c.phase = "ok" \/ (c.phase = "sent" /\ row.sends = "nothing")
           /\ \E n \in Range(row.next) : Reloads(p, n, d)

\* The call c holds something else.
Lags(p, c, d, j, val) ==
    LET row == ThunksOf[p][c.op]
    IN  /\ c.phase # "err"
        /\ \/ d \in DOMAIN c.ans /\ ~Agree(c.ans[d], val, j)
           \/ row.sends = "hold" /\ row.doc = d /\ ~Agree(c.body, val, j)
           \/ c.phase = "ok" /\ row.doc = d /\ row.keeps = "put" /\ ~Agree(c.body, val, j)
           \/ /\ c.phase = "ok" /\ row.doc = d /\ row.keeps \in {"patch", "flip"}
              /\ c.item = j /\ ~(c.v <=> j \in val)

\* The parts of a call fit together.
WellFormed(p, c) ==
    LET row == ThunksOf[p][c.op]
    IN  /\ c.left \subseteq row.parts
        /\ DocsOf(row) \subseteq DOMAIN c.ans \cup UNION c.left
        /\ c.phase = "ok" => c.left = {}
        /\ row.sends \in {"put", "putAnswer"} => (c.item \in c.body <=> c.v)

Shape ==
    /\ DOMAIN store = AllDocs[page] /\ DOMAIN server = AllDocs[page]
    /\ \A c \in DOMAIN calls : WellFormed(page, c)

\* Whatever the store, or a call, has of an item of a document that the page
\* follows: if it is out of date, a call is on its way that brings the server's.
UpToDate ==
    harm = {} => \A d \in Followed(page) : \A j :
       \/ \E c \in DOMAIN calls : Brings(page, c, d, j, server[d])
       \/ /\ Agree(store[d], server[d], j)
          /\ \A c \in DOMAIN calls : ~Lags(page, c, d, j, server[d])

\* A switch that will be turned over when the answer comes still shows what it
\* showed when it was clicked.
Flips ==
    harm = {} => \A c \in DOMAIN calls :
       LET row == T(c.op)
       IN  row.keeps = "flip" /\ row.doc \in Followed(page) /\ c.phase # "err" =>
             (c.v <=> c.item \notin store[row.doc])

FollowInv == SpinInv /\ Shape /\ UpToDate /\ Flips

\* The call e has just been started for the thunk op.
Fresh(p, e, op, item, v, base) ==
    LET row == ThunksOf[p][op]
    IN  /\ e.op = op /\ e.item = item /\ e.v = v
        /\ e.left = row.parts /\ DOMAIN e.ans = {} /\ e.phase = "sent"
        /\ row.sends = "hold" => e.body = base[row.doc]
        /\ row.sends \in {"put", "putAnswer"} => (item \in e.body <=> v)

\* Request makes such a call.
LEMMA RequestFresh ==
    ASSUME NEW op, NEW item, NEW v, NEW base, NEW owes, NEW st
    PROVE  Fresh(page, Request(op, item, v, base, owes, st), op, item, v, base)
<1> DEFINE row == T(op)
           body == CASE row.sends \in {"put", "draft"} ->
                          WithItem(st[row.doc], item, v)
                     [] row.sends = "putAnswer" -> WithItem(base[row.doc], item, v)
                     [] row.sends = "hold" -> base[row.doc]
                     [] OTHER -> {}
           parts == row.parts
           e == <<>>
           r == Request(op, item, v, base, owes, st)
<1>1. r = [op |-> op, item |-> item, v |-> v, body |-> body, left |-> parts,
           ans |-> e, phase |-> "sent", owes |-> owes]
  BY DEF Request
<1>2. DOMAIN e = {}
  OBVIOUS
<1>3. /\ row.sends = "hold" => body = base[row.doc]
      /\ row.sends = "put" => body = WithItem(st[row.doc], item, v)
      /\ row.sends = "putAnswer" => body = WithItem(base[row.doc], item, v)
  OBVIOUS
<1> HIDE DEF body, parts, e, r
<1>4. /\ r.op = op /\ r.item = item /\ r.v = v /\ r.body = body /\ r.left = parts
      /\ r.ans = e /\ r.phase = "sent"
  BY <1>1
<1>5. row.sends \in {"put", "putAnswer"} => (item \in body <=> v)
  BY <1>3 DEF WithItem
<1> QED
  BY <1>2, <1>3, <1>4, <1>5 DEF Fresh, parts, r, T

\* A call that has just been started is well formed,
LEMMA FreshWell ==
    ASSUME NEW p, NEW e, NEW op, NEW item, NEW v, NEW base, Fresh(p, e, op, item, v, base)
    PROVE  WellFormed(p, e)
  BY DEF Fresh, WellFormed, DocsOf

\* holds nothing but what it was given,
LEMMA FreshLags ==
    ASSUME NEW p, NEW e, NEW op, NEW item, NEW v, NEW base, Fresh(p, e, op, item, v, base),
           NEW d, NEW j, NEW val, Lags(p, e, d, j, val)
    PROVE  /\ ThunksOf[p][op].sends = "hold" /\ ThunksOf[p][op].doc = d
           /\ ~Agree(base[d], val, j)
  BY DEF Fresh, Lags

\* and brings what it loads.
LEMMA FreshBrings ==
    ASSUME NEW p, NEW e, NEW op, NEW item, NEW v, NEW base, Fresh(p, e, op, item, v, base),
           NEW d, NEW j, NEW val,
           Reloads(p, op, d) \/ (Holds(p, op, d) /\ Agree(base[d], val, j))
    PROVE  Brings(p, e, d, j, val)
<1>1. CASE Loads(p, op, d)
  BY <1>1 DEF Fresh, Brings, Loads, DocsOf
<1>2. CASE /\ ThunksOf[p][op].sends = "nothing"
           /\ \E n \in Range(ThunksOf[p][op].next) : Loads(p, n, d)
  BY <1>2 DEF Fresh, Brings, Reloads
<1>3. CASE Holds(p, op, d) /\ Agree(base[d], val, j)
  BY <1>3 DEF Fresh, Brings, Holds
<1> QED
  BY <1>1, <1>2, <1>3 DEF Reloads

\* Only what the server has of the item itself matters.
LEMMA SameVersion ==
    ASSUME NEW p, NEW c, NEW d, NEW j, NEW val, NEW new, Agree(val, new, j)
    PROVE  /\ Brings(p, c, d, j, val) <=> Brings(p, c, d, j, new)
           /\ Lags(p, c, d, j, val) <=> Lags(p, c, d, j, new)
<1>1. Brings(p, c, d, j, val) <=> Brings(p, c, d, j, new)
  BY DEF Brings, Agree
<1>2. Lags(p, c, d, j, val) <=> Lags(p, c, d, j, new)
  BY DEF Lags, Agree
<1> QED
  BY <1>1, <1>2

\* The documents that a page follows are in the store and at the server, and no
\* form of the page works on a copy of them.
LEMMA FollowedDocs ==
    ASSUME Refreshing, page \in Shown, NEW d \in Followed(page)
    PROVE  d \in AllDocs[page] /\ d \notin P.frozen /\ d # NoDoc
<1>1. d \in AllDocs[page] /\ d \notin P.frozen
  BY DEF Refreshing, P
<1> DEFINE rows == {ThunksOf[page][op] : op \in Ops[page]}
           docs == UNION {DocsOf(row) \cup {row.doc} : row \in rows}
<1>2. AllDocs[page] = docs \ {NoDoc}
  BY DEF AllDocs
<1> HIDE DEF docs
<1> QED
  BY <1>1, <1>2

\* The calls in flight besides one of the calls c.
Others(c) == DOMAIN Becomes(c, {})

\* They stay in flight when c gives way to the calls in cs.
LEMMA OthersStay ==
    ASSUME IsABag(calls), NEW c, NEW cs
    PROVE  /\ DOMAIN Becomes(c, cs) = Others(c) \cup cs
           /\ Others(c) \subseteq DOMAIN calls
           /\ DOMAIN calls \subseteq Others(c) \cup {c}
<1> DEFINE m == calls (-) SetToBag({c})
           n == {}
<1>1. \A S : DOMAIN (m (+) SetToBag(S)) = DOMAIN m \cup S
  <2> TAKE S
  <2> DEFINE t == SetToBag(S)
  <2>1. DOMAIN t = S
    BY SetBag
  <2> HIDE DEF m, t
  <2>2. DOMAIN (m (+) t) = DOMAIN m \cup DOMAIN t
    BY DEF (+)
  <2> QED
    BY <2>1, <2>2 DEF t
<1>2. \A S : Becomes(c, S) = m (+) SetToBag(S)
  BY DEF Becomes
<1> HIDE DEF m
<1>3. DOMAIN Becomes(c, cs) = DOMAIN m \cup cs /\ Others(c) = DOMAIN m
  BY <1>1, <1>2 DEF Others
<1>4. /\ DOMAIN calls \ {c} \subseteq DOMAIN Becomes(c, n)
      /\ DOMAIN Becomes(c, n) \subseteq DOMAIN calls \cup n
  <2> HIDE DEF n
  <2> QED
    BY BecomesCalls
<1> QED
  BY <1>3, <1>4 DEF Others

\* The calls in flight after a handler has returned: the others, those that it
\* has started, and those that the page starts once it can be seen.
LEMMA ReturnCalls ==
    ASSUME IsABag(calls), NEW c, NEW st, NEW lowered, NEW next,
           Return(c, st, lowered, next)
    PROVE  /\ store' = st
           /\ Others(c) \subseteq DOMAIN calls'
           /\ next = T(c.op).next => \A n \in Range(next) : \E e \in DOMAIN calls' :
                 Fresh(page, e, n, c.item, c.v, c.ans)
           /\ \A e \in DOMAIN calls' :
                 \/ e \in Others(c)
                 \/ next # <<>> /\ \E n \in Range(T(c.op).next) :
                       Fresh(page, e, n, c.item, c.v, c.ans)
                 \/ \E base : \E op \in Range(P.shown) :
                       Fresh(page, e, op, NoItem, FALSE, base)
<1> DEFINE flags == ((busy \ lowered) \ (IF next = <<>> THEN c.owes ELSE {}))
                       \cup SetBy(next)
           appear == ~ready /\ Visible(flags)
           cs == IF next = <<>> THEN {} ELSE Started(c, st)
           more == IF appear THEN Requests(P.shown, st) ELSE EmptyBag
           owed == c.owes \cup T(c.op).owes
           b == Becomes(c, cs)
<1>1. store' = st /\ calls' = b (+) more
  BY DEF Return
<1> HIDE DEF flags, appear
<1>2. /\ IsABag(more)
      /\ \A e \in DOMAIN more : \E base : \E op \in Range(P.shown) :
            Fresh(page, e, op, NoItem, FALSE, base)
  <2>1. CASE appear
    <3> DEFINE nil == <<>>
               no == FALSE
               none == {}
               R(op) == Request(op, NoItem, no, nil, none, st)
               rs == {R(op) : op \in Range(P.shown)}
    <3>1. more = SetToBag(rs)
      BY <2>1 DEF Requests
    <3> HIDE DEF nil, none
    <3>2. \A op : Fresh(page, R(op), op, NoItem, no, nil)
      <4> HIDE DEF no
      <4> QED
        BY RequestFresh
    <3> HIDE DEF R, more
    <3>3. IsABag(more) /\ DOMAIN more = rs
      <4> HIDE DEF rs
      <4> QED
        BY <3>1, SetBag
    <3> QED
      BY <3>2, <3>3
  <2>2. CASE ~appear
    <3>1. IsABag(EmptyBag) /\ DOMAIN EmptyBag = {}
      BY SetBag DEF EmptyBag
    <3> QED
      BY <2>2, <3>1
  <2> QED
    BY <2>1, <2>2
<1> HIDE DEF more
<1>3. /\ \A e \in cs : next # <<>> /\ \E n \in Range(T(c.op).next) :
                          Fresh(page, e, n, c.item, c.v, c.ans)
      /\ next = T(c.op).next =>
            \A n \in Range(next) : \E e \in cs : Fresh(page, e, n, c.item, c.v, c.ans)
  <2>1. CASE next = <<>>
    BY <2>1 DEF Range
  <2>2. CASE next # <<>>
    <3> DEFINE after == T(c.op).next
               S(n) == Request(n, c.item, c.v, c.ans, IF n = Last(after) THEN owed ELSE {}, st)
    <3>1. cs = {S(n) : n \in Range(after)}
      BY <2>2 DEF Started
    <3>2. \A n : Fresh(page, S(n), n, c.item, c.v, c.ans)
      <4> TAKE n
      <4> DEFINE o == IF n = Last(after) THEN owed ELSE {}
      <4>1. S(n) = Request(n, c.item, c.v, c.ans, o, st)
        OBVIOUS
      <4> HIDE DEF S, o
      <4> QED
        BY <4>1, RequestFresh
    <3> HIDE DEF S, cs
    <3> QED
      BY <2>2, <3>1, <3>2
  <2> QED
    BY <2>1, <2>2
<1> HIDE DEF cs
<1>4. IsABag(b) /\ DOMAIN b = Others(c) \cup cs
  BY OthersStay, BecomesCalls
<1> HIDE DEF b
<1>5. DOMAIN calls' = DOMAIN b \cup DOMAIN more
  BY <1>1, <1>2, <1>4, MoreCalls
<1>6. next = T(c.op).next => \A n \in Range(next) : \E e \in DOMAIN calls' :
         Fresh(page, e, n, c.item, c.v, c.ans)
  BY <1>3, <1>4, <1>5
<1>7. ASSUME NEW e \in DOMAIN calls', e \notin Others(c)
      PROVE  \/ next # <<>> /\ \E n \in Range(T(c.op).next) :
                   Fresh(page, e, n, c.item, c.v, c.ans)
             \/ \E base : \E op \in Range(P.shown) :
                   Fresh(page, e, op, NoItem, FALSE, base)
  <2>1. e \in cs \/ e \in DOMAIN more
    BY <1>4, <1>5, <1>7
  <2>2. CASE e \in cs
    BY <1>3, <2>2
  <2>3. CASE e \in DOMAIN more
    BY <1>2, <2>3, Zenon
  <2> QED
    BY <2>1, <2>2, <2>3
<1> QED
  BY <1>1, <1>4, <1>5, <1>6, <1>7

\* What a request changes at the server: the item that it is about, if it
\* clobbers nothing else.
LEMMA HandledItem ==
    ASSUME NEW c, NEW d, NEW j, Shape, c \in DOMAIN calls, d \in DOMAIN server,
           harm = {}, ~Clobbers(c)
    PROVE  LET row == T(c.op)
               new == Handled(c)
           IN  /\ DOMAIN new = DOMAIN server
               /\ row.doc = d /\ row.sends \in Writing => (c.item \in new[d] <=> c.v)
               /\ row.doc = d /\ row.sends \in {"put", "putAnswer"} => new[d] = c.body
               /\ \/ row.doc = d /\ row.sends \in Writing /\ c.item = j
                  \/ Agree(server[d], new[d], j)
<1> DEFINE row == T(c.op)
           new == Handled(c)
<1>1. /\ row.sends = "patch" => new = [server EXCEPT ![row.doc] = WithItem(@, c.item, c.v)]
      /\ row.sends = "wipe" => new = [server EXCEPT ![row.doc] = WithItem({}, c.item, c.v)]
      /\ row.sends \in {"put", "putAnswer"} => new = [server EXCEPT ![row.doc] = c.body]
      /\ row.sends \notin Writing => new = server
  BY DEF Handled, Writing
<1>2. row.sends \in {"put", "putAnswer", "wipe"} =>
         new[row.doc] \ {c.item} = server[row.doc] \ {c.item}
  BY DEF Clobbers
<1>3. row.sends \in {"put", "putAnswer"} => (c.item \in c.body <=> c.v)
  BY DEF Shape, WellFormed, T
<1> HIDE DEF new, row
<1>4. DOMAIN new = DOMAIN server
  BY <1>1 DEF Writing
<1>5. row.doc # d => new[d] = server[d]
  BY <1>1 DEF Writing
<1>6. ASSUME row.doc = d
      PROVE  /\ row.sends = "patch" => new[d] = WithItem(server[d], c.item, c.v)
             /\ row.sends = "wipe" => new[d] = WithItem({}, c.item, c.v)
             /\ row.sends \in {"put", "putAnswer"} => new[d] = c.body
  BY <1>1, <1>6
<1>7. row.doc = d /\ row.sends \in Writing => (c.item \in new[d] <=> c.v)
  BY <1>3, <1>6 DEF Writing, WithItem
<1>8. ASSUME row.doc = d, row.sends \in Writing, c.item # j
      PROVE  Agree(server[d], new[d], j)
  <2>1. CASE row.sends = "patch"
    BY <1>6, <1>8, <2>1 DEF WithItem, Agree
  <2>2. CASE row.sends \in {"put", "putAnswer", "wipe"}
    <3> DEFINE a == new[d]
               b == server[d]
    <3>1. a \ {c.item} = b \ {c.item}
      BY <1>2, <1>8, <2>2
    <3> HIDE DEF a, b
    <3>2. j \in a <=> j \in b
      BY <1>8, <3>1
    <3> QED
      BY <3>2 DEF a, b, Agree
  <2> QED
    BY <1>8, <2>1, <2>2 DEF Writing
<1>9. row.doc # d \/ row.sends \notin Writing => Agree(server[d], new[d], j)
  BY <1>1, <1>5 DEF Agree
<1> QED
  BY <1>4, <1>6, <1>7, <1>8, <1>9 DEF new, row

\* The call c once the server has handled a part of it.
Served(c, e, part, val) ==
    /\ e.op = c.op /\ e.item = c.item /\ e.v = c.v /\ e.body = c.body /\ e.owes = c.owes
    /\ DOMAIN e.ans = DOMAIN c.ans \cup part
    /\ \A d \in DOMAIN e.ans : e.ans[d] = IF d \in part THEN val[d] ELSE c.ans[d]
    /\ e.left = c.left \ {part}
    /\ c.phase = "sent"
    /\ e.phase = IF e.left = {} THEN "ok" ELSE "sent"
    /\ part \in c.left \/ (c.left = {} /\ part = {})

\* The step Serve makes such a call.
LEMMA ServedCall ==
    ASSUME NEW c, DOMAIN c = CallFields, Serve(c)
    PROVE  \E e, part : Served(c, e, part, server') /\ calls' = Becomes(c, {e})
<1> DEFINE E(part) == [c EXCEPT !.ans = [d \in DOMAIN @ \union part |->
                                           IF d \in part THEN server'[d] ELSE @[d]],
                                !.left = @ \ {part},
                                !.phase = IF c.left \ {part} = {} THEN "ok" ELSE @]
<1>1. PICK part \in (IF c.left = {} THEN {{}} ELSE c.left) : calls' = Becomes(c, {E(part)})
  BY DEF Serve
<1>2. c.phase = "sent" /\ (part \in c.left \/ (c.left = {} /\ part = {}))
  BY DEF Serve
<1> DEFINE a == [d \in DOMAIN c.ans \union part |->
                   IF d \in part THEN server'[d] ELSE c.ans[d]]
           l == c.left \ {part}
           ph == IF c.left \ {part} = {} THEN "ok" ELSE c.phase
           e == [c EXCEPT !.ans = a, !.left = l, !.phase = ph]
<1>3. E(part) = e
  OBVIOUS
<1>4. /\ DOMAIN a = DOMAIN c.ans \cup part
      /\ \A d \in DOMAIN a : a[d] = IF d \in part THEN server'[d] ELSE c.ans[d]
  OBVIOUS
<1>5. ph = IF l = {} THEN "ok" ELSE "sent"
  BY <1>2
<1> HIDE DEF E, a, ph
<1>6. /\ e.op = c.op /\ e.item = c.item /\ e.v = c.v /\ e.body = c.body
      /\ e.ans = a /\ e.left = l /\ e.phase = ph /\ e.owes = c.owes
  <2> HIDE DEF l
  <2> QED
    BY DEF CallFields
<1> HIDE DEF e
<1>7. Served(c, e, part, server')
  BY <1>2, <1>4, <1>5, <1>6 DEF Served
<1> QED
  BY <1>1, <1>3, <1>7

\* It is well formed.
LEMMA ServedWell ==
    ASSUME NEW p, NEW c, NEW e, NEW part, NEW val, Served(c, e, part, val), WellFormed(p, c)
    PROVE  WellFormed(p, e)
<1>1. UNION c.left \subseteq part \cup UNION e.left
  BY DEF Served
<1> QED
  BY <1>1 DEF Served, WellFormed

\* It brings what the server now has of an item that it has written,
LEMMA ServedWrite ==
    ASSUME NEW p, NEW c, NEW e, NEW part, NEW val, Served(c, e, part, val), WellFormed(p, c),
           NEW d \in Followed(p), NEW j, Follows(p, c.op),
           ThunksOf[p][c.op].doc = d, ThunksOf[p][c.op].sends \in Writing,
           c.item = j, j \in val[d] <=> c.v,
           ThunksOf[p][c.op].sends \in {"put", "putAnswer"} => val[d] = c.body
    PROVE  Brings(p, e, d, j, val[d])
<1> DEFINE row == ThunksOf[p][c.op]
<1>1. /\ row.parts = {}
      /\ \/ row.keeps \in {"patch", "put", "flip"}
         \/ \E n \in Range(row.next) : Reloads(p, n, d)
      /\ row.keeps = "put" => row.sends \in {"put", "putAnswer", "hold"}
  BY DEF Follows
<1>2. e.phase = "ok"
  BY <1>1 DEF Served, WellFormed
<1>3. e.op = c.op /\ e.item = c.item /\ e.v = c.v /\ e.body = c.body
  BY DEF Served
<1>4. CASE row.keeps = "put"
  <2>1. row.sends \in {"put", "putAnswer"}
    BY <1>1, <1>4 DEF Writing
  <2> QED
    BY <1>2, <1>3, <1>4, <2>1 DEF Brings, Agree
<1>5. CASE row.keeps \in {"patch", "flip"}
  BY <1>2, <1>3, <1>5 DEF Brings
<1>6. CASE \E n \in Range(row.next) : Reloads(p, n, d)
  BY <1>2, <1>3, <1>6 DEF Brings
<1> QED
  BY <1>1, <1>4, <1>5, <1>6

\* brings what it brought,
LEMMA ServedBrings ==
    ASSUME NEW p, NEW c, NEW e, NEW part, NEW val, Served(c, e, part, val),
           NEW d, NEW j, Brings(p, c, d, j, val[d])
    PROVE  Brings(p, e, d, j, val[d])
<1> DEFINE row == ThunksOf[p][c.op]
<1>1. /\ e.op = c.op /\ e.item = c.item /\ e.v = c.v /\ e.body = c.body
      /\ c.phase = "sent" /\ e.phase \in {"sent", "ok"}
      /\ e.left # {} => e.phase = "sent"
  BY DEF Served
<1>2. CASE Loads(p, c.op, d) /\ d \in part
  <2>1. d \in DOMAIN e.ans /\ e.ans[d] = val[d]
    BY <1>2 DEF Served
  <2> QED
    BY <1>1, <1>2, <2>1 DEF Brings, Agree
<1>3. CASE Loads(p, c.op, d) /\ d \notin part /\ d \in UNION c.left
  <2>1. d \in UNION e.left
    BY <1>3 DEF Served
  <2> QED
    BY <1>1, <1>3, <2>1 DEF Brings
<1>4. CASE Loads(p, c.op, d) /\ d \notin part /\ d \in DOMAIN c.ans /\ Agree(c.ans[d], val[d], j)
  <2>1. d \in DOMAIN e.ans /\ e.ans[d] = c.ans[d]
    BY <1>4 DEF Served
  <2> QED
    BY <1>1, <1>4, <2>1 DEF Brings
<1>5. CASE Holds(p, c.op, d) /\ Agree(c.body, val[d], j)
  BY <1>1, <1>5 DEF Brings
<1>6. CASE row.sends = "nothing" /\ \E n \in Range(row.next) : Reloads(p, n, d)
  BY <1>1, <1>6 DEF Brings
<1> QED
  BY <1>1, <1>2, <1>3, <1>4, <1>5, <1>6 DEF Brings

\* and lags in nothing that it has not written and did not lag in before.
LEMMA ServedLags ==
    ASSUME NEW p, NEW c, NEW e, NEW part, NEW val, Served(c, e, part, val),
           NEW d \in Followed(p), NEW j, Follows(p, c.op),
           ~(ThunksOf[p][c.op].doc = d /\ ThunksOf[p][c.op].sends \in Writing /\ c.item = j),
           ThunksOf[p][c.op].doc = d /\ ThunksOf[p][c.op].sends \in {"put", "putAnswer"}
              => val[d] = c.body,
           Lags(p, e, d, j, val[d])
    PROVE  Lags(p, c, d, j, val[d])
<1> DEFINE row == ThunksOf[p][c.op]
<1>1. /\ e.op = c.op /\ e.item = c.item /\ e.v = c.v /\ e.body = c.body
      /\ c.phase = "sent"
  BY DEF Served
<1>2. CASE d \in DOMAIN e.ans /\ ~Agree(e.ans[d], val[d], j)
  <2>1. d \notin part
    BY <1>2 DEF Served, Agree
  <2>2. d \in DOMAIN c.ans /\ e.ans[d] = c.ans[d]
    BY <1>2, <2>1 DEF Served
  <2> QED
    BY <1>1, <1>2, <2>2 DEF Lags
<1>3. CASE row.sends = "hold" /\ row.doc = d /\ ~Agree(c.body, val[d], j)
  BY <1>1, <1>3 DEF Lags
<1>4. CASE row.doc = d /\ row.keeps = "put" /\ ~Agree(c.body, val[d], j)
  <2>1. row.sends \in {"put", "putAnswer", "hold"}
    BY <1>4 DEF Follows
  <2> QED
    BY <1>3, <1>4, <2>1 DEF Agree
<1>5. CASE row.doc = d /\ row.keeps \in {"patch", "flip"} /\ c.item = j
  BY <1>5 DEF Follows
<1> QED
  BY <1>1, <1>2, <1>3, <1>4, <1>5 DEF Lags

\* The thunk of a call of the page keeps the discipline.
LEMMA CallFollows ==
    ASSUME Refreshing, SpinInv, NEW c \in DOMAIN calls
    PROVE  Follows(page, c.op) /\ DOMAIN c = CallFields
  BY DEF Refreshing, SpinInv, CallsInv

\* A request is handled.
LEMMA FollowServe ==
    ASSUME Refreshing, FollowInv, NEW c \in DOMAIN calls, Serve(c)
    PROVE  FollowInv'
<1>1. SpinInv'
  BY SpinServe DEF FollowInv
<1>2. page \in Shown /\ IsABag(calls) /\ Shape /\ UpToDate /\ Flips
  BY DEF FollowInv, SpinInv, CallsInv
<1>3. /\ server' = Handled(c) /\ page' = page /\ store' = store
      /\ harm' = {} => harm = {} /\ ~Clobbers(c)
  BY DEF Serve
<1>4. Follows(page, c.op) /\ DOMAIN c = CallFields
  BY CallFollows DEF FollowInv
<1>5. PICK e, part : Served(c, e, part, server') /\ calls' = Becomes(c, {e})
  BY <1>4, ServedCall
<1>6. /\ DOMAIN calls' = Others(c) \cup {e}
      /\ Others(c) \subseteq DOMAIN calls
      /\ DOMAIN calls \subseteq Others(c) \cup {c}
  BY <1>2, <1>5, OthersStay
<1>7. Shape'
  <2>1. DOMAIN server' = DOMAIN server
    BY <1>3 DEF Handled
  <2>2. WellFormed(page, e)
    BY <1>2, <1>5, ServedWell DEF Shape
  <2>3. \A f \in DOMAIN calls' : WellFormed(page, f)
    BY <1>2, <1>6, <2>2 DEF Shape
  <2> QED
    BY <1>2, <1>3, <2>1, <2>3 DEF Shape
<1>8. ASSUME harm' = {}, NEW d \in Followed(page), NEW j
      PROVE  \/ \E f \in DOMAIN calls' : Brings(page, f, d, j, server'[d])
             \/ /\ Agree(store[d], server'[d], j)
                /\ \A f \in DOMAIN calls' : ~Lags(page, f, d, j, server'[d])
  <2> DEFINE row == ThunksOf[page][c.op]
             written == row.doc = d /\ row.sends \in Writing /\ c.item = j
  <2>1. d \in DOMAIN server
    BY <1>2, FollowedDocs DEF Shape
  <2>2. /\ row.doc = d /\ row.sends \in Writing => (c.item \in server'[d] <=> c.v)
        /\ row.doc = d /\ row.sends \in {"put", "putAnswer"} => server'[d] = c.body
        /\ written \/ Agree(server[d], server'[d], j)
    BY <1>2, <1>3, <1>8, <2>1, HandledItem DEF T
  <2>3. CASE written
    <3>1. WellFormed(page, c)
      BY <1>2 DEF Shape
    <3>2. Brings(page, e, d, j, server'[d])
      BY <1>4, <1>5, <2>2, <2>3, <3>1, ServedWrite
    <3> QED
      BY <1>6, <3>2
  <2>4. CASE ~written /\ \E f \in DOMAIN calls : Brings(page, f, d, j, server[d])
    <3>1. PICK f \in DOMAIN calls : Brings(page, f, d, j, server[d])
      BY <2>4
    <3>2. Brings(page, f, d, j, server'[d])
      BY <2>2, <2>4, <3>1, SameVersion
    <3>3. CASE f = c
      BY <1>5, <1>6, <3>2, <3>3, ServedBrings
    <3>4. CASE f # c
      BY <1>6, <3>2, <3>4
    <3> QED
      BY <3>3, <3>4
  <2>5. CASE /\ ~written /\ Agree(store[d], server[d], j)
             /\ \A f \in DOMAIN calls : ~Lags(page, f, d, j, server[d])
    <3>1. Agree(server[d], server'[d], j)
      BY <2>2, <2>5
    <3>2. \A f \in DOMAIN calls : ~Lags(page, f, d, j, server'[d])
      BY <2>5, <3>1, SameVersion
    <3>3. ~Lags(page, e, d, j, server'[d])
      BY <1>4, <1>5, <2>2, <2>5, <3>2, ServedLags
    <3>4. Agree(store[d], server'[d], j)
      BY <2>5, <3>1 DEF Agree
    <3> QED
      BY <1>6, <3>2, <3>3, <3>4
  <2> QED
    BY <1>2, <1>3, <1>8, <2>3, <2>4, <2>5 DEF UpToDate
<1>9. UpToDate'
  BY <1>3, <1>8 DEF UpToDate
<1>10. Flips'
  <2> SUFFICES ASSUME harm = {}, NEW f \in DOMAIN calls',
                      T(f.op).keeps = "flip", T(f.op).doc \in Followed(page), f.phase # "err"
               PROVE  f.v <=> f.item \notin store[T(f.op).doc]
    BY <1>3 DEF Flips, T
  <2>1. CASE f = e
    BY <1>2, <1>5, <2>1 DEF Flips, Served
  <2>2. CASE f # e
    BY <1>2, <1>6, <2>2 DEF Flips
  <2> QED
    BY <2>1, <2>2
<1> QED
  BY <1>1, <1>7, <1>9, <1>10 DEF FollowInv

\* A request is refused, or an answer is lost: a request that was to bring
\* something is excused, and no other call depended on it.
LEMMA FollowRefuse ==
    ASSUME Refreshing, FollowInv, NEW c \in DOMAIN calls, Refuse(c) \/ Lose(c)
    PROVE  FollowInv'
<1> DEFINE e == [c EXCEPT !.phase = "err"]
<1>1. SpinInv'
  BY SpinServe DEF FollowInv
<1>2. page \in Shown /\ IsABag(calls) /\ Shape /\ UpToDate /\ Flips
  BY DEF FollowInv, SpinInv, CallsInv
<1>3. /\ page' = page /\ store' = store /\ server' = server
      /\ calls' = Becomes(c, {e})
      /\ harm' = {} => harm = {} /\ c.phase = "sent" /\ T(c.op).sends \notin {"nothing", "hold"}
  BY DEF Refuse, Lose
<1>4. DOMAIN c = CallFields
  BY CallFollows DEF FollowInv
<1>5. /\ e.op = c.op /\ e.item = c.item /\ e.v = c.v /\ e.body = c.body
      /\ e.ans = c.ans /\ e.left = c.left /\ e.phase = "err"
  BY <1>4 DEF CallFields
<1> HIDE DEF e
<1>6. /\ DOMAIN calls' = Others(c) \cup {e}
      /\ Others(c) \subseteq DOMAIN calls
      /\ DOMAIN calls \subseteq Others(c) \cup {c}
  BY <1>2, <1>3, OthersStay
<1>7. Shape'
  <2>1. WellFormed(page, e)
    BY <1>2, <1>5 DEF Shape, WellFormed
  <2> QED
    BY <1>2, <1>3, <1>6, <2>1 DEF Shape
<1>8. ASSUME harm' = {}, NEW d \in Followed(page), NEW j
      PROVE  \/ \E f \in DOMAIN calls' : Brings(page, f, d, j, server[d])
             \/ /\ Agree(store[d], server[d], j)
                /\ \A f \in DOMAIN calls' : ~Lags(page, f, d, j, server[d])
  <2>1. ~Brings(page, c, d, j, server[d])
    BY <1>3, <1>8 DEF Brings, Loads, Holds, T
  <2>2. ~Lags(page, e, d, j, server[d])
    BY <1>5 DEF Lags
  <2> QED
    BY <1>2, <1>3, <1>6, <1>8, <2>1, <2>2 DEF UpToDate
<1>9. UpToDate'
  BY <1>3, <1>8 DEF UpToDate
<1>10. Flips'
  BY <1>2, <1>3, <1>5, <1>6 DEF Flips, T
<1> QED
  BY <1>1, <1>7, <1>9, <1>10 DEF FollowInv

\* What the success handler leaves in the store of a document that the page
\* follows.
LEMMA KeptDoc ==
    ASSUME Refreshing, FollowInv, harm = {}, NEW c \in DOMAIN calls, c.phase = "ok",
           NEW d \in Followed(page)
    PROVE  LET row == T(c.op)
               k == Kept(c)
           IN  /\ DOMAIN k = DOMAIN store
               /\ d \notin DOMAIN c.ans /\ row.doc # d => k[d] = store[d]
               /\ row.keeps = "answer" =>
                     k[d] = IF d \in DOMAIN c.ans THEN c.ans[d] ELSE store[d]
               /\ row.keeps # "answer" /\ row.doc # d => k[d] = store[d]
               /\ row.doc = d /\ row.keeps = "put" => k[d] = c.body
               /\ row.doc = d /\ row.keeps \in {"patch", "flip"} =>
                     \A j : j \in k[d] <=> IF j = c.item THEN c.v ELSE j \in store[d]
               /\ row.keeps \notin {"answer", "put", "patch", "flip"} => k[d] = store[d]
<1> DEFINE row == T(c.op)
           k == Kept(c)
<1>1. /\ row.keeps = "answer" =>
            k = [x \in DOMAIN store |->
                   IF x \in DOMAIN c.ans /\ ~(ready /\ x \in P.frozen)
                   THEN c.ans[x] ELSE store[x]]
      /\ row.keeps = "flip" =>
            k = [store EXCEPT ![row.doc] = WithItem(@, c.item, c.item \notin @)]
      /\ row.keeps = "patch" => k = [store EXCEPT ![row.doc] = WithItem(@, c.item, c.v)]
      /\ row.keeps = "put" => k = [store EXCEPT ![row.doc] = c.body]
      /\ row.keeps \notin {"answer", "put", "patch", "flip"} => k = store
  BY DEF Kept
<1>2. d \in DOMAIN store /\ d \notin P.frozen
  BY FollowedDocs DEF FollowInv, SpinInv, CallsInv, Shape
<1>3. row.keeps = "flip" /\ row.doc = d => (c.v <=> c.item \notin store[d])
  BY DEF FollowInv, Flips
<1> HIDE DEF row, k
<1>4. DOMAIN k = DOMAIN store
  BY <1>1
<1>5. row.keeps = "answer" => k[d] = IF d \in DOMAIN c.ans THEN c.ans[d] ELSE store[d]
  BY <1>1, <1>2
<1>6. row.keeps # "answer" /\ row.doc # d => k[d] = store[d]
  BY <1>1, <1>2
<1>7. row.doc = d /\ row.keeps = "put" => k[d] = c.body
  BY <1>1, <1>2
<1>8. ASSUME row.doc = d, row.keeps \in {"patch", "flip"}
      PROVE  \A j : j \in k[d] <=> IF j = c.item THEN c.v ELSE j \in store[d]
  <2>1. CASE row.keeps = "patch"
    <3>1. k[d] = WithItem(store[d], c.item, c.v)
      BY <1>1, <1>2, <1>8, <2>1
    <3> QED
      BY <3>1 DEF WithItem
  <2>2. CASE row.keeps = "flip"
    <3>1. k[d] = WithItem(store[d], c.item, c.item \notin store[d])
      BY <1>1, <1>2, <1>8, <2>2
    <3> QED
      BY <1>3, <1>8, <2>2, <3>1 DEF WithItem
  <2> QED
    BY <1>8, <2>1, <2>2
<1>9. row.keeps \notin {"answer", "put", "patch", "flip"} => k[d] = store[d]
  BY <1>1
<1> QED
  BY <1>4, <1>5, <1>6, <1>7, <1>8, <1>9 DEF row, k

\* If neither the store nor the call was out of date, what it leaves is not.
LEMMA KeptAgrees ==
    ASSUME Refreshing, FollowInv, harm = {}, NEW c \in DOMAIN calls, c.phase = "ok",
           NEW d \in Followed(page), NEW j,
           Agree(store[d], server[d], j), ~Lags(page, c, d, j, server[d])
    PROVE  Agree(Kept(c)[d], server[d], j)
<1> DEFINE row == T(c.op)
           k == Kept(c)
<1>1. /\ row.keeps = "answer" =>
            k[d] = IF d \in DOMAIN c.ans THEN c.ans[d] ELSE store[d]
      /\ row.keeps # "answer" /\ row.doc # d => k[d] = store[d]
      /\ row.doc = d /\ row.keeps = "put" => k[d] = c.body
      /\ row.doc = d /\ row.keeps \in {"patch", "flip"} =>
            \A i : i \in k[d] <=> IF i = c.item THEN c.v ELSE i \in store[d]
      /\ row.keeps \notin {"answer", "put", "patch", "flip"} => k[d] = store[d]
  BY KeptDoc
<1> SUFFICES Agree(k[d], server[d], j)
  OBVIOUS
<1> HIDE DEF k
<1>2. /\ d \in DOMAIN c.ans => Agree(c.ans[d], server[d], j)
      /\ row.doc = d /\ row.keeps = "put" => Agree(c.body, server[d], j)
      /\ row.doc = d /\ row.keeps \in {"patch", "flip"} /\ c.item = j
            => (c.v <=> j \in server[d])
  BY DEF Lags, T
<1>3. CASE row.keeps = "answer"
  BY <1>1, <1>2, <1>3
<1>4. CASE row.keeps = "put" /\ row.doc = d
  BY <1>1, <1>2, <1>4
<1>5. CASE row.keeps \in {"patch", "flip"} /\ row.doc = d
  BY <1>1, <1>2, <1>5 DEF Agree
<1>6. CASE \/ row.keeps # "answer" /\ row.doc # d
           \/ row.keeps \notin {"answer", "put", "patch", "flip"}
  BY <1>1, <1>6
<1> QED
  BY <1>3, <1>4, <1>5, <1>6

\* A call that brings an item leaves it in the store, or starts one that brings
\* it in turn.
LEMMA KeptBrings ==
    ASSUME Refreshing, FollowInv, harm = {}, NEW c \in DOMAIN calls, c.phase = "ok",
           NEW d \in Followed(page), NEW j, Brings(page, c, d, j, server[d])
    PROVE  \/ \E n \in Range(T(c.op).next) :
                 \/ Reloads(page, n, d)
                 \/ Holds(page, n, d) /\ Agree(c.ans[d], server[d], j)
           \/ /\ Agree(Kept(c)[d], server[d], j)
              /\ T(c.op).keeps # "nothing"
              /\ d \in DOMAIN c.ans \/ d = T(c.op).doc
<1> DEFINE row == T(c.op)
           k == Kept(c)
<1>1. /\ row.keeps = "answer" =>
            k[d] = IF d \in DOMAIN c.ans THEN c.ans[d] ELSE store[d]
      /\ row.doc = d /\ row.keeps = "put" => k[d] = c.body
      /\ row.doc = d /\ row.keeps \in {"patch", "flip"} =>
            \A i : i \in k[d] <=> IF i = c.item THEN c.v ELSE i \in store[d]
  BY KeptDoc
<1> HIDE DEF k
<1>2. CASE Loads(page, c.op, d) /\ d \in DOMAIN c.ans /\ Agree(c.ans[d], server[d], j)
  <2>1. CASE row.keeps = "answer"
    <3>1. Agree(k[d], server[d], j)
      BY <1>1, <1>2, <2>1
    <3> QED
      BY <1>2, <2>1, <3>1 DEF k
  <2>2. CASE \E n \in Range(row.next) : Holds(page, n, d)
    BY <1>2, <2>2
  <2> QED
    BY <1>2, <2>1, <2>2 DEF Loads, T
<1>3. CASE /\ Holds(page, c.op, d) \/ (row.doc = d /\ row.keeps = "put")
           /\ Agree(c.body, server[d], j)
  <2>1. row.doc = d /\ row.keeps = "put"
    BY <1>3 DEF Holds, T
  <2>2. Agree(k[d], server[d], j)
    BY <1>1, <1>3, <2>1
  <2> QED
    BY <2>1, <2>2 DEF k
<1>4. CASE /\ row.doc = d /\ row.keeps \in {"patch", "flip"}
           /\ c.item = j /\ (c.v <=> j \in server[d])
  <2>1. Agree(k[d], server[d], j)
    BY <1>1, <1>4 DEF Agree
  <2> QED
    BY <1>4, <2>1 DEF k
<1>5. CASE \E n \in Range(row.next) : Reloads(page, n, d)
  BY <1>5
<1> QED
  BY <1>2, <1>3, <1>4, <1>5 DEF Brings, T

\* Whoever lags behind such a call carries something else.
LEMMA LagsCarries ==
    ASSUME NEW e, NEW d, NEW j, NEW k, NEW val, Agree(k, val, j), Lags(page, e, d, j, val)
    PROVE  Carries(e, d, k)
<1> DEFINE row == T(e.op)
<1>1. CASE d \in DOMAIN e.ans /\ ~Agree(e.ans[d], val, j)
  BY <1>1 DEF Carries, Agree
<1>2. CASE row.sends = "hold" /\ row.doc = d /\ ~Agree(e.body, val, j)
  BY <1>2 DEF Carries, Agree
<1>3. CASE e.phase = "ok" /\ row.doc = d /\ row.keeps = "put" /\ ~Agree(e.body, val, j)
  BY <1>3 DEF Carries, Agree
<1>4. CASE row.doc = d /\ row.keeps = "flip"
  BY <1>4 DEF Carries
<1>5. CASE /\ e.phase = "ok" /\ row.doc = d /\ row.keeps = "patch"
           /\ e.item = j /\ ~(e.v <=> j \in val)
  <2>1. (e.item \in k) # e.v
    BY <1>5 DEF Agree
  <2> QED
    BY <1>5, <2>1 DEF Carries
<1> QED
  BY <1>1, <1>2, <1>3, <1>4, <1>5 DEF Lags, T

\* An answer arrives.
LEMMA FollowSettle ==
    ASSUME Bracketed, Refreshing, FollowInv, NEW c \in DOMAIN calls, Settle(c)
    PROVE  FollowInv'
<1> DEFINE row == T(c.op)
           k == Kept(c)
<1>1. SpinInv'
  BY SpinSettle DEF FollowInv
<1>2. /\ page \in Shown /\ IsABag(calls) /\ Shape /\ UpToDate /\ Flips
      /\ WellFormed(page, c) /\ c.phase = "ok"
  BY DEF FollowInv, SpinInv, CallsInv, Shape, Settle
<1>3. /\ server' = server /\ page' = page
      /\ harm' = {} => harm = {} /\ ~Overtakes(c)
      /\ Return(c, Kept(c), row.done, row.next)
  BY DEF Settle
<1>4. Follows(page, c.op)
  BY CallFollows DEF FollowInv
<1>5. /\ store' = k
      /\ Others(c) \subseteq DOMAIN calls'
      /\ \A n \in Range(row.next) : \E e \in DOMAIN calls' :
            Fresh(page, e, n, c.item, c.v, c.ans)
      /\ \A e \in DOMAIN calls' :
            \/ e \in Others(c)
            \/ \E n \in Range(row.next) : Fresh(page, e, n, c.item, c.v, c.ans)
            \/ \E base : \E op \in Range(P.shown) : Fresh(page, e, op, NoItem, FALSE, base)
  <2> HIDE DEF row, k
  <2>1. Return(c, k, row.done, row.next) /\ row.next = T(c.op).next
    BY <1>3 DEF k, row
  <2> QED
    BY <1>2, <2>1, ReturnCalls
<1>6. Others(c) \subseteq DOMAIN calls /\ DOMAIN calls \subseteq Others(c) \cup {c}
  BY <1>2, OthersStay
<1>7. \A op \in Range(P.shown) :
         ThunksOf[page][op].sends # "hold" /\ ThunksOf[page][op].keeps # "flip"
  BY <1>2 DEF Refreshing, SelfStarted, P
<1>8. DOMAIN k = DOMAIN store
  BY DEF Kept
<1>9. Shape'
  <2>1. \A e \in DOMAIN calls' : WellFormed(page, e)
    BY <1>2, <1>5, <1>6, FreshWell DEF Shape
  <2> QED
    BY <1>2, <1>3, <1>5, <1>8, <2>1 DEF Shape
<1> HIDE DEF k
<1>10. ASSUME harm' = {}, NEW d \in Followed(page), NEW j
       PROVE  \/ \E e \in DOMAIN calls' : Brings(page, e, d, j, server[d])
              \/ /\ Agree(k[d], server[d], j)
                 /\ \A e \in DOMAIN calls' : ~Lags(page, e, d, j, server[d])
  <2>1. harm = {} /\ ~Overtakes(c) /\ d # NoDoc
    BY <1>2, <1>3, <1>10, FollowedDocs
  <2>2. ASSUME NEW e \in DOMAIN calls', e \notin Others(c), Lags(page, e, d, j, server[d])
        PROVE  /\ row.keeps = "nothing" /\ d \in DOMAIN c.ans
               /\ ~Agree(c.ans[d], server[d], j)
    <3>1. CASE \E base : \E op \in Range(P.shown) : Fresh(page, e, op, NoItem, FALSE, base)
      <4>1. PICK base, op : op \in Range(P.shown) /\ Fresh(page, e, op, NoItem, FALSE, base)
        BY <3>1
      <4>2. ThunksOf[page][op].sends = "hold"
        <5> DEFINE no == FALSE
        <5>1. Fresh(page, e, op, NoItem, no, base)
          BY <4>1
        <5> HIDE DEF no
        <5> QED
          BY <2>2, <5>1, FreshLags
      <4> QED
        BY <1>7, <4>1, <4>2
    <3>2. CASE \E n \in Range(row.next) : Fresh(page, e, n, c.item, c.v, c.ans)
      <4>1. PICK n \in Range(row.next) : Fresh(page, e, n, c.item, c.v, c.ans)
        BY <3>2
      <4>2. /\ ThunksOf[page][n].sends = "hold" /\ ThunksOf[page][n].doc = d
            /\ ~Agree(c.ans[d], server[d], j)
        BY <2>2, <4>1, FreshLags
      <4>3. row.keeps = "nothing" /\ d \in DocsOf(row)
        BY <1>4, <4>2 DEF Follows, T
      <4>4. d \in DOMAIN c.ans
        BY <1>2, <4>3 DEF WellFormed, T
      <4> QED
        BY <4>2, <4>3, <4>4
    <3> QED
      BY <1>5, <2>2, <3>1, <3>2
  <2>3. CASE \E e \in Others(c) : Brings(page, e, d, j, server[d])
    BY <1>5, <2>3
  <2>4. CASE Brings(page, c, d, j, server[d])
    <3>1. CASE \E n \in Range(row.next) :
                  \/ Reloads(page, n, d)
                  \/ Holds(page, n, d) /\ Agree(c.ans[d], server[d], j)
      <4>1. PICK n \in Range(row.next) :
                  \/ Reloads(page, n, d)
                  \/ Holds(page, n, d) /\ Agree(c.ans[d], server[d], j)
        BY <3>1
      <4>2. PICK e \in DOMAIN calls' : Fresh(page, e, n, c.item, c.v, c.ans)
        BY <1>5
      <4>3. Brings(page, e, d, j, server[d])
        BY <4>1, <4>2, FreshBrings
      <4> QED
        BY <4>3
    <3>2. CASE /\ Agree(k[d], server[d], j) /\ row.keeps # "nothing"
               /\ d \in DOMAIN c.ans \/ d = row.doc
      <4>1. \A e \in Others(c) : ~Carries(e, d, k[d])
        BY <2>1, <3>2 DEF Overtakes, Others, BagToSet, k
      <4>2. \A e \in Others(c) : ~Lags(page, e, d, j, server[d])
        BY <3>2, <4>1, LagsCarries
      <4> QED
        BY <2>2, <3>2, <4>2
    <3> QED
      BY <1>2, <2>1, <2>4, <3>1, <3>2, KeptBrings DEF k
  <2>5. CASE /\ Agree(store[d], server[d], j)
             /\ \A e \in DOMAIN calls : ~Lags(page, e, d, j, server[d])
    <3>1. Agree(k[d], server[d], j)
      BY <1>2, <2>1, <2>5, KeptAgrees DEF k
    <3>2. d \in DOMAIN c.ans => Agree(c.ans[d], server[d], j)
      BY <1>2, <2>5 DEF Lags
    <3> QED
      BY <1>6, <2>2, <2>5, <3>1, <3>2
  <2> QED
    BY <1>2, <1>6, <2>1, <2>3, <2>4, <2>5 DEF UpToDate
<1>11. UpToDate'
  BY <1>3, <1>5, <1>10 DEF UpToDate
<1>12. Flips'
  <2> SUFFICES ASSUME harm' = {}, NEW e \in DOMAIN calls',
                      T(e.op).keeps = "flip", T(e.op).doc \in Followed(page), e.phase # "err"
               PROVE  e.v <=> e.item \notin k[T(e.op).doc]
    BY <1>3, <1>5 DEF Flips, T
  <2> DEFINE d == T(e.op).doc
  <2>1. harm = {} /\ ~Overtakes(c) /\ d # NoDoc
    BY <1>2, <1>3, FollowedDocs
  <2>2. e \in Others(c)
    <3>1. \A n \in Range(row.next) : ThunksOf[page][n].keeps # "flip"
      BY <1>4 DEF Follows, T
    <3> QED
      BY <1>5, <1>7, <3>1 DEF Fresh, T
  <2>3. d \notin DOMAIN c.ans /\ d # row.doc
    BY <2>1, <2>2 DEF Overtakes, Others, BagToSet, Carries
  <2>4. k[d] = store[d]
    BY <1>2, <2>1, <2>3, KeptDoc DEF k
  <2> QED
    BY <1>2, <1>6, <2>1, <2>2, <2>4 DEF Flips
<1> QED
  BY <1>1, <1>9, <1>11, <1>12 DEF FollowInv

\* The success handler returns early, which is an excuse, or a catch block
\* runs: the store stays as it is.
LEMMA FollowFail ==
    ASSUME Bracketed, Refreshing, FollowInv, NEW c \in DOMAIN calls,
           SettleEarly(c) \/ Fail(c)
    PROVE  FollowInv'
<1> DEFINE row == T(c.op)
           next == IF Fail(c) /\ row.anyway THEN row.next ELSE <<>>
<1>1. SpinInv'
  BY SpinSettle DEF FollowInv
<1>2. page \in Shown /\ IsABag(calls) /\ Shape /\ UpToDate /\ Flips
  BY DEF FollowInv, SpinInv, CallsInv
<1>3. /\ server' = server /\ page' = page
      /\ harm' = {} => harm = {} /\ c.phase = "err" /\ Fail(c)
  BY DEF SettleEarly, Fail
<1>4. PICK lowered : Return(c, store, lowered, next)
  BY DEF SettleEarly, Fail
<1>5. next # <<>> => row.anyway
  OBVIOUS
<1> HIDE DEF next
<1>6. /\ store' = store
      /\ Others(c) \subseteq DOMAIN calls'
      /\ \A e \in DOMAIN calls' :
            \/ e \in Others(c)
            \/ row.anyway /\ \E n \in Range(row.next) : Fresh(page, e, n, c.item, c.v, c.ans)
            \/ \E base : \E op \in Range(P.shown) : Fresh(page, e, op, NoItem, FALSE, base)
  BY <1>2, <1>4, <1>5, ReturnCalls
<1>7. Others(c) \subseteq DOMAIN calls /\ DOMAIN calls \subseteq Others(c) \cup {c}
  BY <1>2, OthersStay
<1>8. \A op \in Range(P.shown) :
         ThunksOf[page][op].sends # "hold" /\ ThunksOf[page][op].keeps # "flip"
  BY <1>2 DEF Refreshing, SelfStarted, P
<1>9. Follows(page, c.op)
  BY CallFollows DEF FollowInv
<1>10. Shape'
  <2>1. \A e \in DOMAIN calls' : WellFormed(page, e)
    BY <1>2, <1>6, <1>7, FreshWell DEF Shape
  <2> QED
    BY <1>2, <1>3, <1>6, <2>1 DEF Shape
<1>11. ASSUME NEW e \in DOMAIN calls', e \notin Others(c), NEW d \in Followed(page), NEW j
       PROVE  ~Lags(page, e, d, j, server[d])
  <2> SUFFICES ASSUME Lags(page, e, d, j, server[d])
               PROVE  FALSE
    OBVIOUS
  <2>1. CASE \E base : \E op \in Range(P.shown) : Fresh(page, e, op, NoItem, FALSE, base)
    <3> DEFINE no == FALSE
    <3>1. PICK base, op : op \in Range(P.shown) /\ Fresh(page, e, op, NoItem, no, base)
      BY <2>1
    <3>2. ThunksOf[page][op].sends = "hold"
      <4> HIDE DEF no
      <4> QED
        BY <3>1, FreshLags
    <3> QED
      BY <1>8, <3>1, <3>2
  <2>2. CASE row.anyway /\ \E n \in Range(row.next) : Fresh(page, e, n, c.item, c.v, c.ans)
    <3>1. PICK n \in Range(row.next) : Fresh(page, e, n, c.item, c.v, c.ans)
      BY <2>2
    <3>2. ThunksOf[page][n].sends = "hold" /\ ThunksOf[page][n].doc = d
      BY <3>1, FreshLags
    <3> QED
      BY <1>9, <2>2, <3>2 DEF Follows, T
  <2> QED
    BY <1>6, <1>11, <2>1, <2>2
<1>12. ASSUME harm' = {}, NEW d \in Followed(page), NEW j
       PROVE  \/ \E e \in DOMAIN calls' : Brings(page, e, d, j, server[d])
              \/ /\ Agree(store[d], server[d], j)
                 /\ \A e \in DOMAIN calls' : ~Lags(page, e, d, j, server[d])
  <2>1. ~Brings(page, c, d, j, server[d])
    BY <1>3, <1>12 DEF Brings
  <2> QED
    BY <1>2, <1>3, <1>6, <1>7, <1>11, <1>12, <2>1 DEF UpToDate
<1>13. UpToDate'
  BY <1>3, <1>6, <1>12 DEF UpToDate
<1>14. Flips'
  <2> SUFFICES ASSUME harm = {}, NEW e \in DOMAIN calls',
                      T(e.op).keeps = "flip", T(e.op).doc \in Followed(page), e.phase # "err"
               PROVE  e.v <=> e.item \notin store[T(e.op).doc]
    BY <1>3, <1>6 DEF Flips, T
  <2>1. \A n \in Range(row.next) : ThunksOf[page][n].keeps # "flip"
    BY <1>9 DEF Follows, T
  <2>2. e \in Others(c)
    BY <1>6, <1>8, <2>1 DEF Fresh, T
  <2> QED
    BY <1>2, <1>7, <2>2 DEF Flips
<1> QED
  BY <1>1, <1>10, <1>13, <1>14 DEF FollowInv

\* A control is operated: nothing that the page shows changes, and a switch
\* that will be turned over shows what the click was about.
LEMMA FollowClick ==
    ASSUME Bracketed, Refreshing, FollowInv, NEW ctl \in P.ctl, NEW item, Click(ctl, item)
    PROVE  FollowInv'
<1> DEFINE row == T(ctl.op)
           st == IF row.early THEN [store EXCEPT ![row.doc] = @ \ {item}] ELSE store
           w == Wish(row, item)
           nil == <<>>
           R(op) == Request(op, item, w, nil, IF op = ctl.op THEN ctl.holds ELSE {}, st)
           ops == {ctl.op} \cup Range(ctl.also)
           rs == {R(op) : op \in ops}
<1>1. SpinInv'
  BY SpinClick DEF FollowInv
<1>2. page \in Shown /\ IsABag(calls) /\ Shape /\ UpToDate /\ Flips
  BY DEF FollowInv, SpinInv, CallsInv
<1>3. /\ page' = page /\ server' = server /\ harm' = harm
      /\ store' = st
      /\ calls' = calls (+) SetToBag(rs)
  BY DEF Click
<1>4. ctl.op \in Ops[page]
  BY <1>2, OwnOps DEF P
<1>5. DOMAIN st = DOMAIN store /\ \A d \in Followed(page) : st[d] = store[d]
  <2>1. Follows(page, ctl.op)
    BY <1>2, <1>4 DEF Refreshing
  <2>2. \A d \in Followed(page) : d \in DOMAIN store
    BY <1>2, FollowedDocs DEF Shape
  <2> QED
    BY <2>1, <2>2 DEF Follows, T
<1>6. \A op : Fresh(page, R(op), op, item, w, nil)
  <2> TAKE op
  <2> DEFINE o == IF op = ctl.op THEN ctl.holds ELSE {}
  <2>1. R(op) = Request(op, item, w, nil, o, st)
    OBVIOUS
  <2> HIDE DEF R, o, w, st, nil
  <2> QED
    BY <2>1, RequestFresh
<1> HIDE DEF R, st, nil
<1>7. DOMAIN calls' = DOMAIN calls \cup rs
  <2> DEFINE b == SetToBag(rs)
  <2>1. IsABag(b) /\ DOMAIN b = rs
    <3> HIDE DEF rs
    <3> QED
      BY SetBag
  <2>2. calls' = calls (+) b
    BY <1>3
  <2> HIDE DEF rs, b
  <2> QED
    BY <1>2, <2>1, <2>2, MoreCalls
<1>8. /\ \A op \in ops : ThunksOf[page][op].sends # "hold"
      /\ \A op \in ops : ThunksOf[page][op].keeps = "flip" => op = ctl.op
      /\ row.keeps = "flip" => row.to = "flip" /\ row.doc # NoDoc
  BY <1>2 DEF Refreshing, SelfStarted, P, T
<1>9. row.keeps = "flip" => (w <=> item \notin store[row.doc])
  BY <1>8 DEF Wish
<1> HIDE DEF w, ops
<1>10. \A e \in rs : \E op \in ops : Fresh(page, e, op, item, w, nil)
  BY <1>6
<1> HIDE DEF rs
<1>11. Shape'
  <2>1. \A e \in DOMAIN calls' : WellFormed(page, e)
    BY <1>2, <1>7, <1>10, FreshWell DEF Shape
  <2> QED
    BY <1>2, <1>3, <1>5, <2>1 DEF Shape
<1>12. \A e \in rs : \A d, j : ~Lags(page, e, d, j, server[d])
  BY <1>8, <1>10, FreshLags
<1>13. UpToDate'
  <2>1. ASSUME harm = {}, NEW d \in Followed(page), NEW j
        PROVE  \/ \E e \in DOMAIN calls' : Brings(page, e, d, j, server[d])
               \/ /\ Agree(st[d], server[d], j)
                  /\ \A e \in DOMAIN calls' : ~Lags(page, e, d, j, server[d])
    BY <1>2, <1>5, <1>7, <1>12, <2>1 DEF UpToDate
  <2> QED
    BY <1>3, <2>1 DEF UpToDate
<1>14. Flips'
  <2> SUFFICES ASSUME harm = {}, NEW e \in DOMAIN calls',
                      T(e.op).keeps = "flip", T(e.op).doc \in Followed(page), e.phase # "err"
               PROVE  e.v <=> e.item \notin st[T(e.op).doc]
    BY <1>3 DEF Flips, T
  <2>1. st[T(e.op).doc] = store[T(e.op).doc]
    BY <1>5
  <2>2. CASE e \in DOMAIN calls
    BY <1>2, <2>1, <2>2 DEF Flips
  <2>3. CASE e \in rs
    <3>1. PICK op \in ops : Fresh(page, e, op, item, w, nil)
      BY <1>10, <2>3
    <3>2. e.op = op /\ e.item = item /\ e.v = w
      BY <3>1 DEF Fresh
    <3>3. op = ctl.op
      BY <1>8, <3>2 DEF T
    <3> QED
      BY <1>9, <2>1, <3>2, <3>3
  <2> QED
    BY <1>7, <2>2, <2>3
<1> QED
  BY <1>1, <1>11, <1>13, <1>14 DEF FollowInv

\* The page is mounted: it shows what the server has, or is about to load it.
LEMMA FollowInit ==
    ASSUME Bracketed, Refreshing, PageInit
    PROVE  FollowInv
<1>1. SpinInv
  BY SpinInit
<1>2. /\ page \in Shown /\ harm = {}
      /\ server = [d \in AllDocs[page] |-> {"x"}]
      /\ P.mount = <<>> => store = server
      /\ P.mount # <<>> => store = [d \in AllDocs[page] |-> {}]
      /\ calls = Requests(P.mount, store)
  BY DEF PageInit, Docs
<1> DEFINE nil == <<>>
           no == FALSE
           none == {}
           R(op) == Request(op, NoItem, no, nil, none, store)
           rs == {R(op) : op \in Range(P.mount)}
<1>3. DOMAIN calls = rs
  <2>1. calls = SetToBag(rs)
    BY <1>2 DEF Requests
  <2> HIDE DEF rs
  <2> QED
    BY <2>1, SetBag
<1> HIDE DEF nil, no, none
<1>4. \A op : Fresh(page, R(op), op, NoItem, no, nil)
  BY RequestFresh
<1> HIDE DEF R
<1>5. \A op \in Range(P.mount) :
         ThunksOf[page][op].sends # "hold" /\ ThunksOf[page][op].keeps # "flip"
  BY <1>2 DEF Refreshing, SelfStarted, P
<1>6. Shape
  <2>1. DOMAIN store = AllDocs[page] /\ DOMAIN server = AllDocs[page]
    BY <1>2
  <2>2. \A c \in DOMAIN calls : WellFormed(page, c)
    BY <1>3, <1>4, FreshWell
  <2> QED
    BY <2>1, <2>2 DEF Shape
<1>7. UpToDate
  <2> SUFFICES ASSUME NEW d \in Followed(page), NEW j
               PROVE  \/ \E c \in DOMAIN calls : Brings(page, c, d, j, server[d])
                      \/ /\ Agree(store[d], server[d], j)
                         /\ \A c \in DOMAIN calls : ~Lags(page, c, d, j, server[d])
    BY DEF UpToDate
  <2>1. CASE P.mount = <<>>
    <3>1. Agree(store[d], server[d], j)
      BY <1>2, <2>1 DEF Agree
    <3>2. DOMAIN calls = {}
      BY <1>3, <2>1 DEF Range
    <3> QED
      BY <3>1, <3>2
  <2>2. CASE P.mount # <<>>
    <3>1. PICK op \in Range(P.mount) : Reloads(page, op, d)
      BY <1>2, <2>2 DEF Refreshing, P
    <3>2. Brings(page, R(op), d, j, server[d])
      BY <1>4, <3>1, FreshBrings
    <3> QED
      BY <1>3, <3>2
  <2> QED
    BY <2>1, <2>2
<1>8. Flips
  BY <1>3, <1>4, <1>5 DEF Flips, Fresh, T
<1> QED
  BY <1>1, <1>6, <1>7, <1>8 DEF FollowInv

\* The page shows what the server has once no request is in flight (Converged),
\* for all pages and thunks that keep the disciplines Bracketed and Refreshing,
\* however often the user clicks and in whatever order requests are handled and
\* answers arrive, unless a load was refused, an answer was lost, an edit was
\* undone or two answers overtook each other: until then whatever the store has
\* of an item is what the server has, or a request is in flight that brings it.
THEOREM ConvergedTheorem == Bracketed /\ Refreshing => (PageSpec => []Converged)
<1> SUFFICES ASSUME Bracketed, Refreshing
             PROVE  PageSpec => []Converged
  OBVIOUS
<1>1. PageInit => FollowInv
  BY FollowInit
<1>2. FollowInv /\ [PageNext]_pageVars => FollowInv'
  <2> SUFFICES ASSUME FollowInv, [PageNext]_pageVars
               PROVE  FollowInv'
    OBVIOUS
  <2>1. CASE \E c \in P.ctl, item \in Items : Click(c, item)
    BY <2>1, FollowClick
  <2>2. CASE \E c \in BagToSet(calls) : Serve(c)
    BY <2>2, FollowServe DEF BagToSet
  <2>3. CASE \E c \in BagToSet(calls) : Refuse(c) \/ Lose(c)
    BY <2>3, FollowRefuse DEF BagToSet
  <2>4. CASE \E c \in BagToSet(calls) : Settle(c)
    BY <2>4, FollowSettle DEF BagToSet
  <2>5. CASE \E c \in BagToSet(calls) : SettleEarly(c) \/ Fail(c)
    BY <2>5, FollowFail DEF BagToSet
  <2>6. CASE UNCHANGED pageVars
    <3>1. SpinInv'
      BY <2>6 DEF FollowInv, pageVars, SpinInv, CallsInv, Awaited, AnswersFor, HandsOn, Lowers
    <3>2. (Shape /\ UpToDate /\ Flips)'
      BY <2>6 DEF FollowInv, pageVars, Shape, UpToDate, Flips, T
    <3> QED
      BY <3>1, <3>2 DEF FollowInv
  <2> QED
    BY <2>1, <2>2, <2>3, <2>4, <2>5, <2>6 DEF PageNext
<1>3. FollowInv => Converged
  <2> SUFFICES ASSUME FollowInv, calls = EmptyBag, harm = {}, NEW d \in P.docs \ Drafts
               PROVE  store[d] = server[d]
    BY DEF Converged
  <2>1. DOMAIN calls = {}
    BY SetBag DEF EmptyBag
  <2>2. d \in Followed(page)
    BY DEF Followed, P
  <2>3. \A j : j \in store[d] <=> j \in server[d]
    BY <2>1, <2>2 DEF FollowInv, UpToDate, Agree
  <2> QED
    BY <2>3
<1> QED
  BY <1>1, <1>2, <1>3, PTL DEF PageSpec
-----------------------------------------------------------------------------
(* EditsSurvive.                                                           *)

\* How often calls are in flight once c has given way to the calls in cs.
LEMMA BecomesCount ==
    ASSUME IsABag(calls), NEW c, NEW cs
    PROVE  LET b == Becomes(c, cs)
           IN  /\ \A e \in DOMAIN calls \ (cs \cup {c}) : b[e] = calls[e]
               /\ \A e \in cs : e \notin Others(c) => b[e] = 1
               /\ c \in DOMAIN calls /\ calls[c] = 1 => c \notin Others(c)
<1> DEFINE s == SetToBag({c})
           m == calls (-) s
           t == SetToBag(cs)
           b == m (+) t
           n == SetToBag({})
<1>1. DOMAIN s = {c} /\ s[c] = 1
  BY DEF SetToBag
<1>2. \A e \in DOMAIN calls : calls[e] \in Nat /\ calls[e] > 0
  BY DEF IsABag
<1>3. /\ DOMAIN m \subseteq DOMAIN calls
      /\ \A e \in DOMAIN calls \ {c} : e \in DOMAIN m /\ m[e] = calls[e]
      /\ c \in DOMAIN calls /\ calls[c] = 1 => c \notin DOMAIN m
  <2> HIDE DEF s
  <2> QED
    BY <1>1, <1>2 DEF (-)
<1>4. DOMAIN t = cs /\ \A e \in cs : t[e] = 1
  BY DEF SetToBag
<1>5. DOMAIN n = {}
  BY SetBag
<1>6. Others(c) = DOMAIN m
  <2>1. Others(c) = DOMAIN (m (+) n)
    BY DEF Others, Becomes
  <2> HIDE DEF m, n
  <2> QED
    BY <1>5, <2>1 DEF (+)
<1> HIDE DEF m, t
<1>7. /\ \A e \in DOMAIN m \ cs : b[e] = m[e] + 0
      /\ \A e \in cs \ DOMAIN m : b[e] = 0 + t[e]
  BY <1>4 DEF (+)
<1>8. b = Becomes(c, cs)
  BY DEF Becomes, m, s, t
<1> HIDE DEF b
<1>9. \A e \in DOMAIN calls \ (cs \cup {c}) : b[e] = calls[e]
  BY <1>2, <1>3, <1>7
<1>10. \A e \in cs : e \notin Others(c) => b[e] = 1
  BY <1>4, <1>6, <1>7
<1> QED
  BY <1>3, <1>6, <1>8, <1>9, <1>10

\* Adding calls to a bag does not change how often it has others.
LEMMA MoreCount ==
    ASSUME NEW a, NEW b, IsABag(a), NEW e \in DOMAIN a \ DOMAIN b
    PROVE  (a (+) b)[e] = a[e]
<1>1. a[e] \in Nat
  BY DEF IsABag
<1>2. (a (+) b)[e] = a[e] + 0
  BY DEF (+)
<1> QED
  BY <1>1, <1>2

\* The thunk n as the handlers of c start it, and a thunk that the page starts.
StartedBy(c, n, st) ==
    Request(n, c.item, c.v, c.ans,
            IF n = Last(T(c.op).next) THEN c.owes \cup T(c.op).owes ELSE {}, st)

StartedAlone(op, st) == Request(op, NoItem, FALSE, <<>>, {}, st)

\* The bag of calls after a handler has returned: cs are the calls that it has
\* started, ms those that the page has.
Returned(c, st, next, cs, ms) ==
    /\ DOMAIN calls' = Others(c) \cup cs \cup ms
    /\ \A e \in Others(c) \ (cs \cup ms \cup {c}) : calls'[e] = calls[e]
    /\ \A e \in cs \ (Others(c) \cup ms) : calls'[e] = 1
    /\ \A e \in cs : next # <<>> /\ \E n \in Range(T(c.op).next) : e = StartedBy(c, n, st)
    /\ next # <<>> => \A n \in Range(T(c.op).next) : StartedBy(c, n, st) \in cs
    /\ \A e \in ms : \E op \in Range(P.shown) : e = StartedAlone(op, st)

\* Every handler that returns leaves such a bag.
LEMMA ReturnBag ==
    ASSUME IsABag(calls), NEW c, NEW st, NEW lowered, NEW next, Return(c, st, lowered, next)
    PROVE  \E cs, ms : Returned(c, st, next, cs, ms)
<1> DEFINE flags == ((busy \ lowered) \ (IF next = <<>> THEN c.owes ELSE {}))
                       \cup SetBy(next)
           appear == ~ready /\ Visible(flags)
           cs == IF next = <<>> THEN {} ELSE Started(c, st)
           ms == IF appear THEN {StartedAlone(op, st) : op \in Range(P.shown)} ELSE {}
           more == IF appear THEN Requests(P.shown, st) ELSE EmptyBag
           b == Becomes(c, cs)
<1>1. calls' = b (+) more
  BY DEF Return
<1> HIDE DEF flags, appear
<1>2. more = SetToBag(ms)
  <2>1. CASE appear
    BY <2>1 DEF Requests, StartedAlone
  <2>2. CASE ~appear
    BY <2>2 DEF EmptyBag
  <2> QED
    BY <2>1, <2>2
<1>3. \A e \in ms : \E op \in Range(P.shown) : e = StartedAlone(op, st)
  OBVIOUS
<1>4. /\ \A e \in cs : next # <<>> /\ \E n \in Range(T(c.op).next) : e = StartedBy(c, n, st)
      /\ next # <<>> => \A n \in Range(T(c.op).next) : StartedBy(c, n, st) \in cs
  BY DEF Started, StartedBy
<1> HIDE DEF cs, ms, more
<1>5. IsABag(more) /\ DOMAIN more = ms
  BY <1>2, SetBag
<1>6. /\ IsABag(b) /\ DOMAIN b = Others(c) \cup cs
      /\ Others(c) \subseteq DOMAIN calls
  BY OthersStay, BecomesCalls
<1>7. /\ \A e \in DOMAIN calls \ (cs \cup {c}) : b[e] = calls[e]
      /\ \A e \in cs : e \notin Others(c) => b[e] = 1
  BY BecomesCount
<1> HIDE DEF b
<1>8. DOMAIN calls' = Others(c) \cup cs \cup ms
  BY <1>1, <1>5, <1>6, MoreCalls
<1>9. \A e \in DOMAIN b \ ms : calls'[e] = b[e]
  BY <1>1, <1>5, <1>6, MoreCount
<1>10. /\ \A e \in Others(c) \ (cs \cup ms \cup {c}) : calls'[e] = calls[e]
       /\ \A e \in cs \ (Others(c) \cup ms) : calls'[e] = 1
  BY <1>6, <1>7, <1>9
<1>11. Returned(c, st, next, cs, ms)
  BY <1>3, <1>4, <1>8, <1>10 DEF Returned
<1> QED
  BY <1>11

\* The call c answers for the lock f.
Bears(p, c, f) == f \in c.owes \cup ThunksOf[p][c.op].fail

\* A lock that a call answers for is up, and no other call answers for it.
LockInv(f) ==
    \A c \in DOMAIN calls : Bears(page, c, f) =>
       /\ f \in busy /\ calls[c] = 1
       /\ f \in c.owes => \E ctl \in P.ctl : f \in ctl.holds
       /\ \A e \in DOMAIN calls : Bears(page, e, f) => e = c

\* The call c gives way to the calls in cs, which may take its lock over, and
\* the page starts those in ms.
LEMMA LockStep ==
    ASSUME NEW f, page' = page, IsABag(calls), LockInv(f), NEW c \in DOMAIN calls,
           NEW cs, NEW ms,
           DOMAIN calls' = Others(c) \cup cs \cup ms,
           \A e \in Others(c) \ (cs \cup ms \cup {c}) : calls'[e] = calls[e],
           \A e \in cs \ (Others(c) \cup ms) : calls'[e] = 1,
           \A e \in ms : ~Bears(page, e, f),
           \A e \in cs : Bears(page, e, f) =>
              Bears(page, c, f) /\ f \in busy' /\ (f \in e.owes => f \in c.owes),
           \A d, e \in cs : Bears(page, d, f) /\ Bears(page, e, f) => d = e,
           ~Bears(page, c, f) /\ f \in busy => f \in busy'
    PROVE  LockInv(f)'
<1>1. /\ Others(c) \subseteq DOMAIN calls
      /\ DOMAIN calls \subseteq Others(c) \cup {c}
      /\ calls[c] = 1 => c \notin Others(c)
  BY OthersStay, BecomesCount
<1>2. P' = P
  BY DEF P
<1>3. CASE Bears(page, c, f)
  <2>1. \A e \in Others(c) : ~Bears(page, e, f)
    BY <1>1, <1>3 DEF LockInv
  <2>2. \A e \in DOMAIN calls' : Bears(page, e, f) => e \in cs
    BY <2>1
  <2>3. f \in c.owes => \E ctl \in P.ctl : f \in ctl.holds
    BY <1>3 DEF LockInv
  <2>4. \A e \in DOMAIN calls' : Bears(page, e, f) => calls'[e] = 1
    BY <2>1, <2>2
  <2> QED
    BY <1>2, <2>2, <2>3, <2>4 DEF LockInv
<1>4. CASE ~Bears(page, c, f)
  <2>1. \A e \in DOMAIN calls' : Bears(page, e, f) => e \in Others(c) /\ e \notin cs \cup ms \cup {c}
    BY <1>4
  <2>2. \A e \in DOMAIN calls' : Bears(page, e, f) => e \in DOMAIN calls /\ calls'[e] = calls[e]
    BY <1>1, <2>1
  <2>3. \A e \in DOMAIN calls : Bears(page, e, f) => f \in busy'
    BY <1>4 DEF LockInv
  <2> QED
    BY <1>2, <2>2, <2>3 DEF LockInv
<1> QED
  BY <1>3, <1>4

\* What the request of a thunk carries.
LEMMA RequestBody ==
    ASSUME NEW op, NEW item, NEW v, NEW base, NEW owes, NEW st
    PROVE  LET r == Request(op, item, v, base, owes, st)
           IN  /\ r.item = item
               /\ T(op).sends = "put" => r.body = WithItem(st[T(op).doc], item, v)
               /\ T(op).sends = "putAnswer" => r.body = WithItem(base[T(op).doc], item, v)
<1> DEFINE row == T(op)
           body == CASE row.sends \in {"put", "draft"} ->
                          WithItem(st[row.doc], item, v)
                     [] row.sends = "putAnswer" -> WithItem(base[row.doc], item, v)
                     [] row.sends = "hold" -> base[row.doc]
                     [] OTHER -> {}
           parts == row.parts
           e == <<>>
           r == Request(op, item, v, base, owes, st)
<1>1. r = [op |-> op, item |-> item, v |-> v, body |-> body, left |-> parts,
           ans |-> e, phase |-> "sent", owes |-> owes]
  BY DEF Request
<1>2. /\ row.sends = "put" => body = WithItem(st[row.doc], item, v)
      /\ row.sends = "putAnswer" => body = WithItem(base[row.doc], item, v)
  OBVIOUS
<1> HIDE DEF body, parts, e, r
<1>3. r.item = item /\ r.body = body
  BY <1>1
<1> QED
  BY <1>2, <1>3 DEF r

\* A thunk that the page starts alone.
LEMMA AloneFields ==
    ASSUME NEW op, NEW st
    PROVE  LET e == StartedAlone(op, st)
           IN  e.op = op /\ e.owes = {} /\ DOMAIN e.ans = {} /\ e.phase = "sent"
<1> DEFINE nil == <<>>
           no == FALSE
           none == {}
           e == StartedAlone(op, st)
<1>1. e = Request(op, NoItem, no, nil, none, st)
  BY DEF StartedAlone
<1> HIDE DEF nil, no, none, e
<1>2. e.op = op /\ e.owes = none
  BY <1>1, RequestFields
<1>3. DOMAIN e.ans = {} /\ e.phase = "sent"
  BY <1>1, RequestFresh DEF Fresh
<1> QED
  BY <1>2, <1>3 DEF none, e

\* A thunk that a handler starts.
LEMMA StartedFields ==
    ASSUME NEW c, NEW n, NEW st
    PROVE  LET e == StartedBy(c, n, st)
           IN  /\ e.op = n /\ e.item = c.item
               /\ DOMAIN e.ans = {} /\ e.phase = "sent"
               /\ e.owes \subseteq c.owes \cup T(c.op).owes
               /\ e.owes = {} \/ n = Last(T(c.op).next)
               /\ n = Last(T(c.op).next) => e.owes = c.owes \cup T(c.op).owes
               /\ T(n).sends = "putAnswer" => e.body = WithItem(c.ans[T(n).doc], c.item, c.v)
<1> DEFINE owed == c.owes \cup T(c.op).owes
           o == IF n = Last(T(c.op).next) THEN owed ELSE {}
           e == StartedBy(c, n, st)
<1>1. e = Request(n, c.item, c.v, c.ans, o, st)
  BY DEF StartedBy
<1>2. /\ o \subseteq owed /\ (o = {} \/ n = Last(T(c.op).next))
      /\ n = Last(T(c.op).next) => o = owed
  OBVIOUS
<1> HIDE DEF o, owed, e
<1>3. e.op = n /\ e.owes = o
  BY <1>1, RequestFields
<1>4. DOMAIN e.ans = {} /\ e.phase = "sent"
  BY <1>1, RequestFresh DEF Fresh
<1>5. /\ e.item = c.item
      /\ T(n).sends = "putAnswer" => e.body = WithItem(c.ans[T(n).doc], c.item, c.v)
  BY <1>1, RequestBody
<1> QED
  BY <1>2, <1>3, <1>4, <1>5 DEF owed, e

\* The answers that a call has are the server's version val.
Answered(c, d, val) == c.phase # "err" /\ d \in DOMAIN c.ans => c.ans[d] = val

\* What a call sends of d whole differs from the server's version in the item it
\* is about, and in nothing once it was handled.
Bodied(p, c, d, val) ==
    Writes(p, c.op, d) => /\ c.phase = "sent" => c.body \ {c.item} = val \ {c.item}
                          /\ c.phase = "ok" => c.body = val

\* The call c, which answers for the lock of d, is to bring it into the store.
Restores(p, c, d, f, val) ==
    /\ Bears(p, c, f) /\ c.phase # "err"
    /\ \/ c.phase = "ok" /\ Writes(p, c.op, d)
       \/ Fetches(p, c.op, d) /\ (d \in DOMAIN c.ans => c.ans[d] = val)

\* A document d that is locked by f, and loaded by the thunk o behind g.
Locked(p, d, f, o, g) ==
    /\ p \in Shown /\ d \in Followed(p)
    /\ Locks(p, f) /\ Guards(p, d, f) /\ Opens(p, d, o, g)

\* Writers of d answer for its lock, and nobody owes the flag of its loader.
Bound(d, f, g) ==
    \A c \in DOMAIN calls :
       g \notin c.owes /\ (Writes(page, c.op, d) => Bears(page, c, f))

\* The store has the server's version of d,
Current(d) ==
    store[d] = server[d] /\ \A c \in DOMAIN calls : Answered(c, d, server[d])

\* or the holder of the lock will bring it,
Pending(d, f) == \E c \in DOMAIN calls : Restores(page, c, d, f, server[d])

\* or the page cannot be seen until its loader has.
Opening(d, f, o, g) ==
    /\ ~ready /\ g \in busy
    /\ \E c \in DOMAIN calls : c.op = o
    /\ \A c \in DOMAIN calls : /\ ~Bears(page, c, f) /\ Answered(c, d, server[d])
                               /\ c.op = o => c.phase # "err"

DocInv(d, f, o, g) ==
    /\ LockInv(f) /\ Bound(d, f, g)
    /\ harm = {} => /\ \A c \in DOMAIN calls : Bodied(page, c, d, server[d])
                    /\ Current(d) \/ Pending(d, f) \/ Opening(d, f, o, g)

\* The thunks and controls of a page in terms of a lock.
LEMMA LockedOps ==
    ASSUME NEW p, NEW d, NEW f, NEW o, NEW g, Locked(p, d, f, o, g)
    PROVE  /\ \A op \in SelfStarted(p) :
                 f \notin ThunksOf[p][op].fail /\ ~Writes(p, op, d)
           /\ \A op \in Ops[p] :
                 LET row == ThunksOf[p][op]
                 IN  /\ f \notin row.owes /\ g \notin row.owes
                     /\ f \in row.done => f \in row.fail
                     /\ (\E c \in AllPages[p].ctl : f \in c.holds) => f \notin row.fail
                     /\ op # o => g \notin row.done \cup row.fail
                     /\ Writes(p, op, d) => row.sends \in {"put", "putAnswer"}
                     /\ \A n \in Range(row.next) :
                           /\ f \in ThunksOf[p][n].fail =>
                                f \in row.fail /\ f \notin row.done /\ ~row.anyway
                           /\ Writes(p, n, d) =>
                                /\ ThunksOf[p][n].sends = "putAnswer"
                                /\ f \in ThunksOf[p][n].fail
                                /\ row.sends = "nothing" /\ d \in DocsOf(row)
                           /\ \A m \in Range(row.next) :
                                 f \in ThunksOf[p][n].fail /\ f \in ThunksOf[p][m].fail => m = n
<1>1. Locks(p, f) /\ Guards(p, d, f) /\ Opens(p, d, o, g)
  BY DEF Locked
<1>2. \A op \in SelfStarted(p) : f \notin ThunksOf[p][op].fail /\ ~Writes(p, op, d)
  BY <1>1 DEF Locks, Guards
<1>3. ASSUME NEW op \in Ops[p]
      PROVE  LET row == ThunksOf[p][op]
             IN  /\ f \notin row.owes
                 /\ f \in row.done => f \in row.fail
                 /\ (\E c \in AllPages[p].ctl : f \in c.holds) => f \notin row.fail
                 /\ \A n \in Range(row.next) :
                       /\ f \in ThunksOf[p][n].fail =>
                            f \in row.fail /\ f \notin row.done /\ ~row.anyway
                       /\ \A m \in Range(row.next) :
                             f \in ThunksOf[p][n].fail /\ f \in ThunksOf[p][m].fail => m = n
  <2> DEFINE row == ThunksOf[p][op]
             after == {n \in Range(row.next) : f \in ThunksOf[p][n].fail}
  <2>1. /\ f \notin row.owes
        /\ f \in row.done => f \in row.fail
        /\ (\E c \in AllPages[p].ctl : f \in c.holds) => f \notin row.fail
        /\ after # {} => f \in row.fail /\ f \notin row.done /\ ~row.anyway
        /\ \A m, n \in after : m = n
    BY <1>1 DEF Locks
  <2>2. \A n \in Range(row.next) : f \in ThunksOf[p][n].fail => n \in after
    OBVIOUS
  <2> HIDE DEF after
  <2> QED
    BY <2>1, <2>2
<1>4. \A op \in Ops[p] :
         LET row == ThunksOf[p][op]
         IN  /\ Writes(p, op, d) => row.sends \in {"put", "putAnswer"}
             /\ \A n \in Range(row.next) : Writes(p, n, d) =>
                   /\ ThunksOf[p][n].sends = "putAnswer"
                   /\ f \in ThunksOf[p][n].fail
                   /\ row.sends = "nothing" /\ d \in DocsOf(row)
  BY <1>1 DEF Guards
<1>5. \A op \in Ops[p] :
         LET row == ThunksOf[p][op]
         IN  g \notin row.owes /\ (op # o => g \notin row.done \cup row.fail)
  BY <1>1 DEF Opens
<1> QED
  BY <1>2, <1>3, <1>4, <1>5

\* A call that changes its phase or its answer keeps the lock.
LEMMA LockSame ==
    ASSUME NEW d, NEW f, NEW o, NEW g, Locked(page, d, f, o, g), IsABag(calls),
           LockInv(f), Bound(d, f, g), NEW c \in DOMAIN calls, NEW e,
           e.op = c.op /\ e.owes = c.owes, calls' = Becomes(c, {e}),
           page' = page, busy' = busy
    PROVE  /\ LockInv(f)' /\ Bound(d, f, g)'
           /\ DOMAIN calls' = Others(c) \cup {e}
           /\ Others(c) \subseteq DOMAIN calls
           /\ DOMAIN calls \subseteq Others(c) \cup {c}
           /\ Bears(page, c, f) => \A x \in Others(c) : ~Bears(page, x, f)
<1> DEFINE cs == {e}
           ms == {}
<1>1. /\ DOMAIN calls' = Others(c) \cup {e}
      /\ Others(c) \subseteq DOMAIN calls
      /\ DOMAIN calls \subseteq Others(c) \cup {c}
  BY OthersStay
<1>2. /\ \A x \in DOMAIN calls \ ({e} \cup {c}) : calls'[x] = calls[x]
      /\ e \notin Others(c) => calls'[e] = 1
      /\ calls[c] = 1 => c \notin Others(c)
  BY BecomesCount
<1>3. Bears(page, e, f) <=> Bears(page, c, f)
  BY DEF Bears
<1>4. LockInv(f)'
  <2>1. /\ DOMAIN calls' = Others(c) \cup cs \cup ms
        /\ \A x \in Others(c) \ (cs \cup ms \cup {c}) : calls'[x] = calls[x]
        /\ \A x \in cs \ (Others(c) \cup ms) : calls'[x] = 1
        /\ \A x \in ms : ~Bears(page, x, f)
        /\ \A x \in cs : Bears(page, x, f) =>
              Bears(page, c, f) /\ f \in busy' /\ (f \in x.owes => f \in c.owes)
        /\ \A x, y \in cs : Bears(page, x, f) /\ Bears(page, y, f) => x = y
    BY <1>1, <1>2, <1>3 DEF LockInv
  <2> HIDE DEF cs, ms
  <2> QED
    BY <2>1, LockStep
<1>5. Bound(d, f, g)'
  BY <1>1, <1>3 DEF Bound
<1>6. Bears(page, c, f) => \A x \in Others(c) : ~Bears(page, x, f)
  BY <1>1, <1>2 DEF LockInv
<1> QED
  BY <1>1, <1>4, <1>5, <1>6

\* A handler returns: the lock comes down, or goes to one call that it starts.
LEMMA LockReturn ==
    ASSUME NEW d, NEW f, NEW o, NEW g, Locked(page, d, f, o, g), CallsInv,
           LockInv(f), Bound(d, f, g), NEW c \in DOMAIN calls, page' = page,
           NEW st, NEW lowered, NEW next, Return(c, st, lowered, next),
           next = <<>> \/ next = T(c.op).next,
           f \in lowered => f \in T(c.op).fail,
           next # <<>> => \A n \in Range(T(c.op).next) : f \in T(n).fail => f \notin lowered,
           NEW cs, NEW ms, Returned(c, st, next, cs, ms)
    PROVE  /\ LockInv(f)' /\ Bound(d, f, g)'
           /\ Others(c) \subseteq DOMAIN calls
           /\ DOMAIN calls \subseteq Others(c) \cup {c}
           /\ Bears(page, c, f) => \A x \in Others(c) : ~Bears(page, x, f)
           /\ \A e \in cs : Bears(page, e, f) => Bears(page, c, f)
           /\ \A e \in ms : /\ ~Bears(page, e, f) /\ ~Writes(page, e.op, d)
                            /\ e.phase = "sent" /\ DOMAIN e.ans = {}
<1> DEFINE row == T(c.op)
           kept == (busy \ lowered) \ (IF next = <<>> THEN c.owes ELSE {})
<1>1. kept \subseteq busy'
  BY DEF Return
<1>2. page \in Shown /\ IsABag(calls) /\ c.op \in Ops[page] /\ row = ThunksOf[page][c.op]
  BY DEF CallsInv, T
<1>3. /\ Others(c) \subseteq DOMAIN calls
      /\ DOMAIN calls \subseteq Others(c) \cup {c}
      /\ calls[c] = 1 => c \notin Others(c)
  BY <1>2, OthersStay, BecomesCount
<1>4. /\ DOMAIN calls' = Others(c) \cup cs \cup ms
      /\ \A e \in Others(c) \ (cs \cup ms \cup {c}) : calls'[e] = calls[e]
      /\ \A e \in cs \ (Others(c) \cup ms) : calls'[e] = 1
      /\ \A e \in cs : next # <<>> /\ \E n \in Range(row.next) : e = StartedBy(c, n, st)
      /\ \A e \in ms : \E op \in Range(P.shown) : e = StartedAlone(op, st)
  BY DEF Returned
<1>5. /\ f \notin row.owes /\ g \notin row.owes
      /\ (\E ctl \in P.ctl : f \in ctl.holds) => f \notin row.fail
      /\ \A n \in Range(row.next) :
            /\ f \in T(n).fail => f \in row.fail
            /\ Writes(page, n, d) => f \in T(n).fail
            /\ \A m \in Range(row.next) : f \in T(n).fail /\ f \in T(m).fail => m = n
  BY <1>2, LockedOps DEF P, T
<1>6. \A e \in ms : /\ ~Bears(page, e, f) /\ ~Writes(page, e.op, d) /\ g \notin e.owes
                    /\ e.phase = "sent" /\ DOMAIN e.ans = {}
  <2> TAKE e \in ms
  <2>1. PICK op \in Range(P.shown) : e = StartedAlone(op, st)
    BY <1>4
  <2>2. op \in SelfStarted(page)
    BY DEF SelfStarted, P
  <2>3. e.op = op /\ e.owes = {} /\ e.phase = "sent" /\ DOMAIN e.ans = {}
    BY <2>1, AloneFields
  <2> QED
    BY <2>2, <2>3, LockedOps DEF Bears
<1>7. ASSUME NEW e \in cs
      PROVE  /\ Bears(page, e, f) =>
                   Bears(page, c, f) /\ f \in busy' /\ (f \in e.owes => f \in c.owes)
             /\ Writes(page, e.op, d) => Bears(page, e, f)
             /\ g \notin e.owes
  <2>1. PICK n \in Range(row.next) : e = StartedBy(c, n, st)
    BY <1>4
  <2>2. e.op = n /\ e.owes \subseteq c.owes \cup row.owes
    BY <2>1, StartedFields
  <2>3. f \in e.owes => f \in c.owes
    BY <1>5, <2>2
  <2>4. g \notin e.owes
    BY <1>5, <2>2 DEF Bound
  <2>5. Writes(page, e.op, d) => Bears(page, e, f)
    BY <1>5, <2>2 DEF Bears, T
  <2>6. ASSUME Bears(page, e, f)
        PROVE  Bears(page, c, f) /\ f \in busy'
    <3>1. f \in c.owes \/ (f \in T(n).fail /\ f \in row.fail)
      BY <1>5, <2>2, <2>3, <2>6 DEF Bears, T
    <3>2. Bears(page, c, f)
      BY <3>1 DEF Bears, T
    <3>3. f \in busy /\ (f \in c.owes => \E ctl \in P.ctl : f \in ctl.holds)
      BY <3>2 DEF LockInv
    <3>4. f \notin lowered
      BY <1>4, <1>5, <3>1, <3>3
    <3> QED
      BY <1>1, <1>4, <3>2, <3>3, <3>4
  <2> QED
    BY <2>3, <2>4, <2>5, <2>6
<1>8. \A x, y \in cs : Bears(page, x, f) /\ Bears(page, y, f) => x = y
  <2> SUFFICES ASSUME NEW x \in cs, NEW y \in cs, Bears(page, x, f), Bears(page, y, f)
               PROVE  x = y
    OBVIOUS
  <2>1. PICK n \in Range(row.next) : x = StartedBy(c, n, st)
    BY <1>4
  <2>2. PICK m \in Range(row.next) : y = StartedBy(c, m, st)
    BY <1>4
  <2>3. /\ x.op = n /\ (x.owes = {} \/ n = Last(row.next))
        /\ y.op = m /\ (y.owes = {} \/ m = Last(row.next))
    BY <2>1, <2>2, StartedFields
  <2>4. f \in x.owes \/ f \in y.owes => f \notin row.fail
    BY <1>5, <1>7 DEF LockInv
  <2>5. n = m
    BY <1>5, <2>3, <2>4 DEF Bears, T
  <2> QED
    BY <2>1, <2>2, <2>5
<1>9. ~Bears(page, c, f) /\ f \in busy => f \in busy'
  BY <1>1, <1>2 DEF Bears
<1>10. LockInv(f)'
  BY <1>2, <1>4, <1>6, <1>7, <1>8, <1>9, LockStep
<1>11. Bound(d, f, g)'
  <2>1. \A e \in DOMAIN calls' : g \notin e.owes /\ (Writes(page, e.op, d) => Bears(page, e, f))
    BY <1>3, <1>4, <1>6, <1>7 DEF Bound
  <2> QED
    BY <2>1 DEF Bound
<1>12. Bears(page, c, f) => \A x \in Others(c) : ~Bears(page, x, f)
  BY <1>3 DEF LockInv
<1> QED
  BY <1>3, <1>6, <1>7, <1>10, <1>11, <1>12

\* A request is handled: a writer of d is alone with the lock, and is to bring
\* what it has written.
LEMMA EditServe ==
    ASSUME Refreshing, FollowInv, NEW d, NEW f, NEW o, NEW g, Locked(page, d, f, o, g),
           DocInv(d, f, o, g), NEW c \in DOMAIN calls, Serve(c)
    PROVE  DocInv(d, f, o, g)'
<1> DEFINE row == ThunksOf[page][c.op]
<1>1. /\ page \in Shown /\ IsABag(calls) /\ Shape /\ c.op \in Ops[page]
      /\ LockInv(f) /\ Bound(d, f, g) /\ d \in Followed(page)
  BY DEF FollowInv, SpinInv, CallsInv, DocInv, Locked
<1>2. /\ server' = Handled(c) /\ page' = page /\ store' = store /\ busy' = busy
      /\ ready' = ready /\ (harm' = {} => harm = {} /\ ~Clobbers(c))
  BY DEF Serve
<1>3. Follows(page, c.op) /\ DOMAIN c = CallFields
  BY CallFollows DEF FollowInv
<1>4. PICK e, part : Served(c, e, part, server') /\ calls' = Becomes(c, {e})
  BY <1>3, ServedCall
<1>5. /\ e.op = c.op /\ e.owes = c.owes /\ e.body = c.body /\ e.item = c.item
      /\ c.phase = "sent" /\ e.phase # "err"
  BY <1>4 DEF Served
<1>6. /\ LockInv(f)' /\ Bound(d, f, g)'
      /\ DOMAIN calls' = Others(c) \cup {e}
      /\ Others(c) \subseteq DOMAIN calls
      /\ DOMAIN calls \subseteq Others(c) \cup {c}
      /\ Bears(page, c, f) => \A x \in Others(c) : ~Bears(page, x, f)
  BY <1>1, <1>2, <1>4, <1>5, LockSame
<1>7. Bears(page, e, f) <=> Bears(page, c, f)
  BY <1>5 DEF Bears
<1> DEFINE val == server'[d]
<1>8. ASSUME harm' = {}
      PROVE  /\ \A x \in DOMAIN calls' : Bodied(page, x, d, val)
             /\ \/ store[d] = val /\ \A x \in DOMAIN calls' : Answered(x, d, val)
                \/ \E x \in DOMAIN calls' : Restores(page, x, d, f, val)
                \/ /\ ~ready /\ g \in busy
                   /\ \E x \in DOMAIN calls' : x.op = o
                   /\ \A x \in DOMAIN calls' : /\ ~Bears(page, x, f) /\ Answered(x, d, val)
                                               /\ x.op = o => x.phase # "err"
  <2>1. d \in DOMAIN server
    BY <1>1, FollowedDocs DEF Shape
  <2>2. CASE Writes(page, c.op, d)
    <3>1. row.sends \in {"put", "putAnswer"}
      BY <1>1, <2>2, LockedOps
    <3>2. val = c.body
      BY <1>1, <1>2, <1>8, <2>1, <2>2, <3>1, HandledItem DEF Writes, T
    <3>3. row.parts = {} /\ WellFormed(page, c)
      BY <1>1, <1>3, <2>2 DEF Follows, Writes, Shape
    <3>4. e.phase = "ok"
      BY <1>4, <3>3 DEF Served, WellFormed
    <3>5. Bears(page, c, f)
      BY <1>1, <2>2 DEF Bound
    <3>6. \A x \in Others(c) : ~Writes(page, x.op, d)
      BY <1>1, <1>6, <3>5 DEF Bound
    <3>7. \A x \in DOMAIN calls' : Bodied(page, x, d, val)
      BY <1>5, <1>6, <3>2, <3>4, <3>6 DEF Bodied
    <3>8. Restores(page, e, d, f, val)
      BY <1>5, <1>7, <2>2, <3>4, <3>5 DEF Restores
    <3> QED
      BY <1>6, <3>7, <3>8
  <2>3. CASE ~Writes(page, c.op, d)
    <3>1. val = server[d]
      <4>1. row.sends \in Writing => row.doc # d
        BY <2>3 DEF Writes
      <4> QED
        BY <1>2, <2>1, <4>1 DEF Handled, Writing, T
    <3>2. \A x \in DOMAIN calls : Bodied(page, x, d, val)
      BY <1>2, <1>8, <3>1 DEF DocInv
    <3>3. Bodied(page, e, d, val)
      BY <1>5, <2>3 DEF Bodied
    <3>4. Answered(c, d, val) => Answered(e, d, val)
      BY <1>4 DEF Answered, Served
    <3>5. CASE Current(d)
      BY <1>6, <3>1, <3>2, <3>3, <3>4, <3>5 DEF Current
    <3>6. CASE Pending(d, f)
      <4>1. PICK x \in DOMAIN calls : Restores(page, x, d, f, val)
        BY <3>1, <3>6 DEF Pending
      <4>2. x = c => Restores(page, e, d, f, val)
        <5>1. ASSUME x = c
              PROVE  Bears(page, e, f) /\ Fetches(page, e.op, d)
          BY <1>5, <1>7, <4>1, <5>1 DEF Restores
        <5>2. ASSUME x = c, d \in DOMAIN e.ans
              PROVE  e.ans[d] = val
          BY <1>4, <1>5, <4>1, <5>2 DEF Restores, Served
        <5> QED
          BY <1>5, <5>1, <5>2 DEF Restores
      <4> QED
        BY <1>6, <3>2, <3>3, <4>1, <4>2
    <3>7. CASE Opening(d, f, o, g)
      BY <1>5, <1>6, <1>7, <3>1, <3>2, <3>3, <3>4, <3>7 DEF Opening
    <3> QED
      BY <1>2, <1>8, <3>5, <3>6, <3>7 DEF DocInv
  <2> QED
    BY <2>2, <2>3
<1> QED
  BY <1>2, <1>6, <1>8 DEF DocInv, Current, Pending, Opening

\* A request is refused, or an answer is lost.
LEMMA EditRefuse ==
    ASSUME Refreshing, FollowInv, NEW d, NEW f, NEW o, NEW g, Locked(page, d, f, o, g),
           DocInv(d, f, o, g), NEW c \in DOMAIN calls, Refuse(c) \/ Lose(c)
    PROVE  DocInv(d, f, o, g)'
<1> DEFINE row == ThunksOf[page][c.op]
           e == [c EXCEPT !.phase = "err"]
<1>1. /\ IsABag(calls) /\ LockInv(f) /\ Bound(d, f, g)
  BY DEF FollowInv, SpinInv, CallsInv, DocInv
<1>2. /\ server' = server /\ page' = page /\ store' = store /\ busy' = busy
      /\ ready' = ready /\ calls' = Becomes(c, {e})
      /\ harm' = {} => harm = {} /\ c.phase = "sent" /\ row.sends # "nothing"
  BY DEF Refuse, Lose, T
<1>3. DOMAIN c = CallFields
  BY CallFollows DEF FollowInv
<1>4. e.op = c.op /\ e.owes = c.owes /\ e.phase = "err"
  BY <1>3 DEF CallFields
<1> HIDE DEF e
<1>5. /\ LockInv(f)' /\ Bound(d, f, g)'
      /\ DOMAIN calls' = Others(c) \cup {e}
      /\ Others(c) \subseteq DOMAIN calls
      /\ DOMAIN calls \subseteq Others(c) \cup {c}
  BY <1>1, <1>2, <1>4, LockSame
<1>6. Bears(page, e, f) <=> Bears(page, c, f)
  BY <1>4 DEF Bears
<1> DEFINE val == server[d]
<1>7. ASSUME harm' = {}
      PROVE  /\ \A x \in DOMAIN calls' : Bodied(page, x, d, val)
             /\ \/ store[d] = val /\ \A x \in DOMAIN calls' : Answered(x, d, val)
                \/ \E x \in DOMAIN calls' : Restores(page, x, d, f, val)
                \/ /\ ~ready /\ g \in busy
                   /\ \E x \in DOMAIN calls' : x.op = o
                   /\ \A x \in DOMAIN calls' : /\ ~Bears(page, x, f) /\ Answered(x, d, val)
                                               /\ x.op = o => x.phase # "err"
  <2>1. \A x \in DOMAIN calls' : Bodied(page, x, d, val)
    BY <1>2, <1>4, <1>5, <1>7 DEF DocInv, Bodied
  <2>2. Answered(e, d, val)
    BY <1>4 DEF Answered
  <2>3. CASE Current(d)
    BY <1>5, <2>1, <2>2, <2>3 DEF Current
  <2>4. CASE Pending(d, f)
    <3>1. PICK x \in DOMAIN calls : Restores(page, x, d, f, val)
      BY <2>4 DEF Pending
    <3>2. x # c
      BY <1>2, <1>7, <3>1 DEF Restores, Fetches
    <3> QED
      BY <1>5, <2>1, <3>1, <3>2
  <2>5. CASE Opening(d, f, o, g)
    <3>1. c.op # o
      BY <1>2, <1>7 DEF Locked, Opens, Fetches
    <3> QED
      BY <1>4, <1>5, <1>6, <2>1, <2>2, <2>5, <3>1 DEF Opening
  <2> QED
    BY <1>2, <1>7, <2>3, <2>4, <2>5 DEF DocInv
<1> QED
  BY <1>2, <1>5, <1>7 DEF DocInv, Current, Pending, Opening

\* A handler that is not the loader's leaves the page hidden.
LEMMA StillOpening ==
    ASSUME NEW d, NEW f, NEW o, NEW g, Locked(page, d, f, o, g), Bound(d, f, g),
           Opening(d, f, o, g), NEW c \in DOMAIN calls, c.op # o,
           NEW st, NEW lowered, NEW next, Return(c, st, lowered, next), g \notin lowered,
           page' = page, server' = server,
           NEW cs, NEW ms, Returned(c, st, next, cs, ms),
           Others(c) \subseteq DOMAIN calls, DOMAIN calls \subseteq Others(c) \cup {c},
           \A e \in cs \cup ms : ~Bears(page, e, f) /\ e.phase = "sent" /\ DOMAIN e.ans = {}
    PROVE  Opening(d, f, o, g)'
<1> DEFINE flags == ((busy \ lowered) \ (IF next = <<>> THEN c.owes ELSE {}))
                       \cup SetBy(next)
<1>1. flags \subseteq busy' /\ ready' = Visible(flags)
  BY DEF Return
<1>2. g \in flags
  BY DEF Opening, Bound
<1> HIDE DEF flags
<1>3. g \in P.loader
  BY DEF Locked, Opens, P
<1>4. ~ready' /\ g \in busy'
  BY <1>1, <1>2, <1>3 DEF Visible, Opening
<1>5. DOMAIN calls' = Others(c) \cup cs \cup ms
  BY DEF Returned
<1>6. \E e \in DOMAIN calls' : e.op = o
  BY <1>5 DEF Opening
<1>7. \A e \in DOMAIN calls' : /\ ~Bears(page, e, f) /\ Answered(e, d, server[d])
                               /\ e.op = o => e.phase # "err"
  <2>1. \A e \in cs \cup ms : /\ ~Bears(page, e, f) /\ Answered(e, d, server[d])
                              /\ e.phase # "err"
    BY DEF Answered
  <2> QED
    BY <1>5, <2>1 DEF Opening
<1> QED
  BY <1>4, <1>6, <1>7 DEF Opening

\* What the success handler leaves of a document that is locked.
LEMMA KeptLocked ==
    ASSUME Refreshing, FollowInv, harm = {}, NEW c \in DOMAIN calls, c.phase = "ok",
           NEW d, NEW f, NEW o, NEW g, Locked(page, d, f, o, g),
           Bodied(page, c, d, server[d])
    PROVE  LET row == T(c.op)
               k == Kept(c)
           IN  /\ Writes(page, c.op, d) =>
                     \/ row.keeps = "put" /\ k[d] = server[d]
                     \/ /\ row.keeps = "nothing" /\ k[d] = store[d]
                        /\ row.next # <<>> /\ f \notin row.fail
                        /\ Fetches(page, Last(row.next), d)
               /\ ~Writes(page, c.op, d) =>
                     k[d] = store[d] \/ (d \in DOMAIN c.ans /\ k[d] = c.ans[d])
               /\ Fetches(page, c.op, d) => d \in DOMAIN c.ans /\ k[d] = c.ans[d]
<1> DEFINE row == T(c.op)
           k == Kept(c)
<1>1. d \in Followed(page) /\ page \in Shown /\ c.op \in Ops[page]
  BY DEF Locked, FollowInv, SpinInv, CallsInv
<1>2. /\ row.keeps = "answer" =>
            k[d] = IF d \in DOMAIN c.ans THEN c.ans[d] ELSE store[d]
      /\ row.keeps # "answer" /\ row.doc # d => k[d] = store[d]
      /\ row.doc = d /\ row.keeps = "put" => k[d] = c.body
      /\ row.keeps \notin {"answer", "put", "patch", "flip"} => k[d] = store[d]
  BY <1>1, KeptDoc
<1> HIDE DEF k
<1>3. /\ ~(row.doc = d /\ row.sends = "hold")
      /\ Writes(page, c.op, d) =>
            \/ row.keeps = "put"
            \/ /\ row.keeps = "nothing" /\ row.next # <<>> /\ f \notin row.fail
               /\ Fetches(page, Last(row.next), d)
  BY <1>1 DEF Locked, Guards, T
<1>4. /\ row.doc = d /\ row.keeps = "put" => row.sends \in {"put", "putAnswer", "hold"}
      /\ row.doc = d /\ row.keeps \in {"patch", "flip"} => row.sends \in Writing
  <2>1. Follows(page, c.op)
    BY CallFollows DEF FollowInv
  <2> QED
    BY <1>1, <2>1 DEF Follows, T
<1>5. ASSUME Writes(page, c.op, d)
      PROVE  \/ row.keeps = "put" /\ k[d] = server[d]
             \/ /\ row.keeps = "nothing" /\ k[d] = store[d]
                /\ row.next # <<>> /\ f \notin row.fail
                /\ Fetches(page, Last(row.next), d)
  <2>1. row.doc = d /\ c.body = server[d]
    BY <1>5 DEF Writes, Bodied, T
  <2> QED
    BY <1>2, <1>3, <1>5, <2>1
<1>6. ASSUME ~Writes(page, c.op, d)
      PROVE  k[d] = store[d] \/ (d \in DOMAIN c.ans /\ k[d] = c.ans[d])
  <2>1. ~(row.doc = d /\ row.keeps \in {"put", "patch", "flip"})
    BY <1>3, <1>4, <1>6 DEF Writes, Writing, T
  <2> QED
    BY <1>2, <2>1
<1>7. ASSUME Fetches(page, c.op, d)
      PROVE  d \in DOMAIN c.ans /\ k[d] = c.ans[d]
  <2>1. row.keeps = "answer" /\ d \in DocsOf(row)
    BY <1>7 DEF Fetches, T
  <2>2. d \in DOMAIN c.ans
    BY <2>1 DEF FollowInv, Shape, WellFormed, T
  <2> QED
    BY <1>2, <2>1, <2>2
<1> QED
  BY <1>5, <1>6, <1>7 DEF k

\* An answer arrives: the holder of the lock puts d into the store, or leaves the
\* lock to the thunk that will.
LEMMA EditSettle ==
    ASSUME Bracketed, Refreshing, FollowInv, NEW d, NEW f, NEW o, NEW g,
           Locked(page, d, f, o, g), DocInv(d, f, o, g), NEW c \in DOMAIN calls, Settle(c)
    PROVE  DocInv(d, f, o, g)'
<1> DEFINE row == T(c.op)
           k == Kept(c)
           val == server[d]
<1>1. /\ page \in Shown /\ CallsInv /\ Shape /\ c.op \in Ops[page] /\ c.phase = "ok"
      /\ LockInv(f) /\ Bound(d, f, g) /\ d \in Followed(page)
  BY DEF FollowInv, SpinInv, CallsInv, DocInv, Locked, Settle
<1>2. /\ server' = server /\ page' = page /\ store' = k
      /\ Return(c, k, row.done, row.next)
      /\ harm' = {} => harm = {} /\ ~Overtakes(c)
  BY DEF Settle, Return
<1>3. /\ f \in row.done => f \in row.fail
      /\ c.op # o => g \notin row.done
      /\ \A n \in Range(row.next) : f \in T(n).fail => f \notin row.done
      /\ \A n \in Range(row.next) : Writes(page, n, d) =>
            /\ T(n).sends = "putAnswer" /\ T(n).doc = d
            /\ f \in row.fail /\ row.sends = "nothing" /\ d \in DocsOf(row)
  BY <1>1, LockedOps DEF T, Writes
<1> HIDE DEF k
<1>4. PICK cs, ms : Returned(c, k, row.next, cs, ms)
  BY <1>1, <1>2, ReturnBag DEF CallsInv
<1>5. /\ LockInv(f)' /\ Bound(d, f, g)'
      /\ Others(c) \subseteq DOMAIN calls
      /\ DOMAIN calls \subseteq Others(c) \cup {c}
      /\ Bears(page, c, f) => \A x \in Others(c) : ~Bears(page, x, f)
      /\ \A e \in cs : Bears(page, e, f) => Bears(page, c, f)
      /\ \A e \in ms : /\ ~Bears(page, e, f) /\ ~Writes(page, e.op, d)
                       /\ e.phase = "sent" /\ DOMAIN e.ans = {}
  BY <1>1, <1>2, <1>3, <1>4, LockReturn
<1>6. /\ DOMAIN calls' = Others(c) \cup cs \cup ms
      /\ \A e \in cs : \E n \in Range(row.next) : e = StartedBy(c, n, k)
      /\ row.next # <<>> => \A n \in Range(row.next) : StartedBy(c, n, k) \in cs
  BY <1>4 DEF Returned
<1>7. \A e \in cs : e.phase = "sent" /\ DOMAIN e.ans = {}
  BY <1>6, StartedFields
<1>8. ASSUME harm' = {}
      PROVE  /\ \A e \in DOMAIN calls' : Bodied(page, e, d, val)
             /\ \/ k[d] = val /\ \A e \in DOMAIN calls' : Answered(e, d, val)
                \/ \E e \in DOMAIN calls' : Restores(page, e, d, f, val)
                \/ Opening(d, f, o, g)'
  <2>1. /\ harm = {} /\ ~Overtakes(c) /\ d # NoDoc
        /\ \A e \in DOMAIN calls : Bodied(page, e, d, val)
        /\ Current(d) \/ Pending(d, f) \/ Opening(d, f, o, g)
    BY <1>1, <1>2, <1>8, FollowedDocs DEF DocInv
  <2>2. /\ Writes(page, c.op, d) =>
              \/ row.keeps = "put" /\ k[d] = val
              \/ /\ row.keeps = "nothing" /\ k[d] = store[d]
                 /\ row.next # <<>> /\ f \notin row.fail
                 /\ Fetches(page, Last(row.next), d)
        /\ ~Writes(page, c.op, d) =>
              k[d] = store[d] \/ (d \in DOMAIN c.ans /\ k[d] = c.ans[d])
        /\ Fetches(page, c.op, d) => d \in DOMAIN c.ans /\ k[d] = c.ans[d]
    BY <1>1, <2>1, KeptLocked DEF k
  <2>3. ASSUME row.sends = "nothing", d \in DocsOf(row), Bears(page, c, f)
        PROVE  d \in DOMAIN c.ans /\ c.ans[d] = val
    <3>1. d \in DOMAIN c.ans
      BY <1>1, <2>3 DEF Shape, WellFormed, T
    <3>2. CASE Current(d)
      BY <1>1, <3>1, <3>2 DEF Current, Answered
    <3>3. CASE Pending(d, f)
      <4>1. PICK b \in DOMAIN calls : Restores(page, b, d, f, val)
        BY <3>3 DEF Pending
      <4>2. b = c
        BY <1>5, <2>3, <4>1 DEF Restores
      <4> QED
        BY <2>3, <3>1, <4>1, <4>2 DEF Restores, Writes, Writing, T
    <3>4. CASE Opening(d, f, o, g)
      BY <2>3, <3>4 DEF Opening
    <3> QED
      BY <2>1, <3>1, <3>2, <3>3, <3>4
  <2>4. \A e \in cs : Bodied(page, e, d, val)
    <3> SUFFICES ASSUME NEW e \in cs, Writes(page, e.op, d)
                 PROVE  e.phase = "sent" /\ e.body \ {e.item} = val \ {e.item}
      BY <1>7 DEF Bodied
    <3>1. PICK n \in Range(row.next) : e = StartedBy(c, n, k)
      BY <1>6
    <3>2. /\ e.op = n /\ e.item = c.item /\ e.phase = "sent"
          /\ T(n).sends = "putAnswer" => e.body = WithItem(c.ans[T(n).doc], c.item, c.v)
      BY <3>1, StartedFields
    <3>3. /\ T(n).sends = "putAnswer" /\ T(n).doc = d
          /\ f \in row.fail /\ row.sends = "nothing" /\ d \in DocsOf(row)
      BY <1>3, <3>2
    <3>4. c.ans[d] = val
      BY <2>3, <3>3 DEF Bears, T
    <3>5. e.body = WithItem(val, c.item, c.v)
      BY <3>2, <3>3, <3>4
    <3> HIDE DEF val
    <3> QED
      BY <3>2, <3>5 DEF WithItem
  <2>5. \A e \in DOMAIN calls' : Bodied(page, e, d, val)
    BY <1>5, <1>6, <2>1, <2>4 DEF Bodied
  <2>6. ASSUME k[d] = val, d \in DOMAIN c.ans \/ d = row.doc
        PROVE  \A e \in DOMAIN calls' : Answered(e, d, val)
    <3>1. \A e \in Others(c) : ~Carries(e, d, k[d])
      BY <2>1, <2>6 DEF Overtakes, Others, BagToSet, k
    <3> QED
      BY <1>5, <1>6, <1>7, <2>6, <3>1 DEF Carries, Answered
  <2>7. CASE Current(d)
    <3>1. k[d] = val
      BY <1>1, <2>2, <2>7 DEF Current, Answered
    <3>2. \A e \in DOMAIN calls' : Answered(e, d, val)
      BY <1>5, <1>6, <1>7, <2>7 DEF Current, Answered
    <3> QED
      BY <2>5, <3>1, <3>2
  <2>8. CASE Pending(d, f)
    <3>1. PICK b \in DOMAIN calls : Restores(page, b, d, f, val)
      BY <2>8 DEF Pending
    <3>2. CASE b \in Others(c)
      BY <1>6, <2>5, <3>1, <3>2
    <3>3. CASE b = c /\ Writes(page, c.op, d) /\ row.keeps = "put" /\ k[d] = val
      BY <2>5, <2>6, <3>3 DEF Writes, T
    <3>4. CASE /\ b = c /\ Writes(page, c.op, d)
               /\ row.next # <<>> /\ f \notin row.fail /\ Fetches(page, Last(row.next), d)
      <4> DEFINE n == Last(row.next)
                 e == StartedBy(c, n, k)
      <4>1. n \in Range(row.next)
        BY <1>1, <3>4 DEF Bracketed, T
      <4>2. e \in cs
        BY <1>6, <3>4, <4>1
      <4>3. f \in c.owes
        BY <3>1, <3>4 DEF Restores, Bears, T
      <4>4. e.op = n /\ e.owes = c.owes \cup row.owes
        BY StartedFields
      <4>5. Restores(page, e, d, f, val)
        BY <1>7, <3>4, <4>2, <4>3, <4>4 DEF Restores, Bears
      <4> QED
        BY <1>6, <2>5, <4>2, <4>5
    <3>5. CASE b = c /\ Fetches(page, c.op, d)
      <4>1. d \in DOMAIN c.ans /\ k[d] = val
        BY <2>2, <3>1, <3>5 DEF Restores, Fetches, Writes, Writing
      <4> QED
        BY <2>5, <2>6, <4>1
    <3> QED
      BY <1>5, <2>2, <3>1, <3>2, <3>3, <3>4, <3>5 DEF Restores
  <2>9. CASE Opening(d, f, o, g) /\ c.op = o
    <3>1. Fetches(page, c.op, d)
      BY <2>9 DEF Locked, Opens
    <3>2. k[d] = val
      BY <1>1, <2>2, <2>9, <3>1 DEF Opening, Answered
    <3>3. \A e \in DOMAIN calls' : Answered(e, d, val)
      BY <1>5, <1>6, <1>7, <2>9 DEF Opening, Answered
    <3> QED
      BY <2>5, <3>2, <3>3
  <2>10. CASE Opening(d, f, o, g) /\ c.op # o
    <3>1. \A e \in cs \cup ms : ~Bears(page, e, f) /\ e.phase = "sent" /\ DOMAIN e.ans = {}
      BY <1>5, <1>7, <2>10 DEF Opening
    <3>2. Opening(d, f, o, g)'
      BY <1>1, <1>2, <1>3, <1>4, <1>5, <2>10, <3>1, StillOpening
    <3> QED
      BY <2>5, <3>2
  <2> QED
    BY <2>1, <2>7, <2>8, <2>9, <2>10
<1> QED
  BY <1>2, <1>5, <1>8 DEF DocInv, Current, Pending

\* A handler that leaves the store alone: the catch block, or a success handler
\* that returns early.
LEMMA EditFail ==
    ASSUME Refreshing, FollowInv, NEW d, NEW f, NEW o, NEW g, Locked(page, d, f, o, g),
           DocInv(d, f, o, g), NEW c \in DOMAIN calls, SettleEarly(c) \/ Fail(c)
    PROVE  DocInv(d, f, o, g)'
<1> DEFINE row == T(c.op)
           next == IF Fail(c) /\ row.anyway THEN row.next ELSE <<>>
           lowered == IF Fail(c) THEN row.fail \cup row.owes ELSE row.fail
           val == server[d]
<1>1. /\ page \in Shown /\ CallsInv /\ Shape /\ c.op \in Ops[page]
      /\ LockInv(f) /\ Bound(d, f, g)
  BY DEF FollowInv, SpinInv, CallsInv, DocInv
<1>2. /\ server' = server /\ page' = page /\ store' = store
      /\ harm' = {} => harm = {} /\ c.phase = "err"
  BY DEF SettleEarly, Fail, Return
<1>3. Return(c, store, lowered, next)
  BY DEF SettleEarly, Fail
<1>4. /\ f \notin row.owes /\ g \notin row.owes
      /\ c.op # o => g \notin row.fail
      /\ \A n \in Range(row.next) : f \in T(n).fail => ~row.anyway
      /\ \A n \in Range(row.next) : Writes(page, n, d) => f \in T(n).fail
  BY <1>1, LockedOps DEF T
<1>5. /\ next = <<>> \/ (next = row.next /\ row.anyway)
      /\ f \in lowered => f \in row.fail
      /\ c.op # o => g \notin lowered
  BY <1>4
<1> HIDE DEF next, lowered
<1>6. next # <<>> => \A n \in Range(row.next) : f \notin T(n).fail /\ ~Writes(page, n, d)
  BY <1>4, <1>5
<1>7. PICK cs, ms : Returned(c, store, next, cs, ms)
  BY <1>1, <1>3, ReturnBag DEF CallsInv
<1>8. /\ LockInv(f)' /\ Bound(d, f, g)'
      /\ Others(c) \subseteq DOMAIN calls
      /\ DOMAIN calls \subseteq Others(c) \cup {c}
      /\ \A e \in cs : Bears(page, e, f) => Bears(page, c, f)
      /\ \A e \in ms : /\ ~Bears(page, e, f) /\ ~Writes(page, e.op, d)
                       /\ e.phase = "sent" /\ DOMAIN e.ans = {}
  BY <1>1, <1>2, <1>3, <1>5, <1>6, <1>7, LockReturn
<1>9. /\ DOMAIN calls' = Others(c) \cup cs \cup ms
      /\ \A e \in cs : next # <<>> /\ \E n \in Range(row.next) : e = StartedBy(c, n, store)
  BY <1>7 DEF Returned
<1>10. \A e \in cs : e.phase = "sent" /\ DOMAIN e.ans = {} /\ ~Writes(page, e.op, d)
  BY <1>6, <1>9, StartedFields
<1>11. ASSUME harm' = {}
       PROVE  /\ \A e \in DOMAIN calls' : Bodied(page, e, d, val)
              /\ \/ store[d] = val /\ \A e \in DOMAIN calls' : Answered(e, d, val)
                 \/ \E e \in DOMAIN calls' : Restores(page, e, d, f, val)
                 \/ Opening(d, f, o, g)'
  <2>1. /\ harm = {} /\ c.phase = "err"
        /\ \A e \in DOMAIN calls : Bodied(page, e, d, val)
        /\ Current(d) \/ Pending(d, f) \/ Opening(d, f, o, g)
    BY <1>2, <1>11 DEF DocInv
  <2>2. \A e \in DOMAIN calls' : Bodied(page, e, d, val)
    BY <1>8, <1>9, <1>10, <2>1 DEF Bodied
  <2>3. CASE Current(d)
    BY <1>8, <1>9, <1>10, <2>2, <2>3 DEF Current, Answered
  <2>4. CASE Pending(d, f)
    BY <1>8, <1>9, <2>1, <2>2, <2>4 DEF Pending, Restores
  <2>5. CASE Opening(d, f, o, g)
    <3>1. c.op # o
      BY <2>1, <2>5 DEF Opening
    <3>2. \A e \in cs \cup ms : ~Bears(page, e, f) /\ e.phase = "sent" /\ DOMAIN e.ans = {}
      BY <1>8, <1>10, <2>5 DEF Opening
    <3>3. Opening(d, f, o, g)'
      BY <1>1, <1>2, <1>3, <1>5, <1>7, <1>8, <2>5, <3>1, <3>2, StillOpening
    <3> QED
      BY <2>2, <3>3
  <2> QED
    BY <2>1, <2>3, <2>4, <2>5
<1> QED
  BY <1>2, <1>8, <1>11 DEF DocInv, Current, Pending

\* The calls that a control starts are in flight once, unless they were before.
LEMMA ClickBag ==
    ASSUME IsABag(calls), NEW rs, calls' = calls (+) SetToBag(rs)
    PROVE  /\ DOMAIN calls' = DOMAIN calls \cup rs
           /\ \A e \in DOMAIN calls \ rs : calls'[e] = calls[e]
           /\ \A e \in rs \ DOMAIN calls : calls'[e] = 1
<1> DEFINE b == SetToBag(rs)
<1>1. IsABag(b) /\ DOMAIN b = rs
  BY SetBag
<1>2. \A e \in rs : b[e] = 1
  BY DEF SetToBag
<1>3. calls' = calls (+) b
  OBVIOUS
<1> HIDE DEF b
<1>4. DOMAIN calls' = DOMAIN calls \cup rs
  BY <1>1, <1>3, MoreCalls
<1>5. \A e \in DOMAIN calls \ rs : calls'[e] = calls[e]
  BY <1>1, <1>3, MoreCount
<1>6. \A e \in rs \ DOMAIN calls : calls'[e] = 0 + b[e]
  BY <1>1, <1>3 DEF (+)
<1> QED
  BY <1>2, <1>4, <1>5, <1>6

\* A control is operated: if it takes the lock the lock was free, and what it
\* sends back whole is what the server has, but for the item that was clicked.
LEMMA EditClick ==
    ASSUME Refreshing, FollowInv, NEW d, NEW f, NEW o, NEW g, Locked(page, d, f, o, g),
           DocInv(d, f, o, g), NEW ctl \in P.ctl, NEW item, Click(ctl, item)
    PROVE  DocInv(d, f, o, g)'
<1> DEFINE row == T(ctl.op)
           st == IF row.early THEN [store EXCEPT ![row.doc] = @ \ {item}] ELSE store
           w == Wish(row, item)
           nil == <<>>
           Owes(op) == IF op = ctl.op THEN ctl.holds ELSE {}
           R(op) == Request(op, item, w, nil, Owes(op), st)
           ops == {ctl.op} \cup Range(ctl.also)
           rs == {R(op) : op \in ops}
           main == R(ctl.op)
           val == server[d]
<1>1. /\ page \in Shown /\ IsABag(calls) /\ Shape
      /\ LockInv(f) /\ Bound(d, f, g) /\ d \in Followed(page)
  BY DEF FollowInv, SpinInv, CallsInv, DocInv, Locked
<1>2. /\ page' = page /\ server' = server /\ harm' = harm /\ store' = st
      /\ ready /\ ctl.off \cap busy = {}
      /\ busy \cup row.set \cup ctl.holds \subseteq busy'
  BY DEF Click
<1>3. calls' = calls (+) SetToBag(rs)
  BY DEF Click
<1>4. st[d] = store[d]
  <2>1. Follows(page, ctl.op)
    BY <1>1, OwnOps DEF Refreshing, P
  <2>2. d \in DOMAIN store
    BY <1>1, FollowedDocs DEF Shape
  <2> QED
    BY <1>1, <2>1, <2>2 DEF Follows, T
<1> HIDE DEF st, w, nil
<1>5. \A op : /\ R(op).op = op /\ R(op).owes = Owes(op) /\ R(op).item = item
              /\ R(op).phase = "sent" /\ DOMAIN R(op).ans = {}
              /\ T(op).sends = "put" => R(op).body = WithItem(st[T(op).doc], item, w)
  <2> TAKE op
  <2> DEFINE own == Owes(op)
  <2>1. R(op) = Request(op, item, w, nil, own, st)
    OBVIOUS
  <2> HIDE DEF R, Owes, own
  <2>2. R(op).op = op /\ R(op).owes = own
    BY <2>1, RequestFields
  <2>3. DOMAIN R(op).ans = {} /\ R(op).phase = "sent"
    BY <2>1, RequestFresh DEF Fresh
  <2>4. /\ R(op).item = item
        /\ T(op).sends = "put" => R(op).body = WithItem(st[T(op).doc], item, w)
    BY <2>1, RequestBody
  <2> QED
    BY <2>2, <2>3, <2>4 DEF own
<1> HIDE DEF R
<1>6. /\ main \in rs
      /\ \A e \in rs : e = main \/ (e.op \in Range(ctl.also) /\ e.owes = {})
      /\ \A e \in rs : e.phase = "sent" /\ DOMAIN e.ans = {}
  BY <1>5
<1>7. /\ DOMAIN calls' = DOMAIN calls \cup rs
      /\ \A e \in DOMAIN calls \ rs : calls'[e] = calls[e]
      /\ \A e \in rs \ DOMAIN calls : calls'[e] = 1
  <2> HIDE DEF rs
  <2> QED
    BY <1>1, <1>3, ClickBag
<1>8. /\ main.op = ctl.op /\ main.owes = ctl.holds /\ main.item = item
      /\ row.sends = "put" => main.body = WithItem(st[row.doc], item, w)
  BY <1>5
<1> HIDE DEF rs, main, Owes
<1>9. \A op \in Range(ctl.also) : f \notin ThunksOf[page][op].fail /\ ~Writes(page, op, d)
  <2>1. Range(ctl.also) \subseteq SelfStarted(page)
    BY DEF SelfStarted, P
  <2> QED
    BY <2>1, LockedOps
<1>10. /\ \A e \in rs : Bears(page, e, f) => e = main
       /\ \A e \in rs : Writes(page, e.op, d) => e = main
  BY <1>6, <1>9 DEF Bears
<1>11. ASSUME Bears(page, main, f)
       PROVE  /\ f \in busy' /\ main \notin DOMAIN calls
              /\ \A e \in DOMAIN calls : ~Bears(page, e, f)
  <2>1. f \in ctl.off /\ f \in ctl.holds \cup row.set
    BY <1>8, <1>11 DEF Bears, Locked, Locks, P, T
  <2>2. f \notin busy /\ f \in busy'
    BY <1>2, <2>1
  <2> QED
    BY <1>1, <1>11, <2>2 DEF LockInv
<1>12. g \notin ctl.holds
  BY DEF Locked, Opens, P
<1>13. Writes(page, main.op, d) => row.sends = "put" /\ row.doc = d /\ Bears(page, main, f)
  BY <1>8 DEF Locked, Guards, Bears, Writes, P, T
<1>14. LockInv(f)'
  <2>1. P' = P
    BY <1>2 DEF P
  <2>2. CASE Bears(page, main, f)
    <3>1. \A e \in DOMAIN calls' : Bears(page, e, f) => e = main
      BY <1>7, <1>10, <1>11, <2>2
    <3>2. calls'[main] = 1
      BY <1>6, <1>7, <1>11, <2>2
    <3> QED
      BY <1>2, <1>8, <1>11, <2>1, <2>2, <3>1, <3>2 DEF LockInv
  <2>3. CASE ~Bears(page, main, f)
    <3>1. \A e \in DOMAIN calls' : Bears(page, e, f) => e \in DOMAIN calls /\ calls'[e] = calls[e]
      BY <1>7, <1>10, <2>3
    <3> QED
      BY <1>1, <1>2, <2>1, <3>1 DEF LockInv
  <2> QED
    BY <2>2, <2>3
<1>15. Bound(d, f, g)'
  <2>1. \A e \in rs : g \notin e.owes /\ (Writes(page, e.op, d) => Bears(page, e, f))
    BY <1>6, <1>8, <1>10, <1>12, <1>13
  <2> QED
    BY <1>1, <1>2, <1>7, <2>1 DEF Bound
<1>16. ASSUME harm' = {}
       PROVE  /\ \A e \in DOMAIN calls' : Bodied(page, e, d, val)
              /\ \/ st[d] = val /\ \A e \in DOMAIN calls' : Answered(e, d, val)
                 \/ \E e \in DOMAIN calls' : Restores(page, e, d, f, val)
  <2>1. /\ \A e \in DOMAIN calls : Bodied(page, e, d, val)
        /\ Current(d) \/ Pending(d, f)
    BY <1>2, <1>16 DEF DocInv, Opening
  <2>2. \A e \in rs : Bodied(page, e, d, val)
    <3> SUFFICES ASSUME Writes(page, main.op, d)
                 PROVE  main.phase = "sent" /\ main.body \ {main.item} = val \ {main.item}
      BY <1>10 DEF Bodied
    <3>1. Current(d)
      BY <1>11, <1>13, <2>1 DEF Pending, Restores
    <3>2. main.body = WithItem(val, item, w)
      BY <1>4, <1>8, <1>13, <3>1 DEF Current
    <3> HIDE DEF val
    <3> QED
      BY <1>6, <1>8, <3>2 DEF WithItem
  <2>3. CASE Current(d)
    BY <1>4, <1>6, <1>7, <2>1, <2>2, <2>3 DEF Current, Answered
  <2>4. CASE Pending(d, f)
    BY <1>7, <2>1, <2>2, <2>4 DEF Pending
  <2> QED
    BY <2>1, <2>3, <2>4
<1> QED
  BY <1>2, <1>14, <1>15, <1>16 DEF DocInv, Current, Pending

\* The page is mounted: it is hidden until its loader has settled.
LEMMA EditInit ==
    ASSUME PageInit, NEW d, NEW f, NEW o, NEW g, Locked(page, d, f, o, g)
    PROVE  DocInv(d, f, o, g)
<1> DEFINE rs == {StartedAlone(op, store) : op \in Range(P.mount)}
<1>1. /\ calls = Requests(P.mount, store)
      /\ busy = P.raised \cup SetBy(P.mount) /\ ready = (P.loader = {})
  BY DEF PageInit
<1>2. DOMAIN calls = rs
  <2>1. calls = SetToBag(rs)
    BY <1>1 DEF Requests, StartedAlone
  <2> HIDE DEF rs
  <2> QED
    BY <2>1, SetBag
<1>3. /\ o \in Range(P.mount) /\ g \in P.loader
      /\ g \in P.raised \cup T(o).set
  BY DEF Locked, Opens, P, T
<1>4. ~ready /\ g \in busy
  BY <1>1, <1>3 DEF SetBy
<1>5. \A c \in DOMAIN calls : /\ c.op \in Range(P.mount)
                              /\ c.owes = {} /\ DOMAIN c.ans = {} /\ c.phase = "sent"
  BY <1>2, AloneFields
<1>6. \E c \in DOMAIN calls : c.op = o
  BY <1>2, <1>3, AloneFields
<1>7. Range(P.mount) \subseteq SelfStarted(page)
  BY DEF SelfStarted, P
<1>8. \A c \in DOMAIN calls : ~Bears(page, c, f) /\ ~Writes(page, c.op, d)
  BY <1>5, <1>7, LockedOps DEF Bears
<1>9. LockInv(f) /\ Bound(d, f, g)
  BY <1>5, <1>8 DEF LockInv, Bound
<1>10. \A c \in DOMAIN calls : Bodied(page, c, d, server[d])
  BY <1>8 DEF Bodied
<1>11. Opening(d, f, o, g)
  BY <1>4, <1>5, <1>6, <1>8 DEF Opening, Answered
<1> QED
  BY <1>9, <1>10, <1>11 DEF DocInv

\* All that is locked is in order, and nothing was undone.
EditInv ==
    /\ FollowInv
    /\ harm \subseteq {"stale", "clobbered"}
    /\ EditsSurvive
    /\ \A d, f, o, g : Locked(page, d, f, o, g) => DocInv(d, f, o, g)

\* A page that keeps the discipline undoes nothing.
LEMMA NoClobber ==
    ASSUME Refreshing, Guarded, EditInv, page \notin Clobbering,
           NEW c \in DOMAIN calls, c.phase = "sent"
    PROVE  ~Clobbers(c)
<1> DEFINE row == T(c.op)
           d == row.doc
<1> SUFFICES ASSUME Clobbers(c)
             PROVE  FALSE
  OBVIOUS
<1>1. /\ row.sends \in {"put", "putAnswer", "wipe"}
      /\ Handled(c)[d] \ {c.item} # server[d] \ {c.item}
      /\ harm = {}
  BY DEF Clobbers, EditInv, EditsSurvive
<1>2. page \in Shown /\ c.op \in Ops[page] /\ DOMAIN server = AllDocs[page]
  BY DEF EditInv, FollowInv, SpinInv, CallsInv, Shape
<1>3. PICK f, o, g : Locked(page, d, f, o, g)
  BY <1>1, <1>2 DEF Guarded, Locked, T
<1>4. Writes(page, c.op, d)
  BY <1>1 DEF Writes, Writing, T
<1>5. row.sends \in {"put", "putAnswer"}
  BY <1>1, <1>2, <1>3, <1>4, LockedOps DEF T
<1>6. c.body \ {c.item} = server[d] \ {c.item}
  BY <1>1, <1>3, <1>4 DEF EditInv, DocInv, Bodied
<1>7. d \in DOMAIN server
  BY <1>2, <1>3, FollowedDocs DEF Locked
<1>8. Handled(c)[d] = c.body
  BY <1>5, <1>7 DEF Handled
<1> QED
  BY <1>1, <1>6, <1>8

\* A request that replaces a whole document undoes nothing that an earlier
\* operation of the user has changed (EditsSurvive), for all pages and thunks
\* that keep the three disciplines, however often and however quickly the user
\* clicks and in whatever order requests are handled and answers arrive: the
\* writers of a document hold its lock one at a time, and it is down again only
\* when the store has the document as the server has it.
THEOREM EditsSurviveTheorem ==
    Bracketed /\ Refreshing /\ Guarded => (PageSpec => []EditsSurvive)
<1> SUFFICES ASSUME Bracketed, Refreshing, Guarded
             PROVE  PageSpec => []EditsSurvive
  OBVIOUS
<1>1. PageInit => EditInv
  <2> SUFFICES ASSUME PageInit
               PROVE  EditInv
    OBVIOUS
  <2>1. harm = {}
    BY DEF PageInit
  <2> QED
    BY <2>1, FollowInit, EditInit DEF EditInv, EditsSurvive
<1>2. EditInv /\ [PageNext]_pageVars => EditInv'
  <2> SUFFICES ASSUME EditInv, [PageNext]_pageVars
               PROVE  EditInv'
    OBVIOUS
  <2>1. FollowInv
    BY DEF EditInv
  <2>2. \A d, f, o, g : Locked(page, d, f, o, g) => DocInv(d, f, o, g)
    BY DEF EditInv
  <2>3. CASE \E c \in P.ctl, item \in Items : Click(c, item)
    <3>1. PICK ctl \in P.ctl, item \in Items : Click(ctl, item)
      BY <2>3
    <3>2. page' = page /\ harm' = harm
      BY <3>1 DEF Click
    <3>3. FollowInv'
      BY <2>1, <3>1, FollowClick
    <3>4. \A d, f, o, g : Locked(page, d, f, o, g) => DocInv(d, f, o, g)'
      BY <2>1, <2>2, <3>1, EditClick
    <3> QED
      BY <3>2, <3>3, <3>4 DEF EditInv, EditsSurvive
  <2>4. CASE \E c \in DOMAIN calls : Serve(c)
    <3>1. PICK c \in DOMAIN calls : Serve(c)
      BY <2>4
    <3>2. /\ page' = page /\ harm' \subseteq harm \cup {"clobbered"}
          /\ page \notin Clobbering => harm' = harm
      BY <3>1, NoClobber DEF Serve
    <3>3. FollowInv'
      BY <2>1, <3>1, FollowServe
    <3>4. \A d, f, o, g : Locked(page, d, f, o, g) => DocInv(d, f, o, g)'
      BY <2>1, <2>2, <3>1, EditServe
    <3> QED
      BY <3>2, <3>3, <3>4 DEF EditInv, EditsSurvive
  <2>5. CASE \E c \in DOMAIN calls : Refuse(c) \/ Lose(c)
    <3>1. PICK c \in DOMAIN calls : Refuse(c) \/ Lose(c)
      BY <2>5
    <3>2. page' = page /\ harm' \subseteq harm \cup {"stale"}
      BY <3>1 DEF Refuse, Lose
    <3>3. FollowInv'
      BY <2>1, <3>1, FollowRefuse
    <3>4. \A d, f, o, g : Locked(page, d, f, o, g) => DocInv(d, f, o, g)'
      BY <2>1, <2>2, <3>1, EditRefuse
    <3> QED
      BY <3>2, <3>3, <3>4 DEF EditInv, EditsSurvive
  <2>6. CASE \E c \in DOMAIN calls : Settle(c)
    <3>1. PICK c \in DOMAIN calls : Settle(c)
      BY <2>6
    <3>2. page' = page /\ harm' \subseteq harm \cup {"stale"}
      BY <3>1 DEF Settle
    <3>3. FollowInv'
      BY <2>1, <3>1, FollowSettle
    <3>4. \A d, f, o, g : Locked(page, d, f, o, g) => DocInv(d, f, o, g)'
      BY <2>1, <2>2, <3>1, EditSettle
    <3> QED
      BY <3>2, <3>3, <3>4 DEF EditInv, EditsSurvive
  <2>7. CASE \E c \in DOMAIN calls : SettleEarly(c) \/ Fail(c)
    <3>1. PICK c \in DOMAIN calls : SettleEarly(c) \/ Fail(c)
      BY <2>7
    <3>2. page' = page /\ harm' \subseteq harm \cup {"stale"}
      BY <3>1 DEF SettleEarly, Fail
    <3>3. FollowInv'
      BY <2>1, <3>1, FollowFail
    <3>4. \A d, f, o, g : Locked(page, d, f, o, g) => DocInv(d, f, o, g)'
      BY <2>1, <2>2, <3>1, EditFail
    <3> QED
      BY <3>2, <3>3, <3>4 DEF EditInv, EditsSurvive
  <2>8. CASE UNCHANGED pageVars
    <3>1. /\ page' = page /\ store' = store /\ server' = server /\ busy' = busy
          /\ calls' = calls /\ ready' = ready /\ harm' = harm
      BY <2>8 DEF pageVars
    <3>2. SpinInv'
      BY <2>1, <3>1 DEF FollowInv, SpinInv, CallsInv, Awaited, AnswersFor, HandsOn, Lowers
    <3>3. (Shape /\ UpToDate /\ Flips)'
      BY <2>1, <3>1 DEF FollowInv, Shape, UpToDate, Flips, T
    <3>4. ASSUME NEW d, NEW f, NEW o, NEW g, DocInv(d, f, o, g)
          PROVE  DocInv(d, f, o, g)'
      BY <3>1, <3>4 DEF DocInv, LockInv, Bound, Current, Pending, Opening, P
    <3> QED
      BY <2>2, <3>1, <3>2, <3>3, <3>4 DEF EditInv, FollowInv, EditsSurvive
  <2> QED
    BY <2>3, <2>4, <2>5, <2>6, <2>7, <2>8 DEF PageNext, BagToSet
<1>3. EditInv => EditsSurvive
  BY DEF EditInv
<1> QED
  BY <1>1, <1>2, <1>3, PTL DEF PageSpec
=============================================================================
