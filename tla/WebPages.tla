------------------------------ MODULE WebPages ------------------------------
(***************************************************************************)
(* A browser page of one of the two web clients at work: its store, the    *)
(* server's documents behind it, and the requests in flight between them.  *)
(*                                                                         *)
(* Requests are served in any order and their answers arrive in any order  *)
(* (each is an HTTP request of its own); a request can be refused, and an  *)
(* answer can be lost after the server has done the work.  The handlers of *)
(* an answer run to completion: the browser has one thread.                *)
(***************************************************************************)
EXTENDS WebRows, Naturals, Sequences, SequencesExt, Bags

CONSTANTS AllPages,     \* page -> what it shows, requests and offers
          ThunksOf,     \* page -> the thunks of its client
          Shown,        \* the pages that may be open
          MaxClicks,    \* how often the user operates a control
          MaxTrouble    \* how many requests are refused or answers lost

(* The thunks that a page can start, directly or from one another. *)
Ops ==
    [p \in Shown |->
       LET pg == AllPages[p]
           After(ops) == ops \union UNION {Range(ThunksOf[p][op].next) : op \in ops}
       IN  After(After(Range(pg.mount) \union Range(pg.shown)
                          \union UNION {{c.op} \union Range(c.also) : c \in pg.ctl}))]

(* The documents that they read or write. *)
AllDocs ==
    [p \in Shown |->
       LET rows == {ThunksOf[p][op] : op \in Ops[p]}
       IN  (UNION {DocsOf(row) \union {row.doc} : row \in rows}) \ {NoDoc}]

(* The flags that keep the user from something on a page. *)
Watched ==
    [p \in Shown |->
       (AllPages[p].loader \union UNION {c.off : c \in AllPages[p].ctl})
          \ {"services.missing"}]

(* The documents whose copy in the store is also the draft of a form. *)
Drafts == {"tls", "rebind", "odoh", "telegram"}

VARIABLES page,     \* the page that is open
          store,    \* document -> the items the page shows as on
          server,   \* document -> the items that are on
          busy,     \* the flags that are raised
          calls,    \* the requests in flight, a bag
          ready,    \* the page is not hidden by its loader any more
          clicks, trouble,
          harm      \* "stale": a failure or a race excuses the page for being
                    \* out of date; "clobbered": an edit has been undone

pageVars == <<page, store, server, busy, calls, ready, clicks, trouble, harm>>

P == AllPages[page]
T(op) == ThunksOf[page][op]
Docs == AllDocs[page]

NoItem == "no item"

-----------------------------------------------------------------------------
(* A request as it leaves: v is the new state of the item, base the answer *)
(* of the step before, st the store at that moment.                        *)
Request(op, item, v, base, owes, st) ==
    LET row == T(op)
        body == CASE row.sends \in {"put", "draft"} ->
                       WithItem(st[row.doc], item, v)
                  [] row.sends = "putAnswer" -> WithItem(base[row.doc], item, v)
                  [] row.sends = "hold" -> base[row.doc]
                  [] OTHER -> {}
    IN  [op |-> op, item |-> item, v |-> v, body |-> body, left |-> row.parts,
         ans |-> <<>>, phase |-> "sent", owes |-> owes]

(* Thunks started by the page itself. *)
Requests(ops, st) ==
    SetToBag({Request(op, NoItem, FALSE, <<>>, {}, st) : op \in Range(ops)})

(* The request c in flight has become the requests in cs. *)
Becomes(c, cs) == (calls (-) SetToBag({c})) (+) SetToBag(cs)

SetBy(ops) == UNION {T(op).set : op \in Range(ops)}

(* The page is mounted over an empty store; a page that requests nothing
   was filled by an earlier one.  At the server one item of every document is
   on and one is off. *)
PageInit ==
    /\ page \in Shown
    /\ server = [d \in Docs |-> {"x"}]
    /\ store = IF P.mount = <<>> THEN server ELSE [d \in Docs |-> {}]
    /\ calls = Requests(P.mount, store)
    /\ busy = P.raised \union SetBy(P.mount)
    /\ ready = (P.loader = {})
    /\ clicks = 0 /\ trouble = 0
    /\ harm = {}

-----------------------------------------------------------------------------
(* What the user wants the item to be. *)
Wish(row, item) ==
    \/ row.to = "on"
    \/ /\ row.to # "off"
       /\ IF row.doc # NoDoc THEN item \notin store[row.doc]
          ELSE \A d \in DocsOf(row) : item \notin store[d]

(* Mutant: the page is drawn although not everything has been loaded. *)
VisibleAlways(flags) == TRUE

(* The page can be seen while these flags are up. *)
Visible(flags) == P.loader \intersect flags = {} \/ (ready /\ ~P.hides)

(* The user operates a control that is neither disabled nor hidden. *)
Click(c, item) ==
    LET row == T(c.op)
        st == IF row.early THEN [store EXCEPT ![row.doc] = @ \ {item}] ELSE store
    IN  /\ clicks < MaxClicks
        /\ ready
        /\ c.off \intersect busy = {}
        /\ clicks' = clicks + 1
        /\ store' = st
        /\ busy' = busy \union row.set \union c.holds \union SetBy(c.also)
        /\ calls' = calls (+) SetToBag(
             {Request(op, item, Wish(row, item), <<>>,
                      IF op = c.op THEN c.holds ELSE {}, st) :
                op \in {c.op} \union Range(c.also)})
        /\ ready' = Visible(busy')
        /\ UNCHANGED <<page, server, trouble, harm>>

(* What the documents are once the server has handled a request. *)
Handled(c) ==
    LET row == T(c.op)
    IN  CASE row.sends = "patch" ->
               [server EXCEPT ![row.doc] = WithItem(@, c.item, c.v)]
          [] row.sends = "wipe" ->
               [server EXCEPT ![row.doc] = WithItem({}, c.item, c.v)]
          [] row.sends \in {"put", "putAnswer"} ->
               [server EXCEPT ![row.doc] = c.body]
          [] OTHER -> server

(* The request undoes an item it was not about, although the page it was
   sent from had no reason to be out of date. *)
Clobbers(c) ==
    LET row == T(c.op)
    IN  /\ "stale" \notin harm
        /\ row.sends \in {"put", "putAnswer", "wipe"}
        /\ Handled(c)[row.doc] \ {c.item} # server[row.doc] \ {c.item}

(* The server handles a request, or one of the requests of a Promise.all. *)
Serve(c) ==
    /\ c.phase = "sent"
    /\ server' = Handled(c)
    /\ \E part \in (IF c.left = {} THEN {{}} ELSE c.left) :
         calls' = Becomes(c,
            {[c EXCEPT !.ans = [d \in DOMAIN @ \union part |->
                                  IF d \in part THEN server'[d] ELSE @[d]],
                       !.left = @ \ {part},
                       !.phase = IF c.left \ {part} = {} THEN "ok" ELSE @]})
    /\ harm' = harm \union (IF Clobbers(c) THEN {"clobbered"} ELSE {})
    /\ UNCHANGED <<page, store, busy, ready, clicks, trouble>>

(* The server refuses, having done nothing.  A page that could not load or
   reload what it shows, or that had changed it in advance, is out of date. *)
Refuse(c) ==
    LET row == T(c.op)
    IN  /\ c.phase = "sent"
        /\ trouble < MaxTrouble
        /\ trouble' = trouble + 1
        /\ calls' = Becomes(c, {[c EXCEPT !.phase = "err"]})
        /\ harm' = harm \union (IF row.sends \in {"nothing", "hold"} \/ row.early
                                THEN {"stale"} ELSE {})
        /\ UNCHANGED <<page, store, server, busy, ready, clicks>>

(* The server has done the work, but its answer does not arrive. *)
Lose(c) ==
    /\ c.phase = "ok"
    /\ trouble < MaxTrouble
    /\ trouble' = trouble + 1
    /\ calls' = Becomes(c, {[c EXCEPT !.phase = "err"]})
    /\ harm' = harm \union {"stale"}
    /\ UNCHANGED <<page, store, server, busy, ready, clicks>>

-----------------------------------------------------------------------------
(* Mutant: the store takes over answers only, not the changes it has sent. *)
KeptAnswers(c) ==
    [d \in DOMAIN store |->
       IF T(c.op).keeps = "answer" /\ d \in DOMAIN c.ans THEN c.ans[d] ELSE store[d]]

(* What the success handler writes into the store. *)
Kept(c) ==
    LET row == T(c.op)
    IN  CASE row.keeps = "answer" ->
               [d \in DOMAIN store |->
                  IF d \in DOMAIN c.ans /\ ~(ready /\ d \in P.frozen)
                  THEN c.ans[d] ELSE store[d]]
          [] row.keeps = "flip" ->
               [store EXCEPT ![row.doc] = WithItem(@, c.item, c.item \notin @)]
          [] row.keeps = "patch" ->
               [store EXCEPT ![row.doc] = WithItem(@, c.item, c.v)]
          [] row.keeps = "put" -> [store EXCEPT ![row.doc] = c.body]
          [] OTHER -> store

(* The call c holds, or will leave in the store, something else than value
   for the document d. *)
Carries(c, d, value) ==
    LET row == T(c.op)
    IN  \/ d \in DOMAIN c.ans /\ c.ans[d] # value
        \/ row.doc = d /\ row.sends = "hold" /\ c.body # value
        \/ row.doc = d /\ row.keeps = "flip"
        \/ /\ row.doc = d /\ c.phase = "ok" /\ row.keeps = "patch"
           /\ (c.item \in value) # c.v
        \/ /\ row.doc = d /\ c.phase = "ok" /\ row.keeps = "put"
           /\ c.body # value

(* Another answer on its way disagrees with this one: whichever arrives
   last decides what the page shows. *)
Overtakes(c) ==
    \E other \in BagToSet(Becomes(c, {})) :
       \E d \in (DOMAIN c.ans \union {T(c.op).doc}) \ {NoDoc} :
          Carries(other, d, Kept(c)[d])

(* The thunks that the handler starts; the last one takes over the flags
   that stay up until it has settled. *)
Started(c, st) ==
    LET next == T(c.op).next
        owes == c.owes \union T(c.op).owes
    IN  {Request(op, c.item, c.v, c.ans, IF op = Last(next) THEN owes ELSE {}, st) :
           op \in Range(next)}

(* A handler has run: the flags come down, the thunks that it starts raise
   theirs, and what waited behind the loader may appear. *)
Return(c, st, lowered, next) ==
    LET flags == ((busy \ lowered) \ (IF next = <<>> THEN c.owes ELSE {}))
                    \union SetBy(next)
        appear == ~ready /\ Visible(flags)
    IN  /\ store' = st
        /\ ready' = Visible(flags)
        /\ busy' = flags \union (IF appear THEN SetBy(P.shown) ELSE {})
        /\ calls' = Becomes(c, IF next = <<>> THEN {} ELSE Started(c, st))
                       (+) (IF appear THEN Requests(P.shown, st) ELSE EmptyBag)

(* An answer arrives and the success handler runs. *)
Settle(c) ==
    /\ c.phase = "ok"
    /\ Return(c, Kept(c), T(c.op).done, T(c.op).next)
    /\ harm' = harm \union (IF Overtakes(c) THEN {"stale"} ELSE {})
    /\ UNCHANGED <<page, server, clicks, trouble>>

(* The success handler finds that there is nothing more to ask for. *)
SettleEarly(c) ==
    /\ c.phase = "ok"
    /\ T(c.op).stops
    /\ Return(c, store, T(c.op).fail, <<>>)
    /\ harm' = harm \union {"stale"}
    /\ UNCHANGED <<page, server, clicks, trouble>>

(* Mutant: the error is swallowed on the way, and no catch block runs. *)
FailSwallowed(c) ==
    /\ c.phase = "err"
    /\ Return(c, store, {}, <<>>)
    /\ UNCHANGED <<page, server, clicks, trouble, harm>>

(* The catch block: an error toast, and the flags come down.  A thunk that
   catches its own failure returns to its caller as if nothing had happened. *)
Fail(c) ==
    /\ c.phase = "err"
    /\ Return(c, store, T(c.op).fail \union T(c.op).owes,
              IF T(c.op).anyway THEN T(c.op).next ELSE <<>>)
    /\ UNCHANGED <<page, server, clicks, trouble, harm>>

PageNext ==
    \/ \E c \in P.ctl, item \in Items : Click(c, item)
    \/ \E c \in BagToSet(calls) :
         Serve(c) \/ Refuse(c) \/ Lose(c) \/ Settle(c) \/ SettleEarly(c) \/ Fail(c)

PageSpec == PageInit /\ [][PageNext]_pageVars

-----------------------------------------------------------------------------
(* No spinner turns for ever: whatever was refused or lost and in whatever
   order the answers came, once no request is in flight every flag that
   disables a control of the page, or hides the page, is down.  (The services
   page of v1, which waits for its first list, is the exception.) *)
SpinnersEnd == calls = EmptyBag => busy \intersect Watched[page] = {}

(* The flags that the thunk op is sure to lower itself, or to leave to the
   last thunk that it starts, whether its request succeeds or fails and even
   if the success handler returns before it starts anything. *)
Lowers(p, op) ==
    LET row == ThunksOf[p][op]
    IN  {f \in row.fail \union row.owes :
           /\ f \in row.done \/ (row.next # <<>> /\ f \in row.owes)
           /\ row.stops => f \in row.fail}

(* The flags that it lowers when it fails and, when it succeeds, leaves to a
   thunk that it starts: those of an operation with several requests. *)
HandsOn(p, op) ==
    LET row == ThunksOf[p][op]
    IN  row.fail \intersect UNION {Lowers(p, n) : n \in Range(row.next)}

(* The discipline that the stores of both clients keep: whoever raises a flag
   that the user has to wait for sees to it that it is lowered on every path,
   and the flags that are up from the start belong to a request of the page. *)
Bracketed ==
    \A p \in Shown :
       LET pg == AllPages[p]
           Clears(op) == Lowers(p, op) \union HandsOn(p, op)
       IN  /\ pg.raised \intersect Watched[p]
                 \subseteq UNION {Clears(op) : op \in Range(pg.mount)}
           /\ \A op \in Ops[p] :
                 LET row == ThunksOf[p][op]
                 IN  /\ row.set \intersect Watched[p] \subseteq Clears(op)
                     /\ Range(row.next) \subseteq Ops[p]
                     /\ row.next # <<>> => Last(row.next) \in Range(row.next)

(* Once no request is in flight, the page shows what the server has, unless
   loading it has failed, an answer was lost, an edit was undone, or two answers
   with different contents overtook each other. *)
Converged ==
    calls = EmptyBag /\ harm = {} =>
       \A d \in P.docs \ Drafts : store[d] = server[d]

(* The thunks that a page starts without the user's choosing them. *)
SelfStarted(p) ==
    LET pg == AllPages[p]
    IN  Range(pg.mount) \union Range(pg.shown) \union UNION {Range(c.also) : c \in pg.ctl}

(* The documents that a page is to show as they are at the server. *)
Followed(p) == AllPages[p].docs \ Drafts

(* The thunk op holds the document d, which was answered to the step before,
   and leaves it in the store. *)
Holds(p, op, d) ==
    LET row == ThunksOf[p][op]
    IN  row.sends = "hold" /\ row.doc = d /\ row.keeps = "put"

(* It requests d, and leaves it in the store itself or through the thunk that
   it starts. *)
Loads(p, op, d) ==
    LET row == ThunksOf[p][op]
    IN  /\ row.sends = "nothing" /\ d \in DocsOf(row)
        /\ row.keeps = "answer" \/ \E n \in Range(row.next) : Holds(p, n, d)

(* It loads d, at once or after a request for something else. *)
Reloads(p, op, d) ==
    LET row == ThunksOf[p][op]
    IN  \/ Loads(p, op, d)
        \/ row.sends = "nothing" /\ \E n \in Range(row.next) : Loads(p, n, d)

Writing == {"patch", "wipe", "put", "putAnswer"}

(* What the handlers of a thunk do for the documents that the page follows:
   a change that the server has made is taken over or the document is loaded
   again; what is taken over is what was sent; and a document that is held
   until a second answer comes was read for that alone. *)
Follows(p, op) ==
    LET row == ThunksOf[p][op]
        followed == row.doc \in Followed(p)
    IN  /\ followed => ~row.early
        /\ followed /\ row.sends \in Writing =>
              /\ row.parts = {}
              /\ \/ row.keeps \in {"patch", "put", "flip"}
                 \/ \E n \in Range(row.next) : Reloads(p, n, row.doc)
        /\ followed /\ row.keeps = "put" => row.sends \in {"put", "putAnswer", "hold"}
        /\ followed /\ row.keeps \in {"patch", "flip"} => row.sends \in Writing
        /\ \A n \in Range(row.next) :
              LET after == ThunksOf[p][n]
              IN  /\ after.keeps # "flip"
                  /\ after.sends = "hold" /\ after.doc \in Followed(p) =>
                        /\ row.sends = "nothing" /\ row.keeps = "nothing" /\ ~row.anyway
                        /\ after.doc \in DocsOf(row)

(* The discipline that the stores of both clients keep so that their pages
   show what the server has: a page loads what it shows, the thunks follow
   what they change, and a switch that is turned over when the answer comes is
   turned over by the click on it alone. *)
Refreshing ==
    \A p \in Shown :
       LET pg == AllPages[p]
           Thunk(op) == ThunksOf[p][op]
       IN  /\ Followed(p) \subseteq AllDocs[p] \ pg.frozen
           /\ pg.mount # <<>> =>
                 \A d \in Followed(p) : \E op \in Range(pg.mount) : Reloads(p, op, d)
           /\ \A op \in Ops[p] : Follows(p, op)
           /\ \A op \in SelfStarted(p) : Thunk(op).sends # "hold" /\ Thunk(op).keeps # "flip"
           /\ \A c \in pg.ctl : /\ Thunk(c.op).sends # "hold"
                                /\ Thunk(c.op).keeps = "flip" =>
                                      Thunk(c.op).to = "flip" /\ Thunk(c.op).doc # NoDoc

(* The pages on which a second click, or one before everything has arrived,
   sends back a document that is out of date. *)
Clobbering ==
    {"services", "footer", "upstreams", "settings", "relayCards", "telegram",
     "encryption", "dashboard", "logRows", "access", "userRules1", "services1",
     "settings1", "encryption1", "logRows1", "footer1"}

(* On all other pages a request that replaces a whole document undoes nothing
   that an earlier operation of the user has changed, however quickly the
   controls are operated: they are disabled, or hidden, for long enough. *)
EditsSurvive == page \notin Clobbering => "clobbered" \notin harm

(* The same of every page.  (It does not hold: README, known disagreements.) *)
AllEditsSurvive == "clobbered" \notin harm

Writes(p, op, d) == ThunksOf[p][op].doc = d /\ ThunksOf[p][op].sends \in Writing

(* The thunk op requests d and leaves it in the store. *)
Fetches(p, op, d) ==
    LET row == ThunksOf[p][op]
    IN  row.sends = "nothing" /\ row.keeps = "answer" /\ d \in DocsOf(row)

(* The flag f is a lock: it is raised by controls that it disables, and comes
   down with the request of the control or with the one request that is started
   in turn to take it over. *)
Locks(p, f) ==
    LET pg == AllPages[p]
        Bears(op) == f \in ThunksOf[p][op].fail
    IN  /\ \A op \in SelfStarted(p) : ~Bears(op)
        /\ \A c \in pg.ctl : f \in c.holds \/ Bears(c.op) =>
              /\ f \in c.off
              /\ f \in c.holds \union ThunksOf[p][c.op].set
        /\ (\E c \in pg.ctl : f \in c.holds) => \A op \in Ops[p] : ~Bears(op)
        /\ \A op \in Ops[p] :
              LET row == ThunksOf[p][op]
                  after == {n \in Range(row.next) : Bears(n)}
              IN  /\ f \notin row.owes
                  /\ f \in row.done => Bears(op)
                  /\ after # {} => Bears(op) /\ f \notin row.done /\ ~row.anyway
                  /\ \A m, n \in after : m = n

(* Whoever writes the document d is locked out by f until the store has it. *)
Guards(p, d, f) ==
    LET pg == AllPages[p]
        Bears(op) == f \in ThunksOf[p][op].fail
    IN  /\ \A op \in SelfStarted(p) : ~Writes(p, op, d)
        /\ \A c \in pg.ctl : Writes(p, c.op, d) =>
              ThunksOf[p][c.op].sends = "put" /\ (f \in c.holds \/ Bears(c.op))
        /\ \A op \in Ops[p] :
              LET row == ThunksOf[p][op]
              IN  /\ ~(row.doc = d /\ row.sends = "hold")
                  /\ Writes(p, op, d) =>
                        /\ row.sends \in {"put", "putAnswer"}
                        /\ \/ row.keeps = "put"
                           \/ /\ row.keeps = "nothing" /\ row.next # <<>> /\ ~Bears(op)
                              /\ Fetches(p, Last(row.next), d)
                  /\ \A n \in Range(row.next) : Writes(p, n, d) =>
                        /\ ThunksOf[p][n].sends = "putAnswer" /\ Bears(n)
                        /\ row.sends = "nothing" /\ d \in DocsOf(row)

(* The page is hidden behind g until the thunk op, which it starts when it is
   mounted, has put d into the store. *)
Opens(p, d, op, g) ==
    LET pg == AllPages[p]
    IN  /\ op \in Range(pg.mount) /\ Fetches(p, op, d)
        /\ g \in pg.loader /\ g \in pg.raised \union ThunksOf[p][op].set
        /\ \A c \in pg.ctl : g \notin c.holds
        /\ \A o \in Ops[p] :
              LET row == ThunksOf[p][o]
              IN  g \notin row.owes /\ (o # op => g \notin row.done \union row.fail)

(* The discipline of the pages that undo nothing: a document that is sent back
   whole is loaded before the page can be seen, and locked while it changes. *)
Guarded ==
    \A p \in Shown \ Clobbering : \A op \in Ops[p] :
       LET row == ThunksOf[p][op]
       IN  row.sends \in {"put", "putAnswer", "wipe"} =>
             /\ row.doc \in Followed(p)
             /\ \E f \in UNION {c.off : c \in AllPages[p].ctl} :
                   Locks(p, f) /\ Guards(p, row.doc, f)
             /\ \E o \in Range(AllPages[p].mount), g \in AllPages[p].loader :
                   Opens(p, row.doc, o, g)
=============================================================================
