------------------------------ MODULE WebRows -------------------------------
(***************************************************************************)
(* The vocabulary in which the two web clients' stores and pages are       *)
(* written down (modules ClientV1 and ClientV2).                           *)
(*                                                                         *)
(* A thunk is an asynchronous store operation: it raises some "processing" *)
(* flags, sends one request, and when the answer (or the failure) comes    *)
(* back it updates the store, lowers the flags and may start other thunks. *)
(* Everything between two awaits is one atomic step of the browser.        *)
(*                                                                         *)
(* A document is what one endpoint returns or replaces.  It is abstracted  *)
(* to the set of its items (lines, entries, switches) that are on.         *)
(***************************************************************************)

Items == {"x", "y"}

NoDoc == "no document"

(***************************************************************************)
(* The fields of a thunk:                                                  *)
(*   set    flags raised when it starts                                    *)
(*   doc    the document it writes; to, whether the item that the user     *)
(*          picks is switched "on", "off" or to the opposite of what the   *)
(*          store shows ("flip"), or left as it is ("same")                *)
(*   sends  "nothing"; "patch", the item alone; "put", the whole document  *)
(*          as the store holds it with the item changed; "putAnswer", the  *)
(*          same from the answer of the step before; "wipe", the item      *)
(*          alone to an endpoint that clears the rest; "draft", a whole    *)
(*          document that the server only looks at; "hold", nothing, but   *)
(*          the document answered to the step before is held               *)
(*   parts  the documents each of its requests is answered with            *)
(*   keeps  what the store takes over on success: the "answer", the item   *)
(*          ("patch"), the document sent ("put"), "nothing", or the        *)
(*          opposite of what it shows of the item by then ("flip")         *)
(*   done, fail   flags lowered on success and on failure                  *)
(*   next   thunks started on success                                      *)
(*   owes   flags lowered only when the thunks of next have settled        *)
(*   early  the store's item is switched off before the request is sent    *)
(*   stops  the success handler may return without starting next           *)
(*   anyway next is started after a failure, too                           *)
(***************************************************************************)
Row == [set |-> {}, doc |-> NoDoc, to |-> "flip",
        sends |-> "nothing", parts |-> {}, keeps |-> "nothing", done |-> {},
        fail |-> {}, next |-> <<>>, owes |-> {}, early |-> FALSE,
        stops |-> FALSE, anyway |-> FALSE]

(* A request for documents. *)
Get(parts) == [Row EXCEPT !.parts = parts]

(* A change of one item that the server applies to its own copy. *)
Change(doc, to) == [Row EXCEPT !.doc = doc, !.to = to, !.sends = "patch"]

(* A replacement of the whole document by the store's copy, edited. *)
Replace(doc, to) == [Change(doc, to) EXCEPT !.sends = "put"]

(* A flag that is up until the thunk has settled. *)
Under(flag, row) ==
    [row EXCEPT !.set = {flag}, !.done = {flag}, !.fail = {flag}]

(* The same under a flag of their own. *)
Fetch(flag, parts) == [Under(flag, Get(parts)) EXCEPT !.keeps = "answer"]
Patch(flag, doc, to) == Under(flag, Change(doc, to))
Put(flag, doc, to) == Under(flag, Replace(doc, to))

(* The success handler also writes what was sent into the store. *)
Keeping(row) ==
    [row EXCEPT !.keeps = IF row.sends = "patch" \/ row.sends = "wipe"
                          THEN "patch" ELSE "put"]

(* The success handler starts other thunks. *)
Then(row, next) == [row EXCEPT !.next = next]

(* A request that changes no document. *)
Ask(flag) == Under(flag, Row)

DocsOf(row) == UNION row.parts

(***************************************************************************)
(* A control: the thunk that it starts, the flags that disable it, the     *)
(* thunks that it starts along with it, and the flags of its own component *)
(* that are up until the thunk has settled.                                *)
(* A page: the documents it shows; the flags that the store raises before  *)
(* anything is requested; the thunks started when it is mounted; the flags *)
(* that hide it behind a loader, until they are first down or, on a page   *)
(* that hides, whenever one of them is up; the thunks that the parts       *)
(* behind the loader start when they appear; the documents that its forms  *)
(* copy when they appear and do not follow later; and its controls.        *)
(***************************************************************************)
On(op, off) == [op |-> op, off |-> off, also |-> <<>>, holds |-> {}]

(* A control whose handler starts several thunks at once. *)
OnAll(op, off, also) == [On(op, off) EXCEPT !.also = also]

(* A control that is also disabled by flags of its component, which the
   handler raises and lowers once the thunk has settled. *)
OnHolding(op, off, holds) == [On(op, off \union holds) EXCEPT !.holds = holds]

Page(docs, raised, mount, loader, ctl) ==
    [docs |-> docs, raised |-> raised, mount |-> mount, loader |-> loader,
     hides |-> FALSE, shown |-> <<>>, frozen |-> {}, ctl |-> ctl]

(* The parts of a page behind its loader start thunks of their own. *)
Showing(pg, ops) == [pg EXCEPT !.shown = ops]

(* The loader replaces the page whenever one of its flags is up. *)
Hiding(pg) == [pg EXCEPT !.hides = TRUE]

(* The page's forms start from a copy of these documents. *)
Copying(pg, docs) == [pg EXCEPT !.frozen = docs]

WithItem(doc, i, on) == IF on THEN doc \union {i} ELSE doc \ {i}
=============================================================================
