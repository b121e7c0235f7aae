--------------------------- MODULE MCFilterLists ---------------------------
(***************************************************************************)
(* Small instances of FilterLists for TLC.                                 *)
(***************************************************************************)
EXTENDS FilterLists

CONSTANTS i1, i2,  u1, u2,  b1, b2,  r1, r2

\* A list that is not configured, and a configured one.
Absent == [where |-> "unused", url |-> None, enabled |-> FALSE,
           checksum |-> Blank]

Listed(where, url, on, checksum) ==
    [where |-> where, url |-> url, enabled |-> on, checksum |-> checksum]

From(url, body) == [body |-> body, from |-> url]

\* One block list with its file, and room for others.
OneList == [i \in Ids |-> IF i = i1 THEN Listed("block", u1, TRUE, b1) ELSE Absent]
OneFile == [i \in Ids |-> IF i = i1 THEN From(u1, b1) ELSE None]

\* A block list with its file, and a list that has not been downloaded yet.
TwoLists(where) == [OneList EXCEPT ![i2] = Listed(where, u2, TRUE, Blank)]
TwoBlockLists == TwoLists("block")
BlockAndAllow == TwoLists("allow")

\* What the lists serve: good bodies, also failures, and a page without rules.
Good      == [u \in Urls |-> Bodies]
Flaky     == [u \in Urls |-> Bodies \cup {Down}]
HalfFixed == [u \in Urls |-> IF u = u1 THEN Bodies ELSE {b2}]
BlankPage == [u \in Urls |-> IF u = u1 THEN {b1} ELSE {Blank}]
AllowDown == [u \in Urls |-> IF u = u1 THEN Bodies ELSE {Down}]

Add(url)    == [op |-> "add", url |-> url, where |-> "block"]
Remove(url) == [op |-> "remove", url |-> url, where |-> "block"]
Set(url, newUrl, on) == [op |-> "set", url |-> url, where |-> "block",
                         newUrl |-> newUrl, enabled |-> on]
SetRules(rules) == [op |-> "rules", rules |-> rules]
Config(on, ivl) == [op |-> "config", enabled |-> on, periodic |-> ivl]
Refresh(where)  == [op |-> "refresh", where |-> where]

EditRequests ==
    {Add(u2), Remove(u1), Set(u1, u2, TRUE), Set(u1, u2, FALSE),
     Set(u2, u2, TRUE), Set(u2, u1, TRUE), Set(u1, u1, FALSE),
     Set(u1, u1, TRUE), SetRules({r1}), Config(FALSE, FALSE)}

ListRequests == {Add(u2), Remove(u1), Config(FALSE, TRUE)}

LiveRequests == {Add(u2), Remove(u1)}

ForcedRefreshes == {Refresh("block"), Refresh("allow")}

Redirect == {Set(u1, u2, TRUE)}

OffAndOn == {Set(u1, u1, FALSE), Set(u1, u1, TRUE)}

AddThenRefresh == {Add(u2), Refresh("block")}

RedirectOff == {Set(u1, u2, FALSE), Set(u2, u2, TRUE)}

RulesOnly == {SetRules({r1})}

NoRequests == {}
=============================================================================
