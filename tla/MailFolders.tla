---------------------------- MODULE MailFolders ----------------------------
(***************************************************************************)
(* Reading mail in the browser.  Every request opens its own IMAP          *)
(* connection; between two of them, and between two commands of one, other *)
(* clients deliver, move and expunge messages.  A browser walks through a  *)
(* folder page by page, newest first, with the UID of the last message it  *)
(* was shown as the cursor.                                                *)
(***************************************************************************)
EXTENDS Naturals, Sequences, FiniteSets

CONSTANTS
    MaxUid,   \* bound on the UIDs handed out in the folder
    Limit     \* messages per page

\* List replaces a limit that is not positive.
ASSUME LimitAssumption == Limit \in Nat \ {0}

VARIABLES
    held,        \* the UIDs in the folder
    uidnext,     \* the UID that the next message gets
    marked,      \* the messages with \Deleted
    pager,       \* the browser's walk
    deleting,    \* requests that set \Deleted and have yet to expunge
    asked,       \* messages that someone asked to move or delete (history)
    throughout,  \* messages there since the walk began (history)
    stale        \* a cursor of the walk was gone when it was used (history)

foldersVars == <<held, uidnext, marked, pager, deleting, asked, throughout, stale>>

Walk(stage, cursor, ids, page, shown) ==
    [stage |-> stage, cursor |-> cursor, ids |-> ids, page |-> page, shown |-> shown]

Members(s) == {s[i] : i \in 1..Len(s)}

-----------------------------------------------------------------------------
(* Listing                                                                  *)

\* What UID SEARCH finds, sorted: newest first.
NewestFirst(s) == \A i, j \in 1..Len(s) : i < j => s[i] > s[j]

messageIDs ==
    CHOOSE s \in [1..Cardinality(held) -> held] : Members(s) = held /\ NewestFirst(s)

\* The IDs after the cursor, and none when the cursor is not among them.
afterCursor(ids, cursor) ==
    IF cursor = 0 THEN ids
    ELSE IF cursor \in Members(ids)
         THEN SubSeq(ids, 1 + CHOOSE i \in 1..Len(ids) : ids[i] = cursor, Len(ids))
         ELSE <<>>

AtMost(n, s) == SubSeq(s, 1, IF Len(s) < n THEN Len(s) ELSE n)

OpenFolder ==
    /\ pager.stage \in {"none", "end"}
    /\ pager' = Walk("search", 0, <<>>, <<>>, <<>>)
    /\ throughout' = held
    /\ stale' = FALSE
    /\ UNCHANGED <<held, uidnext, marked, deleting, asked>>

\* SELECT and UID SEARCH; the page is one message longer than what is shown.
SearchPage ==
    /\ pager.stage = "search"
    /\ pager' = Walk("fetch", pager.cursor,
                     AtMost(Limit + 1, afterCursor(messageIDs, pager.cursor)),
                     <<>>, pager.shown)
    /\ stale' = (stale \/ (pager.cursor # 0 /\ pager.cursor \notin held))
    /\ UNCHANGED <<held, uidnext, marked, deleting, asked, throughout>>

\* UID FETCH of one summary.  A message that is gone by now fails the page,
\* and the browser asks for the same page again.
FetchSummary ==
    /\ pager.stage = "fetch"
    /\ pager.ids # <<>>
    /\ pager' = IF Head(pager.ids) \in held
                THEN Walk("fetch", pager.cursor, Tail(pager.ids),
                          Append(pager.page, Head(pager.ids)), pager.shown)
                ELSE Walk("search", pager.cursor, <<>>, <<>>, pager.shown)
    /\ UNCHANGED <<held, uidnext, marked, deleting, asked, throughout, stale>>

NextCursorPastPage(page) == IF Len(page) > Limit THEN page[Len(page)] ELSE 0

\* The cursor of the next page, if there is more than this one shows.
NextCursor(page) == IF Len(page) > Limit THEN page[Limit] ELSE 0

ShowPage ==
    /\ pager.stage = "fetch"
    /\ pager.ids = <<>>
    /\ pager' = Walk(IF NextCursor(pager.page) = 0 THEN "end" ELSE "search",
                     NextCursor(pager.page), <<>>, <<>>,
                     pager.shown \o AtMost(Limit, pager.page))
    /\ UNCHANGED <<held, uidnext, marked, deleting, asked, throughout, stale>>

-----------------------------------------------------------------------------
(* Changing                                                                 *)

\* The messages that the folder has lost are no longer there throughout.
Without(gone) ==
    /\ held' = held \ gone
    /\ marked' = marked \ gone
    /\ throughout' = throughout \ gone

Deliver ==
    /\ uidnext <= MaxUid
    /\ held' = held \cup {uidnext}
    /\ uidnext' = uidnext + 1
    /\ UNCHANGED <<marked, pager, deleting, asked, throughout, stale>>

\* UID MOVE to another folder is one command; a UID that is not there moves
\* nothing.
Move(u) ==
    /\ u < uidnext
    /\ Without({u})
    /\ asked' = asked \cup {u}
    /\ UNCHANGED <<uidnext, pager, deleting, stale>>

\* Another client marks a message, and may take the mark back.
MarkElsewhere(u) ==
    /\ u \in held
    /\ marked' = IF u \in marked THEN marked \ {u} ELSE marked \cup {u}
    /\ UNCHANGED <<held, uidnext, pager, deleting, asked, throughout, stale>>

\* Delete: UID STORE +FLAGS.SILENT (\Deleted) ...
StoreDeleted(u) ==
    /\ u \notin deleting
    /\ u < uidnext
    /\ marked' = marked \cup ({u} \cap held)
    /\ asked' = asked \cup {u}
    /\ deleting' = deleting \cup {u}
    /\ UNCHANGED <<held, uidnext, pager, throughout, stale>>

\* ... then UID EXPUNGE of the same message, if it still has its mark.
Expunge(u) ==
    /\ u \in deleting
    /\ deleting' = deleting \ {u}
    /\ Without({u} \cap marked)
    /\ UNCHANGED <<uidnext, pager, asked, stale>>

\* The connection is lost between the two.
DeleteFails(u) ==
    /\ u \in deleting
    /\ deleting' = deleting \ {u}
    /\ UNCHANGED <<held, uidnext, marked, pager, asked, throughout, stale>>

-----------------------------------------------------------------------------

FoldersInit ==
    /\ held = {}
    /\ uidnext = 1
    /\ marked = {}
    /\ pager = Walk("none", 0, <<>>, <<>>, <<>>)
    /\ deleting = {}
    /\ asked = {}
    /\ throughout = {}
    /\ stale = FALSE

FoldersNext ==
    \/ OpenFolder \/ SearchPage \/ FetchSummary \/ ShowPage
    \/ Deliver
    \/ \E u \in 1..MaxUid : \/ Move(u)
                            \/ MarkElsewhere(u)
                            \/ StoreDeleted(u)
                            \/ Expunge(u)
                            \/ DeleteFails(u)

FoldersSpec == FoldersInit /\ [][FoldersNext]_foldersVars

-----------------------------------------------------------------------------

\* A walk shows no message twice, whatever arrives, is moved or expunged
\* while the browser follows NextCursor from page to page.
NeverTwice ==
    \A i, j \in 1..Len(pager.shown) : pager.shown[i] = pager.shown[j] => i = j

\* A walk that comes to its end has shown every message that was in the folder
\* from its first page to its last, unless a cursor was expunged or moved
\* before it was used: afterCursor then returns nothing and the walk just
\* ends.
WalkIsComplete ==
    pager.stage = "end" /\ ~stale => throughout \subseteq Members(pager.shown)

\* A message is only ever removed from the folder because someone asked to
\* move or to delete it: Delete expunges its own UID, not the messages that
\* other clients or an interrupted Delete have marked.
RemovedWasAsked ==
    \A u \in 1..(uidnext - 1) : u \notin held => u \in asked

\* No message is lost to its reader: it leaves the folder only when somebody
\* asked for it, and a walk through the folder shows what stayed, once.
NothingIsLost == NeverTwice /\ WalkIsComplete /\ RemovedWasAsked
=============================================================================
