------------------------------ MODULE DocComment ------------------------------
(***************************************************************************)
(* Comments on Feishu documents (handlers/doc-comment.ts).  The event names *)
(* a comment or a reply and does not carry its text; the handler fetches    *)
(* the comment and the document (feishu.ts, fetchDocComment, fetchDocMeta), *)
(* and people go on writing meanwhile.                                      *)
(*                                                                          *)
(* Feishu is external: the thread of the comment, and what it answers.      *)
(***************************************************************************)
EXTENDS Naturals, Sequences, SequencesExt

CONSTANTS
    Author,     \* people who comment
    ThisBot,    \* the bot of this channel
    NoId,
    PageSize,   \* replies in the answer to one query (Feishu)
    MaxTexts    \* bound

ASSUME CommentAssumption == PageSize \in Nat \ {0} /\ MaxTexts \in Nat

VARIABLES
    ownId,      \* the bot's open_id, NoId if it could not be resolved
    texts,      \* how many texts were written
    thread,     \* the comment's own text and its replies, by number, oldest first
    notices,    \* events on their way
    handlers,   \* events being handled, with what has been fetched for them
    told        \* what was handed on to Claude

commentVars == <<ownId, texts, thread, notices, handlers, told>>

CommentInit ==
    /\ ownId \in {ThisBot, NoId}
    /\ texts = 0 /\ thread = <<>>
    /\ notices = {} /\ handlers = {} /\ told = {}

-----------------------------------------------------------------------------
(* The document (external)                                                  *)

\* The first text is the comment; its event has no reply id.
Write(a) ==
    /\ texts < MaxTexts
    /\ texts' = texts + 1
    /\ thread' = Append(thread, texts')
    /\ notices' = notices \cup {[text |-> texts', reply |-> thread # <<>>, by |-> a]}
    /\ UNCHANGED <<ownId, handlers, told>>

\* A reply is deleted again; the comment itself stays.
Withdraw(i) ==
    /\ i \in 2..Len(thread)
    /\ thread' = RemoveAt(thread, i)
    /\ UNCHANGED <<ownId, texts, notices, handlers, told>>

-----------------------------------------------------------------------------
(* The handler                                                              *)

Asked   == [got |-> "asked", page |-> <<>>]
Missing == [got |-> "missing", page |-> <<>>]

\* Two fetches are begun for an event that can be decoded and is not the bot's
\* own, and both are waited for.
HandleNotice(n) ==
    /\ n \in notices
    /\ notices' = notices \ {n}
    /\ handlers' = IF n.by = ownId THEN handlers
                   ELSE handlers \cup {[event |-> n, comment |-> Asked, meta |-> "asked"]}
    /\ UNCHANGED <<ownId, texts, thread, told>>

Becomes(h, g) == handlers' = (handlers \ {h}) \cup {g} /\ UNCHANGED <<ownId, texts, thread, notices, told>>

\* The whole thread, as far as one page goes.
CommentArrives(h) ==
    /\ h \in handlers /\ h.comment = Asked
    /\ Becomes(h, [h EXCEPT !.comment =
                      [got |-> "comment", page |-> SubSeq(thread, 1, IF Len(thread) < PageSize THEN Len(thread) ELSE PageSize)]])

\* A failure, or a type of document that has no comments to fetch.
CommentMissing(h) ==
    /\ h \in handlers /\ h.comment = Asked
    /\ Becomes(h, [h EXCEPT !.comment = Missing])

\* The document's title and link, or a failure: without them it is named by its token.
MetaSettles(h) ==
    /\ h \in handlers /\ h.meta = "asked"
    /\ Becomes(h, [h EXCEPT !.meta = "settled"])

\* Variation: what was written last is what the event is about.
PickNewest(event, page) == IF page = <<>> THEN 0 ELSE Last(page)

\* The reply of that id; one that is not on the page is taken to be the newest
\* there.  A new comment is the first of its thread.
PickReply(event, page) ==
    IF page = <<>> THEN 0
    ELSE IF ~event.reply THEN Head(page)
    ELSE IF event.text \in ToSet(page) THEN event.text
    ELSE Last(page)

TellComment(h) ==
    /\ h \in handlers /\ h.comment # Asked /\ h.meta # "asked"
    /\ told' = told \cup {[event |-> h.event, shows |-> PickReply(h.event, h.comment.page), page |-> h.comment.page]}
    /\ handlers' = handlers \ {h}
    /\ UNCHANGED <<ownId, texts, thread, notices>>

CommentNext ==
    \/ \E a \in Author \cup {ThisBot} : Write(a)
    \/ \E i \in 2..MaxTexts : Withdraw(i)
    \/ \E n \in notices : HandleNotice(n)
    \/ \E h \in handlers : CommentArrives(h) \/ CommentMissing(h) \/ MetaSettles(h) \/ TellComment(h)

CommentSpec == CommentInit /\ [][CommentNext]_commentVars

-----------------------------------------------------------------------------
(* Properties                                                               *)

\* The text under an event is the text of that event, whatever was written and
\* deleted before it was fetched, unless the page did not hold it
\* (doc-comment.ts, pickReply).
OwnTextIsShown ==
    \A r \in told : r.event.text \in ToSet(r.page) => r.shows = r.event.text
=============================================================================
