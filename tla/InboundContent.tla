---------------------------- MODULE InboundContent ----------------------------
(***************************************************************************)
(* How the body of an inbound message is turned into what Claude reads     *)
(* (inbound-content.ts), with the downloads it waits for (feishu.ts,       *)
(* downloadInboundResource).                                               *)
(*                                                                         *)
(* A message is walked element by element, in one pass, and an image stops *)
(* the walk until its file is on disk or 15 seconds are over.  A transfer  *)
(* that was given up goes on by itself.  What the texts say, and how a     *)
(* placeholder is worded, is left out.                                     *)
(***************************************************************************)
EXTENDS Naturals, Sequences, SequencesExt

CONSTANTS
    Bodies,         \* the messages that may arrive: [type, blocks]
    Elements,       \* the elements they are made of
    Resource,       \* the keys of their images and files
    NoKey, Blank,   \* an image without a key, a text that is empty
    MaxDownloads,   \* downloads of inline images for one message (MAX_INLINE_IMAGE_DOWNLOADS)
    MaxDepth,       \* containers within containers (MAX_CARD_DEPTH)
    MaxNodes        \* elements and fields looked at in a card (MAX_CARD_NODES)

VARIABLES
    body,       \* the message, <<>> before it arrives
    work,       \* what is still to be walked: [el, depth]
    nodes,      \* elements of a card that may still be looked at
    images,     \* downloads of inline images that are left
    parts,      \* what has been rendered
    given,      \* what is handed on to be delivered
    awaited,    \* the transfer the walk waits for, 0 if none
    transfers,  \* the transfers begun: [key, phase]
    files       \* the file of a key: "absent", "partial" or "whole"

contentVars == <<body, work, nodes, images, parts, given, awaited, transfers, files>>

\* An element: its tag, its own text, the cells of a div, the key of its
\* resource, and the elements of its columns and in it.
Element(tag, text, key, fields, columns, elements) ==
    [tag |-> tag, text |-> text, key |-> key, fields |-> fields, columns |-> columns, elements |-> elements]

Inside(el) == FlattenSeq(el.columns) \o el.elements

IsResource(el) == el.tag \in {"img", "image", "file", "archive"}

\* A post or a card shows images; a single image or file is a message of its own.
IsRich(b) == b.type \in {"post", "interactive"}
ByItself(el) == el.tag \in {"image", "file", "archive"}

\* Only a card has containers and divs, and a div is no image.
ASSUME ContentAssumption ==
    /\ {MaxDownloads, MaxDepth, MaxNodes} \subseteq Nat
    /\ \A b \in Bodies : /\ b # <<>> /\ b.blocks \in Seq(Elements)
                         /\ b.type # "interactive" =>
                                \A el \in ToSet(b.blocks) : el.fields = <<>> /\ Inside(el) = <<>>
                         /\ IF IsRich(b) THEN \A el \in ToSet(b.blocks) : ~ByItself(el) ELSE Len(b.blocks) <= 1
    /\ \A el \in Elements : /\ Inside(el) \in Seq(Elements)
                            /\ el.fields \in Seq(ToSet(el.fields))
                            /\ IsResource(el) => el.fields = <<>>
                            /\ \A inner \in ToSet(Inside(el)) : ~ByItself(inner)

Text(t)   == [kind |-> "text", of |-> t]
Path(k)   == [kind |-> "path", of |-> k]
Ref(k)    == [kind |-> "ref", of |-> k]     \* not downloaded: how to fetch it
Bare(tag) == [kind |-> "bare", of |-> tag]  \* a placeholder

ContentInit ==
    /\ body = <<>> /\ work = <<>> /\ parts = <<>> /\ given = <<>>
    /\ nodes = MaxNodes /\ images = MaxDownloads
    /\ awaited = 0 /\ transfers = <<>>
    /\ files = [k \in Resource |-> "absent"]

-----------------------------------------------------------------------------
(* The walk                                                                 *)

Items(els, depth) == [i \in DOMAIN els |-> [el |-> els[i], depth |-> depth]]

\* Content that does not parse, and types that are not looked into, become a
\* placeholder at once.
Arrive(b) ==
    /\ body = <<>>
    /\ body' = b
    /\ IF b.type \in {"unreadable", "other"}
       THEN parts' = <<Bare(b.type)>> /\ UNCHANGED work
       ELSE work' = Items(b.blocks, 0) /\ UNCHANGED parts
    /\ UNCHANGED <<nodes, images, given, awaited, transfers, files>>

IsCard == body.type = "interactive"

\* Past the depth or the budget of a card an element is not looked at.
Skip ==
    /\ awaited = 0 /\ work # <<>>
    /\ IsCard /\ (Head(work).depth > MaxDepth \/ nodes = 0)
    /\ work' = Tail(work)
    /\ UNCHANGED <<body, nodes, images, parts, given, awaited, transfers, files>>

\* The cells of a div count too.
Cells(el) == SubSeq(el.fields, 1, IF Len(el.fields) < nodes THEN Len(el.fields) ELSE nodes - 1)

Written(texts) == FlattenSeq([i \in DOMAIN texts |-> IF texts[i] = Blank THEN <<>> ELSE <<texts[i]>>])

TextsOf(el) ==
    LET written == Written(<<el.text>> \o Cells(el))
    IN  [i \in DOMAIN written |-> Text(written[i])]

\* A single image or a file that can be read is always fetched, an inline image
\* while the budget lasts, whatever became of the others.
Fetches(el) ==
    /\ IsResource(el) /\ el.key # NoKey
    /\ el.tag # "archive"
    /\ el.tag = "img" => images > 0

Unfetchable(el) ==
    IF ~IsResource(el) \/ Fetches(el) THEN <<>>
    ELSE IF el.key = NoKey THEN <<Bare(el.tag)>> ELSE <<Ref(el.key)>>

LeftAfter(el) == IF el.tag = "img" /\ Fetches(el) THEN images - 1 ELSE images

Visit ==
    /\ awaited = 0 /\ work # <<>>
    /\ IsCard => Head(work).depth <= MaxDepth /\ nodes > 0
    /\ LET el == Head(work).el IN
         /\ nodes' = IF IsCard THEN nodes - 1 - Len(Cells(el)) ELSE nodes
         /\ parts' = parts \o TextsOf(el) \o Unfetchable(el)
         /\ work' = Items(Inside(el), Head(work).depth + 1) \o Tail(work)
         /\ images' = LeftAfter(el)
         /\ IF Fetches(el)
            THEN /\ transfers' = Append(transfers, [key |-> el.key, phase |-> "asked"])
                 /\ awaited' = Len(transfers')
            ELSE UNCHANGED <<transfers, awaited>>
    /\ UNCHANGED <<body, given, files>>

\* Variation: an image that could not be fetched leaves nothing.
ResumeOrDrop ==
    /\ awaited # 0 /\ transfers[awaited].phase \in {"done", "failed"}
    /\ parts' = IF transfers[awaited].phase = "done" THEN Append(parts, Path(transfers[awaited].key)) ELSE parts
    /\ awaited' = 0
    /\ UNCHANGED <<body, work, nodes, images, given, transfers, files>>

\* The transfer is over: a failure of any kind leaves a reference.
Resume ==
    /\ awaited # 0 /\ transfers[awaited].phase \in {"done", "failed"}
    /\ LET t == transfers[awaited]
       IN  parts' = Append(parts, IF t.phase = "done" THEN Path(t.key) ELSE Ref(t.key))
    /\ awaited' = 0
    /\ UNCHANGED <<body, work, nodes, images, given, transfers, files>>

\* Variation: only the answer has to come in time, not the bytes after it.
TimeOutOfAnswer ==
    /\ awaited # 0 /\ transfers[awaited].phase = "asked"
    /\ parts' = Append(parts, Ref(transfers[awaited].key))
    /\ awaited' = 0
    /\ UNCHANGED <<body, work, nodes, images, given, transfers, files>>

\* 15 seconds are over: the walk goes on, and so does the transfer.
TimeOut ==
    /\ awaited # 0 /\ transfers[awaited].phase \in {"asked", "writing"}
    /\ parts' = Append(parts, Ref(transfers[awaited].key))
    /\ awaited' = 0
    /\ UNCHANGED <<body, work, nodes, images, given, transfers, files>>

HandOver ==
    /\ body # <<>> /\ work = <<>> /\ awaited = 0 /\ given = <<>>
    /\ given' = IF parts = <<>> THEN <<Bare("empty")>> ELSE parts
    /\ UNCHANGED <<body, work, nodes, images, parts, awaited, transfers, files>>

-----------------------------------------------------------------------------
(* The transfers                                                            *)

Turns(i, phase) == transfers' = [transfers EXCEPT ![i].phase = phase]

\* Feishu answers, the directory is made, and the file is opened for writing.
FileOpened(i) ==
    /\ transfers[i].phase = "asked"
    /\ Turns(i, "writing")
    /\ files' = [files EXCEPT ![transfers[i].key] = "partial"]
    /\ UNCHANGED <<body, work, nodes, images, parts, given, awaited>>

FileWritten(i) ==
    /\ transfers[i].phase = "writing"
    /\ Turns(i, "done")
    /\ files' = [files EXCEPT ![transfers[i].key] = "whole"]
    /\ UNCHANGED <<body, work, nodes, images, parts, given, awaited>>

\* Refused by Feishu, no directory, or a disk that is full.
TransferFails(i) ==
    /\ transfers[i].phase \in {"asked", "writing"}
    /\ Turns(i, "failed")
    /\ UNCHANGED <<body, work, nodes, images, parts, given, awaited, files>>

ContentNext ==
    \/ \E b \in Bodies : Arrive(b)
    \/ Skip \/ Visit \/ Resume \/ TimeOut \/ HandOver
    \/ \E i \in DOMAIN transfers : FileOpened(i) \/ FileWritten(i) \/ TransferFails(i)

\* The walk and the timer go on; nothing is assumed of a transfer.
ContentFairness == WF_contentVars(Skip \/ Visit \/ Resume \/ TimeOut \/ HandOver)

ContentSpec == ContentInit /\ [][ContentNext]_contentVars /\ ContentFairness

-----------------------------------------------------------------------------
(* Properties                                                               *)

\* What a reader sees of an element: its texts and its resource, and in their order the
\* elements in it, down to the depth that is looked at.
Own(el) ==
    Written(<<el.text>> \o el.fields)
    \o (IF IsResource(el) THEN <<IF el.key = NoKey THEN el.tag ELSE el.key>> ELSE <<>>)

Seen ==
    LET seen[d \in 0..MaxDepth + 1] ==
            [el \in Elements |->
                IF d > MaxDepth THEN <<>>
                ELSE Own(el) \o FlattenSeq([i \in DOMAIN Inside(el) |-> seen[d + 1][Inside(el)[i]]])]
    IN  seen

\* One message costs a bounded number of downloads, however many images it has
\* and however they fail (inbound-content.ts, ImageBudget, renderInlineImage).
DownloadsAreBounded ==
    body # <<>> =>
        Len(transfers) <= IF IsRich(body) THEN MaxDownloads ELSE 1

\* What is rendered is what the message has, in its order, one part for each:
\* neither failures nor late answers lose, double or move a part; only a card
\* larger than the budget is cut, at its end (collectCardText, renderPost).
RenderedAsWritten ==
    body # <<>> /\ body.type \notin {"unreadable", "other"} =>
        LET rendered == [i \in DOMAIN parts |-> parts[i].of]
            all      == FlattenSeq([i \in DOMAIN body.blocks |-> Seen[0][body.blocks[i]]])
        IN  /\ IsPrefix(rendered, all)
            /\ given # <<>> /\ nodes > 0 => rendered = all

\* A message is handed on even if each of its downloads hangs (feishu.ts,
\* withTimeout; inbound-content.ts, safeDownload).
HungDownloadIsGivenUp == body # <<>> ~> given # <<>>

=============================================================================
