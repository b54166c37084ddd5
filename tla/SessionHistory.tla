---------------------------- MODULE SessionHistory ----------------------------
(***************************************************************************)
(* What `tm` remembers of the sessions its teammates ran: the append-only  *)
(* history index (persistence/history-index.ts), the identity record of a  *)
(* name and the snapshot a kill leaves of it (identity-store.ts), the file *)
(* that names a teammate's current session, and the transcripts and        *)
(* rollouts the engines keep.  `tm history` folds them into one row per    *)
(* session (verbs/history-query.ts); `tm resume` takes a session up again  *)
(* from its row (cli/dispatch.ts, verbs/resume.ts).                        *)
(*                                                                         *)
(* A command is one action: commands that overlap are the subject of       *)
(* ClaudeLifecycle, CodexRegistry and CodexTurns.  A path is a repository  *)
(* or a worktree of one, <<repository, slug>>.  The engines' processes,    *)
(* transcripts and rollouts are external.                                  *)
(***************************************************************************)
EXTENDS Integers, Sequences, FiniteSets

CONSTANTS
    Name,           \* names of teammates
    Repo,           \* repositories
    Status,         \* what a kill may say of the session it closes
    Unknown,
    MaxSessions, MaxMishaps  \* bounds: sessions, failures

Engine == {"claude", "codex"}
Session == 1..MaxSessions

\* What is not known is no engine, session, name, directory or status.
ASSUME HistoryAssumption ==
    /\ Unknown \notin Engine /\ Unknown \notin Nat
    /\ Unknown \notin Name \cup Repo \cup Status /\ Unknown \notin Repo \X Name
    /\ MaxSessions \in Nat /\ MaxMishaps \in Nat

VARIABLES
    index,      \* what a reader folds from teammate-history.jsonl: the records, and the last
                \* id of each attribution
    identity,   \* the identity record of a name
    snapshot,   \* its archived record
    marker,     \* its .sid or thread file
    process,    \* its engine process: engine, session, and the directory it works in
    made,       \* the engine, directory and transcript of every session
    given,      \* the statuses the user gave a session
    nameless,   \* the statuses given where no session had an id yet
    misfiled,   \* sessions that ran under a record or a marker that is not theirs
    mishaps

historyVars == <<index, identity, snapshot, marker, process, made, given, nameless, misfiled, mishaps>>

Made == DOMAIN made
Next1 == Cardinality(Made) + 1
Tree(repo, slug) == IF slug = Unknown THEN repo ELSE <<repo, slug>>
Or(x, y) == IF x # Unknown THEN x ELSE y

-----------------------------------------------------------------------------
(* The index (persistence/history-index.ts)                                 *)

SessionEvent(id, engine, name, repo, cwd, slug) ==
    [id |-> id, engine |-> engine, name |-> name, repo |-> repo, cwd |-> cwd, slug |-> slug, status |-> Unknown]
CloseEvent(id, engine, name, repo, cwd, status) ==
    [id |-> id, engine |-> engine, name |-> name, repo |-> repo, cwd |-> cwd, slug |-> Unknown, status |-> status]

Costs(failures) == mishaps + failures <= MaxMishaps /\ mishaps' = mishaps + failures
Lost(kept) == IF kept THEN 0 ELSE 1

\* A plausible bug: sessions are told apart by their name alone.
AttributedByName(e) == IF e.engine = Unknown \/ e.name = Unknown THEN Unknown ELSE <<e.name>>

\* attributionKey: without a name or a directory an event belongs to nobody.
Attribution(e) ==
    IF e.engine = Unknown \/ e.name = Unknown \/ Or(e.cwd, e.repo) = Unknown THEN Unknown
    ELSE <<e.engine, e.name, Or(e.cwd, e.repo)>>

\* mergeRecord: what the event says, then what was known.
Merge(base, e) == [f \in DOMAIN e |-> Or(e[f], base[f])]
\* mergeRecordFields: the other way round, except for the status.
Absorb(base, open) == [f \in DOMAIN open |->
    IF f = "status" THEN Or(open[f], base[f]) ELSE Or(base[f], open[f])]
Blank == SessionEvent(Unknown, Unknown, Unknown, Unknown, Unknown, Unknown)
Known(records, key) == IF key \in DOMAIN records THEN records[key] ELSE Blank
Put(records, key, r) == [k \in DOMAIN records \cup {key} |-> IF k = key THEN r ELSE records[k]]
Without(records, key) == [k \in DOMAIN records \ {key} |-> records[k]]

\* eventKey of an event without an id.
OpenKey(e) == <<"open", e.engine, e.name, Or(e.cwd, e.repo)>>

\* One event of listHistoryIndexRecords.
Fold(e, seen) ==
    LET attr == Attribution(e)
        key == IF e.id # Unknown THEN <<"id", e.id>>
               ELSE IF attr \in DOMAIN seen.ids THEN <<"id", seen.ids[attr]>> ELSE OpenKey(e)
        absorbs == e.id # Unknown /\ attr # Unknown /\ OpenKey(e) \in DOMAIN seen.records
        known == IF absorbs
                 THEN Put(Without(seen.records, OpenKey(e)), key,
                          Absorb(Known(seen.records, key), seen.records[OpenKey(e)]))
                 ELSE seen.records
    IN  [records |-> Put(known, key, Merge(Known(known, key), e)),
         ids |-> IF e.id # Unknown /\ attr # Unknown THEN Put(seen.ids, attr, e.id) ELSE seen.ids]

\* append: a line that cannot be written is forgotten.  The file only grows and is read whole,
\* so what its lines fold to stands for them.
Log(event, kept) == index' = IF kept THEN Fold(event, index) ELSE index
Records == index.records

-----------------------------------------------------------------------------
(* The rows (verbs/history-query.ts, engines/claude/history.ts,             *)
(* engines/codex/history.ts)                                                *)

\* rowsFromListings: the live process whose marker names the session.
Listing(s) ==
    LET ns == {n \in Name : process[n] # Unknown /\ identity[n] # Unknown /\ marker[n] = s} IN
    IF ns = {} THEN Blank
    ELSE LET n == CHOOSE n \in ns : TRUE IN
         [identity[n] EXCEPT !.id = s]

\* knownCwdsFromRows
KnownCwd(cwd) ==
    \/ \E n \in Name : \/ identity[n] # Unknown /\ process[n] # Unknown /\ identity[n].cwd = cwd
                       \/ snapshot[n] # Unknown /\ snapshot[n].cwd = cwd
    \/ \E k \in DOMAIN Records : Or(Records[k].cwd, Records[k].repo) = cwd

TranscriptRow(s, cwd) ==
    IF made[s].written THEN SessionEvent(s, made[s].engine, Unknown, cwd, cwd, Unknown) ELSE Blank
\* rowsFromCodexHistorySource: a rollout says which directory it is of.
CodexRow(s) == TranscriptRow(s, made[s].cwd)
\* rowsFromClaudeHistorySource: a transcript does not, unless one has heard of the directory.
ClaudeRow(s) == TranscriptRow(s, IF KnownCwd(made[s].cwd) THEN made[s].cwd ELSE Unknown)

\* normalizeRows and mergeRows: index, then listing, then transcript.
Row(s) ==
    Merge(Merge(IF made[s].engine = "codex" THEN CodexRow(s) ELSE ClaudeRow(s), Listing(s)),
          Known(Records, <<"id", s>>))

-----------------------------------------------------------------------------
(* The engines (external), as the verbs see them                            *)

HistoryInit ==
    /\ index = [records |-> <<>>, ids |-> <<>>] /\ made = <<>>
    /\ identity = [n \in Name |-> Unknown] /\ snapshot = [n \in Name |-> Unknown]
    /\ marker = [n \in Name |-> Unknown] /\ process = [n \in Name |-> Unknown]
    /\ given = [s \in Session |-> {}] /\ nameless = {} /\ misfiled = {} /\ mishaps = 0

Occupied(n) == process[n] # Unknown
Opens(engine, cwd, written) ==
    /\ Next1 \in Session
    /\ made' = Append(made, [engine |-> engine, cwd |-> cwd, written |-> written])

\* The directory an engine works in: Claude makes and enters the worktree itself, from the
\* repository; Codex is started in the directory.
WorksIn(engine, repo, cwd, slug) == IF engine = "claude" THEN Tree(repo, slug) ELSE cwd

Misfiles(s, r, home) == IF r.cwd = home THEN misfiled ELSE misfiled \cup {s}

\* reserveClaudeIdentityForLaunch keeps the record it finds; a Codex start replaces it.
Claims(n, engine, repo, cwd, slug) ==
    /\ ~Occupied(n)
    /\ Or(identity[n], Blank).engine \in {Unknown, engine}
    /\ identity' = IF identity[n] # Unknown /\ engine = "claude" THEN identity
                   ELSE [identity EXCEPT ![n] = SessionEvent(Unknown, engine, n, repo, cwd, slug)]

\* The process of a name: the directory its launch named, and the one it is in.  The session
\* is one of the directory "home".
ComesUp(n, engine, id, home, repo, cwd, slug) ==
    /\ Claims(n, engine, repo, cwd, slug)
    /\ process' = [process EXCEPT ![n] =
          [engine |-> engine, session |-> id, cwd |-> cwd, at |-> WorksIn(engine, repo, cwd, slug)]]
    /\ misfiled' = Misfiles(id, identity'[n], home)

\* The conversations an engine finds in a directory.
RanAt(engine, cwd) == {s \in Made : made[s].engine = engine /\ made[s].cwd = cwd /\ made[s].written}

-----------------------------------------------------------------------------
(* The verbs                                                                *)

\* spawnVerb: Claude gets its sid at once, Codex a thread with its first prompt.
Spawn(n, engine, repo, slug, prompted, kept) ==
    LET cwd == Tree(repo, slug)
        id == IF engine = "codex" /\ ~prompted THEN Unknown ELSE Next1
    IN  /\ Costs(Lost(kept))
        /\ IF id = Unknown THEN UNCHANGED made ELSE Opens(engine, cwd, prompted)
        /\ ComesUp(n, engine, id, cwd, repo, cwd, slug)
        /\ marker' = [marker EXCEPT ![n] = id]
        /\ Log(SessionEvent(id, engine, n, repo, cwd, slug), kept)
        /\ UNCHANGED <<snapshot, given, nameless>>

\* sendVerb, and the thread Codex starts for the first prompt.
Send(n, kept) ==
    /\ Occupied(n) /\ identity[n] # Unknown
    /\ LET p == process[n]
           r == identity[n]
           s == Or(p.session, Next1)
       IN  /\ IF p.session = Unknown THEN Opens(p.engine, p.at, TRUE)
              ELSE made' = [made EXCEPT ![s].written = TRUE]
           /\ process' = [process EXCEPT ![n].session = s]
           /\ marker' = IF p.engine = "codex" THEN [marker EXCEPT ![n] = s] ELSE marker
           /\ Log(SessionEvent(marker'[n], p.engine, n, r.repo, r.cwd, r.slug), kept)
           /\ misfiled' = IF p.session = Unknown THEN Misfiles(s, r, p.at) ELSE misfiled
           /\ Costs(Lost(kept))
    /\ UNCHANGED <<identity, snapshot, given, nameless>>

\* /clear: on-session-start.sh moves the sid, in the directory the launch named only.
Clear(n) ==
    /\ Occupied(n) /\ process[n].engine = "claude"
    /\ Opens("claude", process[n].at, FALSE)
    /\ process' = [process EXCEPT ![n].session = Next1]
    /\ IF process[n].at = process[n].cwd
       THEN /\ marker' = [marker EXCEPT ![n] = Next1]
            /\ misfiled' = Misfiles(Next1, identity[n], process[n].at)
       ELSE misfiled' = misfiled \cup {Next1, marker[n]} /\ UNCHANGED marker
    /\ UNCHANGED <<index, identity, snapshot, given, nameless, mishaps>>

\* A process ends by itself, and leaves its files.
Dies(n) ==
    /\ Occupied(n) /\ Costs(1)
    /\ process' = [process EXCEPT ![n] = Unknown]
    /\ UNCHANGED <<index, identity, snapshot, marker, made, given, nameless, misfiled>>

\* closeIdFor: the marker of a name.
CloseId(n) == marker[n]

\* killVerb, which a crash may cut off after the process has ended, after the snapshot is
\* written, or not at all.
KillName(n, status, upTo, kept) ==
    /\ Occupied(n) \/ identity[n] # Unknown
    /\ Costs(Lost(kept) + IF upTo = "removed" THEN 0 ELSE 1)
    /\ process' = [process EXCEPT ![n] = Unknown]
    /\ marker' = [marker EXCEPT ![n] = Unknown]
    /\ LET r == Or(identity[n], Blank)
           engine == IF Occupied(n) THEN process[n].engine ELSE r.engine
           s == IF Occupied(n) THEN process[n].session ELSE marker[n]
       IN  /\ status = Unknown => kept
           /\ IF status = Unknown \/ upTo = "ended"
              THEN UNCHANGED <<index, given, nameless>>
              ELSE /\ Log(CloseEvent(CloseId(n), engine, n, r.repo, r.cwd, status), kept)
                   /\ given' = IF s = Unknown THEN given ELSE [given EXCEPT ![s] = @ \cup {status}]
                   /\ nameless' = IF s # Unknown THEN nameless
                                  ELSE nameless \cup {<<engine, n, r.cwd, status>>}
    /\ snapshot' = IF upTo # "ended" /\ identity[n] # Unknown THEN [snapshot EXCEPT ![n] = identity[n]]
                   ELSE snapshot
    /\ identity' = IF upTo = "removed" THEN [identity EXCEPT ![n] = Unknown] ELSE identity
    /\ UNCHANGED <<made, misfiled>>

\* `tm kill --id`: only the index hears of it.
CloseById(s, status, kept) ==
    /\ Costs(Lost(kept))
    /\ \E row \in {Row(s)} :
       row.id = s /\ Log(CloseEvent(s, row.engine, row.name, row.repo, row.cwd, status), kept)
    /\ given' = [given EXCEPT ![s] = @ \cup {status}]
    /\ UNCHANGED <<identity, snapshot, marker, process, made, nameless, misfiled>>

\* The slug of a resume: the row's, or that of the record or snapshot of the name.
SlugFor(n, slug) == Or(slug, Or(identity[n], Or(snapshot[n], Blank)).slug)

\* The resume command of a row.  The engine must find the conversation: Claude looks in the
\* directory it is told.
ResumeRow(s, n, kept) ==
    /\ made[s].written /\ ~Occupied(n)
    /\ Costs(Lost(kept))
    /\ \E row \in {Row(s)} :
       LET repo == Or(row.repo, row.cwd)
           cwd == Or(row.cwd, repo)
           slug == SlugFor(n, row.slug)
       IN  /\ row.id = s /\ repo # Unknown
           /\ IF row.name # Unknown THEN n = row.name ELSE identity[n] = Unknown /\ snapshot[n] = Unknown
           /\ row.engine = made[s].engine
           /\ row.engine = "claude" => cwd = made[s].cwd
           /\ ComesUp(n, row.engine, s, made[s].cwd, repo, cwd, slug)
           /\ marker' = [marker EXCEPT ![n] = s]
           /\ Log(SessionEvent(s, row.engine, n, repo, cwd, slug), kept)
    /\ UNCHANGED <<snapshot, made, given, nameless>>

\* `tm resume <name>`: the engine of the record, or the only one with a conversation in the
\* directory of the snapshot.  The engine takes the latest; Claude does not say which.
ResumeLatest(n, s, kept) ==
    /\ ~Occupied(n) /\ Or(identity[n], snapshot[n]) # Unknown
    /\ Costs(Lost(kept))
    /\ LET r == Or(identity[n], snapshot[n])
           engine == IF identity[n] # Unknown THEN r.engine ELSE made[s].engine
           at == WorksIn(engine, r.repo, r.cwd, r.slug)
           id == IF engine = "codex" THEN s ELSE Unknown
       IN  /\ identity[n] = Unknown => \A e \in Engine : RanAt(e, r.cwd) # {} <=> e = engine
           /\ s \in RanAt(engine, at)
           /\ ComesUp(n, engine, s, made[s].cwd, r.repo, r.cwd, r.slug)
           /\ marker' = [marker EXCEPT ![n] = s]
           /\ Log(SessionEvent(id, engine, n, r.repo, r.cwd, r.slug), kept)
    /\ UNCHANGED <<snapshot, made, given, nameless>>

HistoryNext ==
    \/ \E n \in Name, kept \in BOOLEAN :
          \/ \E engine \in Engine, repo \in Repo, slug \in {Unknown, n}, prompted \in BOOLEAN :
                Spawn(n, engine, repo, slug, prompted, kept)
          \/ Send(n, kept)
          \/ \E status \in Status \cup {Unknown}, upTo \in {"ended", "archived", "removed"} :
                KillName(n, status, upTo, kept)
          \/ \E s \in Made : ResumeRow(s, n, kept) \/ ResumeLatest(n, s, kept)
    \/ \E n \in Name : Clear(n) \/ Dies(n)
    \/ \E s \in Made, status \in Status, kept \in BOOLEAN : CloseById(s, status, kept)

HistorySpec == HistoryInit /\ [][HistoryNext]_historyVars

-----------------------------------------------------------------------------
(* Properties                                                               *)

HistoryTypeOK ==
    /\ Len(made) <= MaxSessions /\ mishaps <= MaxMishaps
    /\ \A n \in Name : marker[n] \in Session \cup {Unknown}
    /\ \A s \in Session : given[s] \subseteq Status

\* However the sources are merged, the row of a session has the session's engine, and its
\* directory if it has one: so the session can be found again.  It does not hold for a session
\* whose process ran under the record of another launch (history-query.ts, history-index.ts).
RowsNameTheirSession ==
    \A s \in Made : LET row == Row(s) IN row.id = s =>
        /\ row.engine = made[s].engine
        /\ s \notin misfiled => row.cwd \in {Unknown, made[s].cwd}

\* A session reads as closed only if the user said so of it, or of a session of the same
\* name, engine and directory that had no id then (recordHistoryClose, closeIdFor).
StatusWasGiven ==
    \A s \in Made \ misfiled : LET status == Row(s).status IN
        \/ status \in given[s] \cup {Unknown}
        \/ \E n \in Name : <<made[s].engine, n, made[s].cwd, status>> \in nameless

\* spawn.ts:318-320: the recorded cwd is the path the process runs in, so that the hook
\* recognises it.  It is not: a session without a worktree, resumed by its row, takes the slug
\* of the name's last record (dispatch.ts:439).
RecordedCwdIsWhereItRuns == \A n \in Name : Occupied(n) => process[n].at = process[n].cwd

\* A status is the session's own.  It is not, when the name had no session yet.
StatusIsItsOwn == \A s \in Made : Row(s).status \in given[s] \cup {Unknown}

=============================================================================
