-------------------------- MODULE ChannelStateProofs --------------------------
(***************************************************************************)
(* Proofs about the parts of the channel that keep state of their own: the *)
(* comments on documents (DocComment), the diagnosis (ChannelDoctor), the  *)
(* handlers of messages with the access file and the peer bots of each     *)
(* chat (ImMessage), and the replies that are sent (OutboundReply).        *)
(***************************************************************************)
EXTENDS ImMessage, ChannelDoctor, DocComment, OutboundReply, FiniteSetTheorems, TLAPS

-----------------------------------------------------------------------------
(* Comments on documents                                                    *)

\* Events of a comment itself: they are those of the head of the thread, which stays.
NamesHead(event) == ~event.reply => thread # <<>> /\ event.text = thread[1]

\* A page that was fetched begins with the head of the thread.
IsPage(page) == page \in Seq(Nat) /\ (page # <<>> => thread # <<>> /\ page[1] = thread[1])

CommentInv ==
    /\ texts \in Nat /\ thread \in Seq(Nat)
    /\ \A n \in notices : NamesHead(n)
    /\ \A h \in handlers : NamesHead(h.event) /\ IsPage(h.comment.page)
    /\ \A h \in handlers : h = [event |-> h.event, comment |-> h.comment, meta |-> h.meta]
    /\ \A r \in told : NamesHead(r.event) /\ IsPage(r.page)
    /\ OwnTextIsShown

\* What keeps the head of the thread keeps what is known of events and pages.
LEMMA HeadStays ==
    ASSUME thread # <<>> => thread' # <<>> /\ thread'[1] = thread[1]
    PROVE  /\ \A e : NamesHead(e) => NamesHead(e)'
           /\ \A p : IsPage(p) => IsPage(p)'
BY DEF NamesHead, IsPage

LEMMA PageIsPage ==
    ASSUME thread \in Seq(Nat)
    PROVE  IsPage(SubSeq(thread, 1, IF Len(thread) < PageSize THEN Len(thread) ELSE PageSize)) /\ IsPage(<<>>)
BY CommentAssumption DEF IsPage

\* A deletion leaves the head, for it is of a reply.
LEMMA WithdrawKeepsHead ==
    ASSUME thread \in Seq(Nat), NEW i, Withdraw(i)
    PROVE  thread' \in Seq(Nat) /\ thread # <<>> /\ thread' # <<>> /\ thread'[1] = thread[1]
<1>1. i \in 2..Len(thread)
  BY DEF Withdraw
<1> DEFINE before == SubSeq(thread, 1, i-1)
           after  == SubSeq(thread, i+1, Len(thread))
<1>2. thread' = before \o after
  BY DEF Withdraw, RemoveAt
<1>3. before \in Seq(Nat) /\ Len(before) = i - 1 /\ before[1] = thread[1]
  BY <1>1
<1>4. after \in Seq(Nat)
  BY <1>1
<1> HIDE DEF before, after
<1> QED
  BY <1>1, <1>2, <1>3, <1>4

LEMMA CommentInvInit == CommentInit => CommentInv
BY DEF CommentInit, CommentInv, OwnTextIsShown

LEMMA CommentInvStep == CommentInv /\ [CommentNext]_commentVars => CommentInv'
<1> SUFFICES ASSUME CommentInv, [CommentNext]_commentVars PROVE CommentInv'
  OBVIOUS
<1> USE DEF CommentInv
<1>1. ASSUME NEW a, Write(a) PROVE CommentInv'
  <2>1. thread' \in Seq(Nat) /\ texts' \in Nat /\ thread' # <<>> /\ (thread # <<>> => thread'[1] = thread[1])
    BY <1>1 DEF Write
  <2>2. PICK n : n = [text |-> texts', reply |-> thread # <<>>, by |-> a]
    OBVIOUS
  <2>3. NamesHead(n)'
    <3>1. n.text = texts' /\ (n.reply <=> thread # <<>>)
      BY <2>2
    <3>2. thread = <<>> => thread'[1] = texts'
      BY <1>1 DEF Write
    <3> QED
      BY <2>1, <3>1, <3>2 DEF NamesHead
  <2>4. notices' = notices \cup {n} /\ UNCHANGED <<handlers, told>>
    BY <1>1, <2>2 DEF Write
  <2> QED
    BY <2>1, <2>3, <2>4, HeadStays DEF OwnTextIsShown
<1>2. ASSUME NEW i, Withdraw(i) PROVE CommentInv'
  BY <1>2, WithdrawKeepsHead, HeadStays DEF Withdraw, OwnTextIsShown
<1>3. ASSUME NEW n \in notices, HandleNotice(n) PROVE CommentInv'
  BY <1>3, HeadStays, PageIsPage DEF HandleNotice, Asked, OwnTextIsShown
<1>4. ASSUME NEW h \in handlers, CommentArrives(h) PROVE CommentInv'
  <2>1. PICK p : p = SubSeq(thread, 1, IF Len(thread) < PageSize THEN Len(thread) ELSE PageSize)
    OBVIOUS
  <2>2. PICK g : g = [h EXCEPT !.comment = [got |-> "comment", page |-> p]]
    OBVIOUS
  <2>3. IsPage(p)
    BY <2>1, PageIsPage
  <2>4. /\ g = [event |-> g.event, comment |-> g.comment, meta |-> g.meta]
        /\ g.event = h.event /\ g.comment.page = p
    BY <2>2
  <2>5. handlers' = (handlers \ {h}) \cup {g} /\ UNCHANGED <<texts, thread, notices, told>>
    BY <1>4, <2>1, <2>2 DEF CommentArrives, Becomes
  <2> QED
    BY <2>3, <2>4, <2>5, HeadStays DEF OwnTextIsShown
<1>5. ASSUME NEW h \in handlers, CommentMissing(h) PROVE CommentInv'
  BY <1>5, HeadStays, PageIsPage DEF CommentMissing, Becomes, Missing, OwnTextIsShown
<1>6. ASSUME NEW h \in handlers, MetaSettles(h) PROVE CommentInv'
  BY <1>6, HeadStays DEF MetaSettles, Becomes, OwnTextIsShown
<1>7. ASSUME NEW h \in handlers, TellComment(h) PROVE CommentInv'
  BY SMTT(30), <1>7, HeadStays DEF TellComment, PickReply, OwnTextIsShown, NamesHead, IsPage, ToSet
<1>8. CASE UNCHANGED commentVars
  BY <1>8, HeadStays DEF commentVars, OwnTextIsShown
<1> QED
  BY <1>1, <1>2, <1>3, <1>4, <1>5, <1>6, <1>7, <1>8 DEF CommentNext

\* However people write and delete while a comment is fetched, the text shown under an event is
\* its own unless the page did not hold it (doc-comment.ts, pickReply).
THEOREM OwnTextShown == CommentSpec => []OwnTextIsShown
<1>1. CommentInv => OwnTextIsShown
  BY DEF CommentInv
<1> QED
  BY <1>1, CommentInvInit, CommentInvStep, PTL DEF CommentSpec

-----------------------------------------------------------------------------
(* The diagnosis                                                            *)

LEMMA NotingKeeps ==
    ASSUME NEW e, NEW more
    PROVE  /\ DOMAIN Noting(e, more) = DOMAIN e \cup DOMAIN more
           /\ \A x \in DOMAIN more : Noting(e, more)[x] = more[x]
           /\ \A x \in DOMAIN e \ DOMAIN more : Noting(e, more)[x] = e[x]
BY DEF Noting

LEMMA StatusKeeps ==
    ASSUME NEW o \in Ownership, NEW d
    PROVE  /\ StatusOf(o, d).pid = (IF d \in Nameless THEN NoServer ELSE d) /\ StatusOf(o, d).reg = o.reg
           /\ StatusOf(o, d).owner = o.owner /\ StatusOf(o, d).dispatcher = o.dispatcher
BY DEF StatusOf, Noting, Ownership

DoctorTypeInv ==
    /\ alive \subseteq Server /\ listening \in Daemon \cup {NoServer}
    /\ ownership \in Ownership /\ pinned \in Version
    /\ changes \in Nat /\ failures \in Nat

\* What was read is what there is, if nothing changes and no probe fails.
EvidenceIsTrue ==
    /\ Read("hello") => evidence.hello = listening
    /\ Read("status") => evidence.status = IF listening = NoServer THEN NoServer ELSE StatusOf(ownership, listening)
    /\ Read("pinned") => Read("hello") /\ Read("status") /\ evidence.pinned = pinned
    /\ Read("holder") => Read("pinned") /\ Read("holderAlive") /\ evidence.holder = pidfile
                          /\ (evidence.holderAlive <=> pidfile \in alive \cup {Stranger})
                          /\ Read("holderServes") /\ (evidence.holderServes <=> pidfile \in Server)
    /\ Read("servers") => Read("holder") /\ evidence.servers = alive
    /\ Read("disk") => Read("servers")
    /\ Done /\ Faulty => "error" \in Severities

DoctorInv == DoctorTypeInv /\ (changes = 0 /\ failures = 0 => EvidenceIsTrue)

LEMMA DoctorInvInit == DoctorInit => DoctorInv
<1>1. NoOwner \in Ownership
  BY DEF NoOwner, Ownership, Role
<1> QED
  BY <1>1, DoctorAssumption DEF DoctorInit, DoctorInv, DoctorTypeInv, EvidenceIsTrue, Read, Done, Server

LEMMA DoctorTypeStep == DoctorTypeInv /\ [DoctorNext]_doctorVars => DoctorTypeInv'
<1> SUFFICES ASSUME DoctorTypeInv, [DoctorNext]_doctorVars PROVE DoctorTypeInv'
  OBVIOUS
<1> USE DoctorAssumption DEF DoctorTypeInv, worldVars
<1>1. CASE Probe
  BY <1>1 DEF Probe, ProbeHello, ProbeStatus, ProbePinned, ProbeHolder, ProbeServers, ProbeFiles, Fails
<1>2. CASE Conclude
  BY <1>2 DEF Conclude
<1>3. ASSUME NEW p \in Server, ServerDies(p) PROVE DoctorTypeInv'
  <2>1. NoOwner \in Ownership
    BY DEF NoOwner, Ownership, Role
  <2> QED
    BY <1>3, <2>1 DEF ServerDies, Changes
<1>4. ASSUME NEW d \in Daemon, DaemonBinds(d) PROVE DoctorTypeInv'
  BY <1>4 DEF DaemonBinds, Changes, Server
<1>5. ASSUME NEW d \in Daemon, DaemonTakesPidfile(d) PROVE DoctorTypeInv'
  BY <1>5 DEF DaemonTakesPidfile, Changes
<1>6. ASSUME NEW x \in Proxy, ProxyGone(x) PROVE DoctorTypeInv'
  <2>1. [ownership EXCEPT !.reg[x] = "none"] \in Ownership
    BY DEF Ownership, Role
  <2> QED
    BY <1>6, <2>1 DEF ProxyGone, Changes
<1>7. CASE UNCHANGED doctorVars
  BY <1>7 DEF doctorVars
<1> QED
  BY <1>1, <1>2, <1>3, <1>4, <1>5, <1>6, <1>7 DEF DoctorNext

\* The conclusions drawn from evidence that is true report each of the faults.
LEMMA FaultIsConcluded ==
    ASSUME DoctorTypeInv, EvidenceIsTrue, Read("disk"), Faulty, NEW e, e = Noting(evidence, [alive |-> alive])
    PROVE  "error" \in {Conclusions(e)[c] : c \in DOMAIN Conclusions(e)}
<1>1. /\ e.hello = listening /\ e.holder = pidfile /\ e.servers = alive /\ e.pinned = pinned
      /\ e.holderAlive <=> pidfile \in alive \cup {Stranger}
      /\ e.holderServes <=> pidfile \in Server
      /\ e.status = IF listening = NoServer THEN NoServer ELSE StatusOf(ownership, listening)
  <2>1. DOMAIN [alive |-> alive] = {"alive"}
    OBVIOUS
  <2>2. \A x \in DOMAIN evidence \ {"alive"} : e[x] = evidence[x]
    BY <2>1, NotingKeeps
  <2>3. {"hello", "status", "pinned", "holder", "holderAlive", "holderServes", "servers", "disk"} \subseteq DOMAIN evidence
    BY DEF EvidenceIsTrue, Read
  <2>4. /\ e.hello = evidence.hello /\ e.status = evidence.status /\ e.pinned = evidence.pinned
        /\ e.holder = evidence.holder /\ e.holderAlive = evidence.holderAlive /\ e.servers = evidence.servers
        /\ e.holderServes = evidence.holderServes
    BY <2>2, <2>3
  <2> QED
    BY <2>3, <2>4 DEF EvidenceIsTrue, Read
<1>2. CASE pidfile \in alive /\ pidfile # listening
  <2>1. ConnectionLock(e) = "error"
    BY <1>1, <1>2, DoctorAssumption DEF ConnectionLock, DoctorTypeInv
  <2> QED
    BY <2>1 DEF Conclusions
<1>3. CASE Cardinality(alive \cap Daemon) > 1
  <2>1. alive \cap Daemon # {}
    BY <1>3, FS_EmptySet
  <2>2. Singleton(e) = "error"
    BY <1>1, <1>3, <2>1 DEF Singleton
  <2> QED
    BY <2>2 DEF Conclusions
<1>4. CASE listening = NoServer
  <2>1. Reachable(e) = "error"
    BY <1>1, <1>4 DEF Reachable
  <2> QED
    BY <2>1 DEF Conclusions
<1>5. CASE listening # NoServer /\ VersionOf[listening] < pinned
  <2>1. StatusOf(ownership, listening).pid \in {NoServer, listening}
    BY StatusKeeps DEF DoctorTypeInv
  <2>2. VersionSkew(e) = "error"
    BY <1>1, <1>5, <2>1, DoctorAssumption DEF VersionSkew, DaemonBlock, DoctorTypeInv
  <2> QED
    BY <2>2 DEF Conclusions
<1>6. ASSUME listening # NoServer, NEW x \in Teammates, ownership.reg[x] = "dispatcher", Effective(ownership) = x
      PROVE  "error" \in {Conclusions(e)[c] : c \in DOMAIN Conclusions(e)}
  <2> DEFINE s == StatusOf(ownership, listening)
  <2>1. s # NoServer /\ e.status = s
    BY <1>1, <1>6, StatusAssumption DEF DoctorTypeInv
  <2>2. s.reg = ownership.reg /\ s.owner = ownership.owner /\ s.dispatcher = ownership.dispatcher
    BY StatusKeeps DEF DoctorTypeInv
  <2>3. x \in Proxy /\ x # NoServer
    BY DoctorAssumption DEF Server
  <2> HIDE DEF s
  <2>4. Effective(s) = x /\ x \in Sessions(s)
    BY <1>6, <2>2, <2>3 DEF Effective, Sessions
  <2>5. Target(s) = x
    BY <2>3, <2>4 DEF Target
  <2>6. OwnershipOnTeammate(e) = "error"
    BY <1>6, <2>1, <2>2, <2>3, <2>4, <2>5 DEF OwnershipOnTeammate
  <2> QED
    BY <2>6 DEF Conclusions
<1> QED
  BY <1>2, <1>3, <1>4, <1>5, <1>6 DEF Faulty

LEMMA DoctorInvStep == DoctorInv /\ [DoctorNext]_doctorVars => DoctorInv'
<1> SUFFICES ASSUME DoctorInv, [DoctorNext]_doctorVars, changes' = 0, failures' = 0 PROVE EvidenceIsTrue'
  BY DoctorTypeStep DEF DoctorInv
<1>a. DoctorTypeInv /\ DoctorTypeInv'
  BY DoctorTypeStep DEF DoctorInv
<1>b. ASSUME changes = 0, failures = 0 PROVE EvidenceIsTrue
  BY <1>b DEF DoctorInv
<1>c. ASSUME UNCHANGED worldVars, UNCHANGED report, changes = 0, failures = 0,
             NEW more, Adds(more)
      PROVE  /\ \A x \in DOMAIN evidence \ DOMAIN more : Read(x)' /\ evidence'[x] = evidence[x]
             /\ \A x \in DOMAIN more : Read(x)' /\ evidence'[x] = more[x]
             /\ \A x : Read(x)' => x \in DOMAIN evidence \/ x \in DOMAIN more
             /\ Done /\ Faulty => "error" \in Severities
             /\ Faulty' <=> Faulty
             /\ Done' <=> Done
             /\ Severities' = Severities
  <2>1. EvidenceIsTrue
    BY <1>b, <1>c
  <2>2. evidence' = Noting(evidence, more)
    BY <1>c DEF Adds
  <2>3. (Faulty' <=> Faulty) /\ (Done' <=> Done) /\ Severities' = Severities
    BY <1>c DEF worldVars, Faulty, Done, Severities
  <2>4. /\ DOMAIN evidence' = DOMAIN evidence \cup DOMAIN more
        /\ \A x \in DOMAIN more : evidence'[x] = more[x]
        /\ \A x \in DOMAIN evidence \ DOMAIN more : evidence'[x] = evidence[x]
    <3>1. /\ DOMAIN Noting(evidence, more) = DOMAIN evidence \cup DOMAIN more
          /\ \A x \in DOMAIN more : Noting(evidence, more)[x] = more[x]
          /\ \A x \in DOMAIN evidence \ DOMAIN more : Noting(evidence, more)[x] = evidence[x]
      BY NotingKeeps
    <3> QED
      BY <2>2, <3>1
  <2>5. Done /\ Faulty => "error" \in Severities
    BY <2>1 DEF EvidenceIsTrue
  <2> QED
    BY <2>3, <2>4, <2>5 DEF Read
<1>1. CASE Probe
  <2>1. UNCHANGED worldVars /\ UNCHANGED report /\ changes = 0 /\ failures = 0 /\ EvidenceIsTrue
    BY <1>1, <1>a, <1>b DEF Probe, ProbeHello, ProbeStatus, ProbePinned, ProbeHolder, ProbeServers, ProbeFiles, Fails,
       DoctorTypeInv
  <2> USE DEF EvidenceIsTrue, Read, worldVars
  <2>2. CASE ProbeHello
    <3>1. Adds([hello |-> listening]) /\ ~Read("hello")
      BY <1>a, <2>1, <2>2 DEF ProbeHello, Fails, DoctorTypeInv
    <3>2. DOMAIN [hello |-> listening] = {"hello"}
      OBVIOUS
    <3> QED
      BY <1>c, <2>1, <3>1, <3>2
  <2>3. CASE ProbeStatus
    <3>1. Adds([status |-> IF listening = NoServer THEN NoServer ELSE StatusOf(ownership, listening)]) /\ ~Read("status")
      BY <1>a, <2>1, <2>3 DEF ProbeStatus, Fails, DoctorTypeInv
    <3>2. DOMAIN [status |-> IF listening = NoServer THEN NoServer ELSE StatusOf(ownership, listening)] = {"status"}
      OBVIOUS
    <3> QED
      BY <1>c, <2>1, <3>1, <3>2
  <2>4. CASE ProbePinned
    <3>1. Adds([pinned |-> pinned]) /\ ~Read("pinned") /\ Read("hello") /\ Read("status")
      BY <1>a, <2>1, <2>4 DEF ProbePinned, Fails, DoctorTypeInv
    <3>2. DOMAIN [pinned |-> pinned] = {"pinned"}
      OBVIOUS
    <3> QED
      BY <1>c, <2>1, <3>1, <3>2
  <2>5. CASE ProbeHolder
    <3> DEFINE there == [holder |-> pidfile, holderAlive |-> pidfile \in alive \cup {Stranger},
                         holderServes |-> pidfile \in Server]
    <3>1. Adds(there) /\ ~Read("holder") /\ Read("pinned")
      BY <1>a, <2>1, <2>5 DEF ProbeHolder, Fails, DoctorTypeInv
    <3>2. PICK more : more = there
      OBVIOUS
    <3>3. DOMAIN more = {"holder", "holderAlive", "holderServes"} /\ more.holder = pidfile
      BY <3>2
    <3>4. (more.holderAlive <=> pidfile \in alive \cup {Stranger}) /\ (more.holderServes <=> pidfile \in Server)
      BY <3>2, Zenon
    <3>5. /\ \A x \in DOMAIN evidence \ DOMAIN more : Read(x)' /\ evidence'[x] = evidence[x]
          /\ \A x \in DOMAIN more : Read(x)' /\ evidence'[x] = more[x]
          /\ \A x : Read(x)' => x \in DOMAIN evidence \/ x \in DOMAIN more
      BY <1>c, <2>1, <3>1, <3>2
    <3>6. Done' /\ Faulty' => "error" \in Severities'
      BY <1>c, <2>1, <3>1, <3>2
    <3>7. /\ evidence'.holder = pidfile /\ (evidence'.holderAlive <=> pidfile \in alive \cup {Stranger})
          /\ evidence'.holderServes <=> pidfile \in Server
      BY <3>3, <3>4, <3>5, Zenon
    <3> HIDE DEF there
    <3> QED
      BY <2>1, <3>1, <3>3, <3>5, <3>6, <3>7
  <2>6. CASE ProbeServers
    <3>1. Adds([servers |-> alive]) /\ ~Read("servers") /\ Read("holder")
      BY <1>a, <2>1, <2>6 DEF ProbeServers, Fails, DoctorTypeInv
    <3>2. DOMAIN [servers |-> alive] = {"servers"}
      OBVIOUS
    <3> QED
      BY <1>c, <2>1, <3>1, <3>2
  <2>7. CASE ProbeFiles
    <3>1. Adds([disk |-> files, dir |-> files, socket |-> socket]) /\ ~Read("disk") /\ Read("servers")
      BY <1>a, <2>1, <2>7 DEF ProbeFiles, Fails, DoctorTypeInv
    <3>2. DOMAIN [disk |-> files, dir |-> files, socket |-> socket] = {"disk", "dir", "socket"}
      OBVIOUS
    <3> QED
      BY <1>c, <2>1, <3>1, <3>2
  <2> QED
    BY <1>1, <2>2, <2>3, <2>4, <2>5, <2>6, <2>7 DEF Probe
<1>2. CASE Conclude
  <2>1. EvidenceIsTrue /\ UNCHANGED <<worldVars, evidence>> /\ Read("disk")
    BY <1>2, <1>b DEF Conclude
  <2>2. report' = Conclusions(Noting(evidence, [alive |-> alive]))
    BY <1>2 DEF Conclude
  <2>3. Faulty' => "error" \in Severities'
    BY <1>a, <2>1, <2>2, FaultIsConcluded DEF Faulty, worldVars, Severities
  <2> QED
    BY <2>1, <2>3 DEF EvidenceIsTrue, Read, worldVars
<1>3. ASSUME Changes PROVE FALSE
  BY <1>3, <1>a DEF Changes, DoctorTypeInv
<1>4. CASE UNCHANGED doctorVars
  BY <1>4, <1>b DEF doctorVars, worldVars, EvidenceIsTrue, Read, Done, Faulty, Severities
<1> QED
  BY <1>1, <1>2, <1>3, <1>4 DEF DoctorNext, ServerDies, DaemonBinds, DaemonTakesPidfile, ProxyGone

\* A fault that is there throughout a diagnosis in which no probe fails ends as an error in
\* the report (doctor.ts, collectDiagnosis).
THEOREM SteadyFaultReported == DoctorSpec => []SteadyFaultIsReported
<1>1. DoctorInv => SteadyFaultIsReported
  BY DEF DoctorInv, EvidenceIsTrue, SteadyFaultIsReported
<1> QED
  BY <1>1, DoctorInvInit, DoctorInvStep, PTL DEF DoctorSpec

-----------------------------------------------------------------------------
(* A report without an error                                                *)

\* A probe adds to what was read, and takes nothing back.
LEMMA ReadsMore ==
    ASSUME NEW more, Adds(more)
    PROVE  /\ \A x \in DOMAIN evidence \ DOMAIN more : Read(x)' /\ evidence'[x] = evidence[x]
           /\ \A x \in DOMAIN more : Read(x)' /\ evidence'[x] = more[x]
           /\ \A x : Read(x)' => Read(x) \/ x \in DOMAIN more
<1>1. evidence' = Noting(evidence, more)
  BY DEF Adds
<1>2. /\ DOMAIN Noting(evidence, more) = DOMAIN evidence \cup DOMAIN more
      /\ \A x \in DOMAIN more : Noting(evidence, more)[x] = more[x]
      /\ \A x \in DOMAIN evidence \ DOMAIN more : Noting(evidence, more)[x] = evidence[x]
  BY NotingKeeps
<1> QED
  BY <1>1, <1>2 DEF Read

\* The one member of a set with no two.
LEMMA OnlyMember ==
    ASSUME NEW S, IsFiniteSet(S), ~(Cardinality(S) > 1), NEW x \in S
    PROVE  S = {x}
<1> SUFFICES ASSUME NEW y \in S, y # x PROVE FALSE
  OBVIOUS
<1>1. IsFiniteSet({x}) /\ Cardinality({x}) = 1
  BY FS_Singleton
<1>2. Cardinality({x} \cup {y}) = Cardinality({x}) + 1
  <2>1. y \notin {x}
    OBVIOUS
  <2>2. Cardinality({x} \cup {y}) = IF y \in {x} THEN Cardinality({x}) ELSE Cardinality({x}) + 1
    BY <1>1, FS_AddElement, Zenon
  <2> QED
    BY <2>1, <2>2, Zenon
<1>3. Cardinality({x} \cup {y}) <= Cardinality(S) /\ Cardinality(S) \in Nat
  <2>1. {x} \cup {y} \subseteq S
    OBVIOUS
  <2> QED
    BY <2>1, FS_Subset, FS_CardinalityType
<1> QED
  BY <1>1, <1>2, <1>3

\* The daemon that said hello, if it lives, listens; if the pidfile was found to name it, it
\* does so still, and if it was found alive they have agreed; and if it was then the one daemon,
\* and no probe failed, the channel was sound.
HelloListens ==
    Read("hello") /\ evidence.hello # NoServer =>
        /\ evidence.hello \in alive \cup ended
        /\ evidence.hello \in alive => listening = evidence.hello
HolderStays ==
    Read("holder") /\ evidence.hello # NoServer /\ evidence.holder = evidence.hello =>
        /\ evidence.hello \in alive => pidfile = evidence.hello
        /\ evidence.holderAlive => agreed
OneWasFound ==
    failures = 0 /\ Read("servers") /\ evidence.hello # NoServer /\ evidence.holder = evidence.hello
    /\ evidence.servers \cap Daemon = {evidence.hello} => wasSound

CleanInv ==
    /\ ended \subseteq Server /\ ended \cap alive = {} /\ (listening # NoServer => listening \in alive)
    /\ Agree(listening, pidfile) => agreed
    /\ OneDaemon(listening, pidfile, alive) => wasSound
    /\ Read("pinned") => Read("hello")
    /\ Read("holder") => Read("pinned") /\ Read("holderAlive")
    /\ Read("servers") => Read("holder") /\ evidence.servers \subseteq Server
    /\ Read("disk") => Read("servers")
    /\ HelloListens /\ HolderStays /\ OneWasFound
    /\ CleanReportWasTrue

LEMMA CleanInvInit == DoctorInit => CleanInv
<1> SUFFICES ASSUME DoctorInit PROVE CleanInv
  OBVIOUS
<1>1. (Agree(listening, pidfile) => agreed) /\ (OneDaemon(listening, pidfile, alive) => wasSound)
  BY Zenon DEF DoctorInit
<1> QED
  BY <1>1 DEF DoctorInit, CleanInv, Read, Done, CleanReportWasTrue, HelloListens, HolderStays, OneWasFound

\* A probe reads what is there.
LEMMA CleanProbe ==
    ASSUME DoctorTypeInv, CleanInv, Probe
    PROVE  CleanInv'
<1> USE DEF worldVars
<1>1. /\ UNCHANGED <<alive, ended, listening, pidfile, report, agreed, wasSound>>
      /\ failures' = 0 => failures = 0
  BY DEF Probe, ProbeHello, ProbeStatus, ProbePinned, ProbeHolder, ProbeServers, ProbeFiles, Fails, DoctorTypeInv
<1>2. PICK more : /\ Adds(more)
                  /\ \/ DOMAIN more = {"hello"} /\ ~Read("hello") /\ more.hello \in {listening, NoServer}
                     \/ DOMAIN more = {"status"}
                     \/ DOMAIN more = {"pinned"} /\ Read("hello")
                     \/ /\ DOMAIN more = {"holder", "holderAlive", "holderServes"}
                        /\ Read("pinned") /\ ~Read("holder") /\ more.holder \in {pidfile, NoServer}
                        /\ more.holderAlive <=> pidfile \in alive \cup {Stranger}
                     \/ /\ DOMAIN more = {"servers"} /\ Read("holder") /\ ~Read("servers")
                        /\ more.servers \subseteq Server
                        /\ failures' = 0 => more.servers = alive
                     \/ DOMAIN more = {"disk", "dir", "socket"} /\ Read("servers")
  <2>0. failures \in Nat /\ alive \subseteq Server
    BY DEF DoctorTypeInv
  <2>1. CASE ProbeHello
    <3>1. PICK h \in {listening, NoServer} : Adds([hello |-> h]) /\ ~Read("hello")
      BY <2>1 DEF ProbeHello
    <3>2. DOMAIN [hello |-> h] = {"hello"} /\ [hello |-> h].hello = h
      OBVIOUS
    <3> QED
      BY <3>1, <3>2
  <2>2. CASE ProbeStatus
    <3>1. PICK h : Adds([status |-> h])
      BY <2>2 DEF ProbeStatus
    <3>2. DOMAIN [status |-> h] = {"status"}
      OBVIOUS
    <3> QED
      BY <3>1, <3>2
  <2>3. CASE ProbePinned
    <3>1. PICK h : Adds([pinned |-> h]) /\ Read("hello")
      BY <2>3 DEF ProbePinned
    <3>2. DOMAIN [pinned |-> h] = {"pinned"}
      OBVIOUS
    <3> QED
      BY <3>1, <3>2
  <2>4. CASE ProbeHolder
    <3> DEFINE there == [holder |-> pidfile, holderAlive |-> pidfile \in alive \cup {Stranger},
                         holderServes |-> pidfile \in Server]
    <3>1. Read("pinned") /\ ~Read("holder")
      BY <2>4, Zenon DEF ProbeHolder
    <3>2. /\ DOMAIN there = {"holder", "holderAlive", "holderServes"} /\ there.holder = pidfile
          /\ there.holderAlive <=> pidfile \in alive \cup {Stranger}
      BY Zenon
    <3>3. ASSUME NEW failed \in {[holder |-> NoServer], [holderServes |-> FALSE]}
          PROVE  /\ DOMAIN Noting(there, failed) = {"holder", "holderAlive", "holderServes"}
                 /\ Noting(there, failed).holder \in {pidfile, NoServer}
                 /\ Noting(there, failed).holderAlive <=> pidfile \in alive \cup {Stranger}
      <4>1. /\ DOMAIN failed \in {{"holder"}, {"holderServes"}}
            /\ "holder" \in DOMAIN failed => failed.holder = NoServer
        OBVIOUS
      <4> HIDE DEF there
      <4>2. /\ DOMAIN Noting(there, failed) = DOMAIN there \cup DOMAIN failed
            /\ \A x \in DOMAIN failed : Noting(there, failed)[x] = failed[x]
            /\ \A x \in DOMAIN there \ DOMAIN failed : Noting(there, failed)[x] = there[x]
        BY NotingKeeps
      <4>3. Noting(there, failed).holderAlive = there.holderAlive
        BY <3>2, <4>1, <4>2
      <4> QED
        BY <3>2, <4>1, <4>2, <4>3
    <3>4. Adds(there) \/ \E failed \in {[holder |-> NoServer], [holderServes |-> FALSE]} : Adds(Noting(there, failed))
      BY <2>4, Zenon DEF ProbeHolder
    <3> HIDE DEF there
    <3> QED
      BY <3>1, <3>2, <3>3, <3>4, Zenon
  <2>5. CASE ProbeServers
    <3>1. PICK h \in SUBSET alive : /\ Adds([servers |-> h]) /\ Read("holder") /\ ~Read("servers")
                                    /\ failures' = 0 => h = alive
      <4>1. /\ Read("holder") /\ ~Read("servers")
            /\ \/ Adds([servers |-> alive])
               \/ /\ Fails
                  /\ \E missed \in {alive} \cup {{p} : p \in alive} : Adds([servers |-> alive \ missed])
        BY <2>5, Zenon DEF ProbeServers
      <4>2. Fails => failures' # 0
        BY <2>0 DEF Fails
      <4>3. \A missed : alive \ missed \in SUBSET alive
        OBVIOUS
      <4> QED
        BY <4>1, <4>2, <4>3, Zenon
    <3>2. DOMAIN [servers |-> h] = {"servers"} /\ [servers |-> h].servers = h /\ h \subseteq Server
      BY <2>0
    <3> QED
      BY <3>1, <3>2
  <2>6. CASE ProbeFiles
    <3>1. Read("servers")
      BY <2>6 DEF ProbeFiles
    <3>2. \E more : Adds(more) /\ DOMAIN more = {"disk", "dir", "socket"}
      <4> DEFINE found == [disk |-> files, dir |-> files, socket |-> socket]
      <4>1. DOMAIN found = {"disk", "dir", "socket"}
        OBVIOUS
      <4>2. ASSUME NEW failed \in {[disk |-> "unread"], [dir |-> "unread"], [socket |-> FALSE]}
            PROVE  DOMAIN Noting(found, failed) = {"disk", "dir", "socket"}
        <5>1. DOMAIN failed \subseteq {"disk", "dir", "socket"}
          OBVIOUS
        <5>2. DOMAIN Noting(found, failed) = DOMAIN found \cup DOMAIN failed
          BY NotingKeeps
        <5> QED
          BY <4>1, <5>1, <5>2
      <4>3. Adds(found) \/ \E failed \in {[disk |-> "unread"], [dir |-> "unread"], [socket |-> FALSE]} :
                               Adds(Noting(found, failed))
        BY <2>6 DEF ProbeFiles
      <4> HIDE DEF found
      <4> QED
        BY <4>1, <4>2, <4>3
    <3> QED
      BY <3>1, <3>2
  <2> QED
    BY <2>1, <2>2, <2>3, <2>4, <2>5, <2>6 DEF Probe
<1>3. /\ \A x \in DOMAIN evidence \ DOMAIN more : Read(x)' /\ evidence'[x] = evidence[x]
      /\ \A x \in DOMAIN more : Read(x)' /\ evidence'[x] = more[x]
      /\ \A x : Read(x)' => Read(x) \/ x \in DOMAIN more
  BY <1>2, ReadsMore
<1>4. /\ Read("holder") => Read("pinned") /\ Read("hello") /\ Read("holderAlive")
      /\ Read("servers") => Read("holder") /\ Read("hello")
      /\ Read("disk") => Read("servers")
      /\ Read("pinned") => Read("hello")
  BY DEF CleanInv
<1>5. /\ (Read("pinned") => Read("hello"))' /\ (Read("holder") => Read("pinned") /\ Read("holderAlive"))'
      /\ (Read("servers") => Read("holder") /\ evidence.servers \subseteq Server)'
      /\ (Read("disk") => Read("servers"))'
  BY <1>2, <1>3, <1>4 DEF CleanInv, Read
<1>6. HelloListens'
  <2>1. HelloListens /\ (listening # NoServer => listening \in alive)
    BY DEF CleanInv
  <2> QED
    BY <1>1, <1>2, <1>3, <2>1 DEF HelloListens, Read
<1>7. HolderStays'
  <2>1. HolderStays /\ HelloListens /\ (Agree(listening, pidfile) => agreed)
    BY DEF CleanInv
  <2>2. CASE ~(DOMAIN more = {"holder", "holderAlive", "holderServes"} /\ ~Read("holder"))
    BY <1>1, <1>2, <1>3, <1>4, <2>1, <2>2 DEF HolderStays, Read
  <2>3. CASE DOMAIN more = {"holder", "holderAlive", "holderServes"} /\ ~Read("holder")
    <3>1. Read("hello") /\ more.holder \in {pidfile, NoServer} /\ (more.holderAlive <=> pidfile \in alive \cup {Stranger})
      BY <1>2, <1>4, <2>3 DEF Read
    <3>2. /\ evidence'.hello = evidence.hello /\ evidence'.holder = more.holder
          /\ evidence'.holderAlive = more.holderAlive
      BY <1>3, <2>3, <3>1 DEF Read
    <3>3. ASSUME evidence.hello # NoServer, more.holder = evidence.hello
          PROVE  pidfile = evidence.hello /\ (more.holderAlive => agreed)
      <4>1. pidfile = evidence.hello /\ evidence.hello \in alive \cup ended
        BY <2>1, <3>1, <3>3 DEF HelloListens
      <4>2. pidfile # Stranger
        BY <4>1, DoctorAssumption DEF DoctorTypeInv, CleanInv
      <4>3. pidfile \in alive => Agree(listening, pidfile)
        BY <2>1, <3>1, <3>3, <4>1 DEF HelloListens, Agree
      <4> QED
        BY <2>1, <3>1, <4>1, <4>2, <4>3
    <3> QED
      BY <1>1, <3>2, <3>3 DEF HolderStays
  <2> QED
    BY <2>2, <2>3
<1>8. ASSUME failures' = 0 PROVE OneWasFound'
  <2>1. failures = 0 /\ OneWasFound /\ HelloListens /\ HolderStays
    BY <1>1, <1>8 DEF CleanInv
  <2>2. CASE ~(DOMAIN more = {"servers"} /\ Read("holder") /\ ~Read("servers") /\ more.servers = alive)
    BY <1>1, <1>2, <1>3, <1>4, <1>8, <2>1, <2>2 DEF OneWasFound, Read
  <2>3. CASE DOMAIN more = {"servers"} /\ Read("holder") /\ ~Read("servers") /\ more.servers = alive
    <3>1. evidence'.hello = evidence.hello /\ evidence'.holder = evidence.holder /\ evidence'.servers = alive
      BY <1>3, <1>4, <2>3 DEF Read
    <3>2. ASSUME evidence.hello # NoServer, evidence.holder = evidence.hello, alive \cap Daemon = {evidence.hello}
          PROVE  wasSound
      <4>1. evidence.hello \in alive
        BY <3>2
      <4>2. listening = evidence.hello /\ pidfile = evidence.hello
        BY <1>4, <2>1, <2>3, <3>2, <4>1 DEF HelloListens, HolderStays
      <4>3. OneDaemon(listening, pidfile, alive)
        BY <3>2, <4>2 DEF OneDaemon, Agree
      <4> QED
        BY <4>3 DEF CleanInv
    <3> QED
      BY <1>1, <3>1, <3>2 DEF OneWasFound
  <2> QED
    BY <2>2, <2>3
<1>9. CleanReportWasTrue'
  BY <1>1 DEF CleanInv, CleanReportWasTrue, Done, Severities
<1>10. OneWasFound'
  BY <1>8 DEF OneWasFound
<1> QED
  BY <1>1, <1>5, <1>6, <1>7, <1>9, <1>10 DEF CleanInv, Agree, OneDaemon

\* The checks that are drawn from the evidence are all well only if the daemon that said hello
\* is the one in the pidfile, and the one daemon among the servers.
LEMMA CleanConclusion ==
    ASSUME DoctorTypeInv, CleanInv, Conclude, Severities' \subseteq {"ok"}
    PROVE  agreed /\ (failures = 0 => wasSound)
<1>1. PICK e : e = Noting(evidence, [alive |-> alive])
  OBVIOUS
<1>2. report' = Conclusions(e) /\ Read("disk")
  BY <1>1 DEF Conclude
<1>3. {"hello", "holder", "holderAlive", "servers"} \subseteq DOMAIN evidence /\ evidence.servers \subseteq Server
  BY <1>2 DEF CleanInv, Read
<1>4. /\ e.hello = evidence.hello /\ e.holder = evidence.holder /\ e.servers = evidence.servers
      /\ e.holderAlive = evidence.holderAlive
  <2>1. DOMAIN [alive |-> alive] = {"alive"}
    OBVIOUS
  <2>2. \A x \in DOMAIN evidence \ {"alive"} : e[x] = evidence[x]
    BY <1>1, <2>1, NotingKeeps
  <2> QED
    BY <1>3, <2>2
<1>5. Reachable(e) = "ok" /\ ConnectionLock(e) = "ok" /\ Singleton(e) = "ok"
  <2>1. \A c \in DOMAIN Conclusions(e) : Conclusions(e)[c] = "ok"
    BY <1>2 DEF Severities
  <2>2. {"reachable", "lock", "singleton"} \subseteq DOMAIN Conclusions(e)
    BY DEF Conclusions
  <2>3. /\ Conclusions(e)["reachable"] = Reachable(e) /\ Conclusions(e)["lock"] = ConnectionLock(e)
        /\ Conclusions(e)["singleton"] = Singleton(e)
    BY DEF Conclusions
  <2> QED
    BY <2>1, <2>2, <2>3
<1>6. e.hello # NoServer
  BY <1>5 DEF Reachable
<1>7. e.holder = e.hello /\ e.holderAlive
  BY <1>5, <1>6 DEF ConnectionLock
<1>8. e.servers \cap Daemon = {e.hello}
  <2>1. ~(Cardinality(e.servers \cap Daemon) > 1) /\ e.hello \in e.servers \cap Daemon
    BY <1>5, <1>6 DEF Singleton
  <2>2. IsFiniteSet(e.servers \cap Daemon)
    BY <1>3, <1>4, FS_Subset, DoctorAssumption
  <2> QED
    BY <2>1, <2>2, OnlyMember
<1> QED
  BY <1>3, <1>4, <1>6, <1>7, <1>8 DEF CleanInv, HolderStays, OneWasFound, Read

\* A daemon that has ended does not come back, and one that lives keeps the socket.
LEMMA CleanChange ==
    ASSUME DoctorTypeInv, CleanInv, Changes,
           (\E p \in Server : ServerDies(p)) \/ (\E d \in Daemon : DaemonBinds(d) \/ DaemonTakesPidfile(d))
           \/ (\E x \in Proxy : ProxyGone(x))
    PROVE  CleanInv'
<1>1. UNCHANGED <<evidence, report, failures>> /\ ~Done
  BY DEF Changes, Done
<1>h. /\ Agree(listening', pidfile') => agreed'
      /\ OneDaemon(listening', pidfile', alive') => wasSound'
      /\ agreed => agreed'
      /\ wasSound => wasSound'
  BY Zenon DEF Changes
<1>2. \A x : Read(x)' <=> Read(x)
  BY <1>1 DEF Read
<1>3. alive \subseteq Server /\ NoServer \notin Server
  BY DoctorAssumption DEF DoctorTypeInv
<1>4. ended' \subseteq Server /\ ended' \cap alive' = {} /\ (listening' # NoServer => listening' \in alive')
  BY <1>3 DEF CleanInv, ServerDies, DaemonBinds, DaemonTakesPidfile, ProxyGone
<1>5. ASSUME Read("hello"), evidence.hello # NoServer
      PROVE  /\ evidence.hello \in alive' \cup ended'
             /\ evidence.hello \in alive' => evidence.hello \in alive /\ listening' = evidence.hello
             /\ pidfile = evidence.hello /\ evidence.hello \in alive' => pidfile' = evidence.hello
  BY <1>3, <1>5 DEF CleanInv, HelloListens, ServerDies, DaemonBinds, DaemonTakesPidfile, ProxyGone
<1>6. HelloListens'
  BY <1>1, <1>2, <1>5 DEF HelloListens
<1>7. HolderStays'
  <2>1. Read("holder") => Read("hello")
    BY DEF CleanInv
  <2>2. HolderStays
    BY DEF CleanInv
  <2> QED
    BY <1>1, <1>h, <1>2, <1>5, <2>1, <2>2 DEF HolderStays
<1>8. OneWasFound'
  BY <1>1, <1>h, <1>2 DEF OneWasFound, CleanInv
<1>9. CleanReportWasTrue'
  BY <1>1 DEF CleanReportWasTrue, Done
<1>10. (Agree(listening, pidfile) => agreed)' /\ (OneDaemon(listening, pidfile, alive) => wasSound)'
  BY <1>h DEF OneDaemon, Agree
<1> QED
  BY <1>1, <1>2, <1>4, <1>6, <1>7, <1>8, <1>9, <1>10 DEF CleanInv

LEMMA CleanInvStep == DoctorTypeInv /\ CleanInv /\ [DoctorNext]_doctorVars => CleanInv'
<1> SUFFICES ASSUME DoctorTypeInv, CleanInv, [DoctorNext]_doctorVars PROVE CleanInv'
  OBVIOUS
<1>1. CASE Probe
  BY <1>1, CleanProbe
<1>2. CASE Conclude
  <2>1. UNCHANGED <<alive, ended, listening, pidfile, evidence, failures, agreed, wasSound>>
    BY <1>2 DEF Conclude, worldVars
  <2>2. CleanReportWasTrue'
    BY <1>2, <2>1, CleanConclusion DEF CleanReportWasTrue
  <2> QED
    BY <2>1, <2>2 DEF CleanInv, Read, OneDaemon, Agree, HelloListens, HolderStays, OneWasFound
<1>3. CASE \/ \E p \in Server : ServerDies(p)
           \/ \E d \in Daemon : DaemonBinds(d) \/ DaemonTakesPidfile(d)
           \/ \E x \in Proxy : ProxyGone(x)
  <2>1. Changes
    BY <1>3 DEF ServerDies, DaemonBinds, DaemonTakesPidfile, ProxyGone
  <2> QED
    BY <1>3, <2>1, CleanChange
<1>4. CASE UNCHANGED doctorVars
  BY <1>4 DEF doctorVars, worldVars, CleanInv, Read, OneDaemon, Agree, HelloListens, HolderStays, OneWasFound,
              CleanReportWasTrue, Done, Severities
<1> QED
  BY <1>1, <1>2, <1>3, <1>4 DEF DoctorNext

\* A report in which every check is well is no mixture of moments, whatever probes fail: the
\* daemon at the socket did hold the inbound lock at some moment of the diagnosis, and if none
\* failed it was then the only daemon, however many servers came and went while the probes were
\* made (doctor.ts, collectDiagnosis).
THEOREM CleanReportIsTrue == DoctorSpec => []CleanReportWasTrue
<1>1. DoctorInv => DoctorTypeInv
  BY DEF DoctorInv
<1>2. CleanInv => CleanReportWasTrue
  BY DEF CleanInv
<1> QED
  BY <1>1, <1>2, DoctorInvInit, DoctorInvStep, CleanInvInit, CleanInvStep, PTL DEF DoctorSpec

-----------------------------------------------------------------------------
(* The access file: what the gate and the edits make of a content            *)

\* A content of the file, with what pairings of direct chats are made of.
IsContent(a) ==
    /\ IsAccess(a) /\ IsFiniteSet(DOMAIN a.pending)
    /\ \A c \in DOMAIN a.pending :
          IF a.pending[c].kind = "dm" THEN a.pending[c].chat = a.pending[c].sender
          ELSE a.pending[c].chat \in Group

\* The pairings of a are among those of b.
Within(a, b) ==
    DOMAIN a.pending \subseteq DOMAIN b.pending /\ \A c \in DOMAIN a.pending : a.pending[c] = b.pending[c]

LEMMA OnlyWithin ==
    ASSUME NEW a, NEW b, NEW S, b.pending = Only(a.pending, S)
    PROVE  Within(b, a)
<1>1. /\ DOMAIN b.pending = DOMAIN a.pending \cap S
      /\ \A x \in DOMAIN a.pending \cap S : b.pending[x] = a.pending[x]
  BY DEF Only
<1> QED
  BY <1>1 DEF Within

LEMMA WithAdds ==
    ASSUME NEW f, NEW x, NEW y
    PROVE  /\ DOMAIN With(f, x, y) = DOMAIN f \cup {x} /\ With(f, x, y)[x] = y
           /\ \A z \in DOMAIN f \ {x} : With(f, x, y)[z] = f[z]
BY DEF With

LEMMA NoneIsEmpty == DOMAIN None = {}
<1>1. [x \in {} |-> x] \in [{} -> {}]
  OBVIOUS
<1>2. None \in [{} -> {}]
  BY <1>1 DEF None
<1> QED
  BY <1>2

\* Keeping some of the pairings, and changing what is no pairing.
LEMMA FewerPairings ==
    ASSUME NEW a, IsContent(a), NEW b, DOMAIN b = DOMAIN a, Within(b, a),
           b.dmPolicy \in DmPolicy, b.groupPolicy \in GroupPolicy, b.allowFrom \subseteq Human \cup Bot,
           DOMAIN b.groups \subseteq Group, \A g \in DOMAIN b.groups : b.groups[g] \in GroupEntry
    PROVE  IsContent(b)
<1>1. /\ IsFiniteSet(DOMAIN b.pending)
      /\ Cardinality(DOMAIN b.pending) <= Cardinality(DOMAIN a.pending)
      /\ Cardinality(DOMAIN b.pending) \in Nat /\ Cardinality(DOMAIN a.pending) \in Nat
  BY FS_Subset, FS_CardinalityType DEF IsContent, Within
<1>2. Cardinality(DOMAIN b.pending) <= MaxPending
  BY <1>1, GateAssumption DEF IsContent, IsAccess
<1> QED
  BY <1>1, <1>2 DEF IsContent, IsAccess, Within

LEMMA PrunedIsContent ==
    ASSUME NEW a, IsContent(a), NEW ex
    PROVE  IsContent(Prune(a, ex)) /\ Within(Prune(a, ex), a)
<1> DEFINE b == Prune(a, ex)
<1>1. /\ DOMAIN b = DOMAIN a /\ b.pending = Only(a.pending, Code \ ex)
      /\ b.dmPolicy = a.dmPolicy /\ b.groupPolicy = a.groupPolicy
      /\ b.allowFrom = a.allowFrom /\ b.groups = a.groups
  BY DEF Prune, IsContent, IsAccess, DefaultAccess
<1> HIDE DEF b
<1>2. Within(b, a)
  BY <1>1, OnlyWithin
<1> QED
  BY <1>1, <1>2, FewerPairings DEF IsContent, IsAccess, b

\* The operator's edits add no pairing.
LEMMA EditedIsContent ==
    ASSUME NEW a, IsContent(a), NEW b \in Edits(a)
    PROVE  IsContent(b) /\ Within(b, a)
<1>1. ASSUME NEW c \in DOMAIN a.pending, b = Approve(a, c) PROVE IsContent(b) /\ Within(b, a)
  <2>1. a.pending[c] \in PendingEntry
    BY DEF IsContent, IsAccess
  <2>2. DOMAIN b = DOMAIN a /\ b.pending = Only(a.pending, Code \ {c})
        /\ b.dmPolicy = a.dmPolicy /\ b.groupPolicy = a.groupPolicy
    BY <1>1 DEF Approve, IsContent, IsAccess, DefaultAccess
  <2>3. Within(b, a)
    BY <2>2, OnlyWithin
  <2>4. CASE a.pending[c].kind = "dm"
    <3>1. b.allowFrom = a.allowFrom \cup {a.pending[c].sender} /\ b.groups = a.groups
      BY <1>1, <2>4 DEF Approve, IsContent, IsAccess, DefaultAccess
    <3> QED
      BY <2>1, <2>2, <2>3, <3>1, FewerPairings DEF IsContent, IsAccess, PendingEntry
  <2>5. CASE a.pending[c].kind # "dm"
    <3> DEFINE entry == [requireMention |-> TRUE, allowFrom |-> {}]
    <3>1. entry \in GroupEntry
      BY DEF GroupEntry
    <3>2. b.allowFrom = a.allowFrom /\ b.groups = With(a.groups, a.pending[c].chat, entry)
      BY <1>1, <2>5 DEF Approve, IsContent, IsAccess, DefaultAccess
    <3> HIDE DEF entry
    <3>3. a.pending[c].chat \in Group
      BY <2>5 DEF IsContent
    <3>4. DOMAIN b.groups \subseteq Group /\ \A g \in DOMAIN b.groups : b.groups[g] \in GroupEntry
      BY <3>1, <3>2, <3>3 DEF With, IsContent, IsAccess
    <3> QED
      BY <2>2, <2>3, <3>2, <3>4, FewerPairings DEF IsContent, IsAccess
  <2> QED
    BY <2>4, <2>5
<1>2. ASSUME NEW s \in a.allowFrom, b = Block(a, s) PROVE IsContent(b) /\ Within(b, a)
  BY <1>2, FewerPairings DEF Block, IsContent, IsAccess, DefaultAccess, Within
<1>3. ASSUME NEW p \in GroupPolicy, b = SetGroupPolicy(a, p) PROVE IsContent(b) /\ Within(b, a)
  BY <1>3, FewerPairings DEF SetGroupPolicy, IsContent, IsAccess, DefaultAccess, Within
<1> QED
  BY <1>1, <1>2, <1>3 DEF Edits

\* What the gate answers to message m on content a: it lets the message pass or drops it, and
\* keeps no pairing that a lacks; or it asks for a pairing in the chat of m, under a new code or
\* under the code of the pairing that a has for this chat.
Passes(d, a) == d.action \in {"deliver", "drop"} /\ IsContent(d.access) /\ Within(d.access, a)

Pairs(d, a, m, new) ==
    /\ d.action = "pair" /\ d.code \in Code /\ IsContent(d.access)
    /\ d.code \in DOMAIN d.access.pending /\ d.access.pending[d.code].chat = m.chat
    /\ DOMAIN d.access.pending \subseteq DOMAIN a.pending \cup {d.code}
    /\ \A c \in DOMAIN d.access.pending \ {d.code} : d.access.pending[c] = a.pending[c]
    /\ d.code = new \/ (d.code \in DOMAIN a.pending /\ a.pending[d.code].chat = m.chat)

LEMMA DropPasses ==
    ASSUME NEW a, IsContent(a) PROVE Passes(Drop(a), a) /\ Passes(Deliver(a), a)
BY DEF Passes, Drop, Deliver, Within

LEMMA PairPairs ==
    ASSUME NEW a, IsContent(a), NEW m, NEW new, NEW code \in Code, NEW e \in PendingEntry, e.chat = m.chat,
           IF e.kind = "dm" THEN e.chat = e.sender ELSE e.chat \in Group,
           \/ code = new /\ Cardinality(DOMAIN a.pending) < MaxPending
           \/ code \in DOMAIN a.pending /\ a.pending[code].chat = m.chat
    PROVE  Pairs(Pair(a, code, e), a, m, new)
<1> DEFINE d == Pair(a, code, e)
           b == [a EXCEPT !.pending = With(@, code, e)]
<1>1. d.action = "pair" /\ d.code = code /\ d.access = b
  BY DEF Pair
<1>2. /\ DOMAIN b = DOMAIN a /\ b.pending = With(a.pending, code, e) /\ b.dmPolicy = a.dmPolicy
      /\ b.groupPolicy = a.groupPolicy /\ b.allowFrom = a.allowFrom /\ b.groups = a.groups
  BY DEF IsContent, IsAccess, DefaultAccess
<1>3. /\ DOMAIN With(a.pending, code, e) = DOMAIN a.pending \cup {code}
      /\ With(a.pending, code, e)[code] = e
      /\ \A z \in DOMAIN a.pending \ {code} : With(a.pending, code, e)[z] = a.pending[z]
  BY DEF With
<1> HIDE DEF b, d
<1>4. /\ DOMAIN b.pending = DOMAIN a.pending \cup {code} /\ b.pending[code] = e
      /\ \A z \in DOMAIN a.pending \ {code} : b.pending[z] = a.pending[z]
  BY <1>2, <1>3
<1>5. IsFiniteSet(DOMAIN b.pending) /\ Cardinality(DOMAIN b.pending) <= MaxPending
  <2>1. IsFiniteSet(DOMAIN a.pending) /\ Cardinality(DOMAIN a.pending) \in Nat /\ Cardinality(DOMAIN a.pending) <= MaxPending
    BY FS_CardinalityType DEF IsContent, IsAccess
  <2>2. CASE code \in DOMAIN a.pending
    <3>1. DOMAIN a.pending \cup {code} = DOMAIN a.pending
      BY <2>2
    <3> QED
      BY <1>4, <2>1, <3>1
  <2>3. CASE code \notin DOMAIN a.pending
    <3>1. /\ IsFiniteSet(DOMAIN a.pending \cup {code})
          /\ Cardinality(DOMAIN a.pending \cup {code}) = Cardinality(DOMAIN a.pending) + 1
      BY <2>1, <2>3, FS_AddElement
    <3> QED
      BY <1>4, <2>1, <2>3, <3>1, GateAssumption
  <2> QED
    BY <2>2, <2>3
<1>6. IsContent(b)
  BY <1>2, <1>4, <1>5 DEF IsContent, IsAccess
<1>7. Pairs(d, a, m, new)
  BY <1>1, <1>4, <1>6 DEF Pairs
<1> QED
  BY <1>7 DEF d

LEMMA GateAnswers ==
    ASSUME NEW a, IsContent(a), NEW ex, NEW m \in InboundMessage, NEW b, NEW intro, NEW new \in Code
    PROVE  Passes(Gate(a, ex, m, b, intro, new), a) \/ Pairs(Gate(a, ex, m, b, intro, new), a, m, new)
<1> DEFINE p == Prune(a, ex)
<1>1. IsContent(p) /\ Within(p, a)
  BY PrunedIsContent
<1> HIDE DEF p
<1>2. /\ \A d : Passes(d, p) => Passes(d, a)
      /\ \A d : Pairs(d, p, m, new) => Pairs(d, a, m, new)
  BY <1>1 DEF Passes, Pairs, Within
<1>3. /\ m.sender \in Human \cup Bot /\ m.chat \in Chat /\ (m.chat \notin Group => m.chat = m.sender)
      /\ p.dmPolicy \in DmPolicy /\ p.groupPolicy \in GroupPolicy
  BY <1>1 DEF InboundMessage, IsContent, IsAccess
<1>4. Passes(Drop(p), p) /\ Passes(Deliver(p), p)
  BY <1>1, DropPasses
<1>5. ASSUME NEW kind \in {"dm", "group"}, IF kind = "dm" THEN m.chat = m.sender ELSE m.chat \in Group
      PROVE  Passes(NewPairing(p, kind, m, new), p) \/ Pairs(NewPairing(p, kind, m, new), p, m, new)
  <2> DEFINE e == [kind |-> kind, sender |-> m.sender, chat |-> m.chat, replies |-> 1]
  <2>1. e \in PendingEntry /\ e.chat = m.chat /\ e.kind = kind /\ e.sender = m.sender
    BY <1>3, GateAssumption DEF PendingEntry
  <2> HIDE DEF e
  <2>2. CASE Cardinality(DOMAIN p.pending) >= MaxPending
    BY <1>4, <2>2 DEF NewPairing
  <2>3. CASE ~(Cardinality(DOMAIN p.pending) >= MaxPending)
    <3>1. Cardinality(DOMAIN p.pending) < MaxPending
      BY <1>1, <2>3, FS_CardinalityType, GateAssumption DEF IsContent
    <3>2. Pairs(Pair(p, new, e), p, m, new)
      BY <1>1, <1>5, <2>1, <3>1, PairPairs
    <3> QED
      BY <2>3, <3>2 DEF NewPairing, e
  <2> QED
    BY <2>2, <2>3
<1>6. CASE m.chat \in Group
  <2> DEFINE d == GateGroup(p, m, b, intro, new)
  <2>1. Passes(d, p) \/ Pairs(d, p, m, new)
    <3>1. CASE p.groupPolicy = "block"
      BY <1>4, <3>1 DEF GateGroup
    <3>2. CASE p.groupPolicy = "follow-user"
      BY <1>4, <3>2 DEF GateGroup, GateFollowUser
    <3>3. CASE p.groupPolicy = "allowlist"
      <4>1. d = IF m.chat \in DOMAIN p.groups THEN GateConfigured(p, m, b) ELSE GateUnconfigured(p, m, b, new)
        BY <3>3 DEF GateGroup
      <4> QED
        BY <1>4, <1>5, <1>6, <4>1 DEF GateConfigured, GateUnconfigured
    <3> QED
      BY <1>3, <3>1, <3>2, <3>3 DEF GroupPolicy
  <2>2. Gate(a, ex, m, b, intro, new) = d
    BY <1>6 DEF Gate, p
  <2> QED
    BY <1>2, <2>1, <2>2
<1>7. CASE m.chat \notin Group
  <2> DEFINE d == GateDirect(p, m, new)
             code == CHOOSE c \in PairingOf(p, m.sender) : TRUE
             entry == p.pending[code]
             again == [entry EXCEPT !.replies = @ + 1]
  <2>1. ASSUME PairingOf(p, m.sender) # {}, ~(entry.replies >= MaxReplies) PROVE Pairs(Pair(p, code, again), p, m, new)
    <3>1. code \in DOMAIN p.pending /\ entry.kind = "dm" /\ entry.sender = m.sender
      <4>1. code \in PairingOf(p, m.sender)
        BY <2>1
      <4> QED
        BY <4>1 DEF PairingOf
    <3>2. code \in Code /\ entry \in PendingEntry /\ entry.chat = entry.sender
      BY <1>1, <3>1 DEF IsContent, IsAccess
    <3>3. /\ again \in PendingEntry /\ again.chat = entry.chat /\ again.kind = entry.kind
          /\ again.sender = entry.sender
      <4>1. ASSUME NEW r \in PendingEntry, ~(r.replies >= MaxReplies), NEW q, q = [r EXCEPT !.replies = @ + 1]
            PROVE  q \in PendingEntry /\ q.chat = r.chat /\ q.kind = r.kind /\ q.sender = r.sender
        BY <4>1, GateAssumption DEF PendingEntry
      <4> HIDE DEF entry
      <4> QED
        BY <2>1, <3>2, <4>1
    <3> QED
      BY <1>1, <1>3, <1>7, <3>1, <3>2, <3>3, PairPairs
  <2>2. Passes(d, p) \/ Pairs(d, p, m, new)
    <3> HIDE DEF again, entry
    <3> QED
      BY <1>3, <1>4, <1>5, <1>7, <2>1 DEF GateDirect, entry, again
  <2>3. Gate(a, ex, m, b, intro, new) = d
    BY <1>7 DEF Gate, p
  <2> QED
    BY <1>2, <2>2, <2>3
<1> QED
  BY <1>6, <1>7

-----------------------------------------------------------------------------
(* The peer bots of a chat                                                  *)

IsBots(state) ==
    /\ DOMAIN state = {"openIds", "introduced", "pendingNewBots", "injected", "needsBaseline", "joined"}
    /\ state.introduced \cup state.pendingNewBots \subseteq state.openIds

\* A chat-bots file after more bots became known: the new ones are queued.
Grows(s, t) ==
    /\ IsBots(t) /\ s.openIds \subseteq t.openIds
    /\ t.pendingNewBots = s.pendingNewBots \cup (t.openIds \ s.openIds)
    /\ t.injected = s.injected /\ t.needsBaseline = s.needsBaseline

LEMMA GrowsMore ==
    ASSUME NEW s, NEW t, NEW u, Grows(s, t), Grows(t, u) PROVE Grows(s, u)
BY DEF Grows

LEMMA LearnGrows ==
    ASSUME NEW s, IsBots(s), NEW bs PROVE Grows(s, Learn(s, bs))
BY DEF IsBots, Grows, Learn

LEMMA IntroduceGrows ==
    ASSUME NEW s, IsBots(s), NEW bs PROVE Grows(s, Introduce(s, bs))
<1>1. PICK t : t = Learn(s, bs)
  OBVIOUS
<1>2. Grows(s, t) /\ bs \subseteq t.openIds
  BY <1>1, LearnGrows DEF Learn, IsBots
<1>3. PICK u : u = Introduce(s, bs)
  OBVIOUS
<1>4. DOMAIN u = DOMAIN t /\ u.openIds = t.openIds /\ u.introduced = t.introduced \cup bs
      /\ u.pendingNewBots = t.pendingNewBots /\ u.injected = t.injected /\ u.needsBaseline = t.needsBaseline
  BY <1>1, <1>2, <1>3 DEF Introduce, Grows, IsBots
<1> QED
  BY <1>2, <1>3, <1>4 DEF Grows, IsBots

\* Where a peer bot b of a chat with the given file and announcements stands.
Settled(state, seenBy, b) == b \in seenBy \/ b \in state.pendingNewBots \/ ShowsBaseline(state)

\* What a delivery in flight shows covers what its commit clears, and the baseline covers
\* every peer bot that is neither queued nor announced.
Covers(d, state, seenBy) ==
    /\ Peers(d.clears) \subseteq d.shows
    /\ d.baseline => \A b \in Peers(state.openIds) : b \in d.shows \/ b \in state.pendingNewBots \/ b \in seenBy

LEMMA DiscoveryCovers ==
    ASSUME NEW s, IsBots(s), NEW seenBy PROVE Covers(Discovery(s), s, seenBy)
<1>1. PICK d : d = Discovery(s)
  OBVIOUS
<1>2. CASE ShowsBaseline(s)
  <2>1. d.shows = Peers(s.openIds) /\ d.clears = s.pendingNewBots
    BY <1>1, <1>2 DEF Discovery
  <2> QED
    BY <1>1, <2>1 DEF Covers, IsBots, Peers
<1>3. CASE ~ShowsBaseline(s)
  <2>1. d.shows = Peers(s.pendingNewBots) /\ d.clears = Peers(s.pendingNewBots) /\ d.baseline = FALSE
    BY <1>1, <1>3 DEF Discovery
  <2> QED
    BY <1>1, <2>1 DEF Covers, Peers
<1> QED
  BY <1>2, <1>3

LEMMA GrowingKeeps ==
    ASSUME NEW s, NEW t, Grows(s, t), NEW seenBy
    PROVE  /\ \A b \in Peers(t.openIds) : (b \in Peers(s.openIds) => Settled(s, seenBy, b)) => Settled(t, seenBy, b)
           /\ \A d : Covers(d, s, seenBy) => Covers(d, t, seenBy)
BY DEF Grows, Settled, Covers, ShowsBaseline, Peers

LEMMA CommitKeeps ==
    ASSUME NEW s, IsBots(s), NEW seenBy, NEW d, Covers(d, s, seenBy)
    PROVE  /\ IsBots(Commit(s, d)) /\ Commit(s, d).openIds = s.openIds
           /\ \A b \in Peers(s.openIds) : Settled(s, seenBy, b) => Settled(Commit(s, d), seenBy \cup d.shows, b)
           /\ \A e : Covers(e, s, seenBy) => Covers(e, Commit(s, d), seenBy \cup d.shows)
<1>1. PICK t : t = Commit(s, d)
  OBVIOUS
<1>2. /\ DOMAIN t = DOMAIN s /\ t.openIds = s.openIds /\ t.introduced = s.introduced
      /\ t.pendingNewBots = s.pendingNewBots \ d.clears
      /\ t.injected = (s.injected \/ d.baseline) /\ t.needsBaseline = (s.needsBaseline /\ ~d.baseline)
  BY <1>1 DEF Commit, IsBots
<1>3. ASSUME NEW b \in Peers(s.openIds), b \in s.pendingNewBots
      PROVE  b \in t.pendingNewBots \/ b \in seenBy \cup d.shows
  BY <1>2, <1>3 DEF Covers, Peers
<1>4. ASSUME NEW b \in Peers(s.openIds), Settled(s, seenBy, b) PROVE Settled(t, seenBy \cup d.shows, b)
  <2>1. CASE d.baseline
    BY <1>3, <1>4, <2>1 DEF Settled, Covers
  <2>2. CASE ~d.baseline
    <3>1. ShowsBaseline(s) => ShowsBaseline(t)
      BY <1>2, <2>2, Zenon DEF ShowsBaseline
    <3> QED
      BY <1>3, <1>4, <3>1 DEF Settled
  <2> QED
    BY <2>1, <2>2
<1>5. ASSUME NEW e, Covers(e, s, seenBy) PROVE Covers(e, t, seenBy \cup d.shows)
  BY <1>2, <1>3, <1>5 DEF Covers
<1>6. IsBots(t)
  BY <1>2 DEF IsBots
<1> QED
  BY <1>1, <1>2, <1>4, <1>5, <1>6

-----------------------------------------------------------------------------
(* The codes                                                                *)

Sends == {h \in awaiting : h.does = "sends"}
Seen(c) == \E x \in shown : x.code = c

\* A code that was sent, or is being sent, was sent to the chat of its pairing.
Fits(a) ==
    \A c \in DOMAIN a.pending : \A x \in shown \cup Sends : x.code = c => x.chat = a.pending[c].chat

\* A content of the access file whose codes have all been seen, but those of the set new.
Good(a, new) == IsContent(a) /\ Fits(a) /\ \A c \in DOMAIN a.pending : c \in new \/ Seen(c)

\* The file, the contents an edit was made of and will write, and those a handler will save.
AccessInv ==
    /\ Good(access, {})
    /\ \A e \in editing : Good(e.of, {}) /\ Good(e.to, {})
    /\ \A h \in Sends : Good(h.saves, {h.code})

LEMMA FewerIsGood ==
    ASSUME NEW a, NEW b, NEW new, Good(a, new), IsContent(b), Within(b, a) PROVE Good(b, new)
BY DEF Good, Fits, Within

\* Sending what was being sent, or nothing, keeps every content good.
LEMMA GoodStays ==
    ASSUME shown \subseteq shown',
           \A y \in shown' \cup Sends' : \E x \in shown \cup Sends : y.code = x.code /\ y.chat = x.chat
    PROVE  \A a, new : Good(a, new) => Good(a, new)'
<1>1. ASSUME NEW a, NEW new, Good(a, new) PROVE Good(a, new)'
  <2>1. ASSUME NEW c \in DOMAIN a.pending, NEW y \in shown' \cup Sends', y.code = c PROVE y.chat = a.pending[c].chat
    BY <1>1, <2>1 DEF Good, Fits
  <2>2. \A c : Seen(c) => Seen(c)'
    BY DEF Seen
  <2> QED
    BY <1>1, <2>1, <2>2 DEF Good, Fits
<1> QED
  BY <1>1

LEMMA AccessInvInit == ImInit => AccessInv
<1> SUFFICES ASSUME ImInit PROVE AccessInv
  OBVIOUS
<1>1. PICK p \in DmPolicy, q \in GroupPolicy : access = [DefaultAccess EXCEPT !.dmPolicy = p, !.groupPolicy = q]
  BY DEF ImInit
<1>2. /\ DOMAIN access = DOMAIN DefaultAccess /\ access.dmPolicy = p /\ access.groupPolicy = q
      /\ access.allowFrom = {} /\ access.groups = None /\ access.pending = None
  BY <1>1 DEF DefaultAccess
<1>3. DOMAIN access.pending = {} /\ DOMAIN access.groups = {}
  BY <1>2, NoneIsEmpty
<1>4. Good(access, {})
  BY <1>2, <1>3, FS_EmptySet, GateAssumption DEF Good, Fits, IsContent, IsAccess
<1> QED
  BY <1>4 DEF ImInit, AccessInv, Sends

\* A handler passes the message on or drops it, and keeps no pairing the file lacks; or it
\* sends a code, and the file stays as it is.
LEMMA ReceiveAnswers ==
    ASSUME AccessInv, NEW m \in InboundMessage, Receive(m)
    PROVE  \E d :
             \/ /\ access' = access \/ (access' = d.access /\ Passes(d, access))
                /\ Sends' = Sends
             \/ /\ Pairs(d, access, m, FreshCode) /\ access' = access
                /\ awaiting' = awaiting \cup {[does |-> "sends", code |-> d.code, chat |-> m.chat, saves |-> d.access]}
<1>1. FreshCode \in Code
  BY DEF Receive, FreshCode, Unused
<1> DEFINE seen == Observed(m)
           trusted == IF m.chat \in Group THEN seen[m.chat].introduced ELSE {}
<1>2. PICK d : d = Gate(access, expired, m, botId, trusted, FreshCode)
  OBVIOUS
<1>3. Passes(d, access) \/ Pairs(d, access, m, FreshCode)
  BY <1>1, <1>2, GateAnswers DEF AccessInv, Good
<1>4. m.introduces \in BOOLEAN
  BY DEF InboundMessage
<1>5. /\ m.introduces => UNCHANGED awaiting /\ access' = IF d.action = "deliver" THEN d.access ELSE access
      /\ ~m.introduces /\ d.action = "drop" => UNCHANGED awaiting /\ access' = d.access
      /\ ~m.introduces /\ d.action = "pair" => Prompt(m, d.code, d.access)
  BY <1>2, <1>4 DEF Receive
<1>6. ~m.introduces /\ d.action = "deliver" =>
          /\ access' = d.access
          /\ awaiting' = IF m.chat \in Group
                         THEN awaiting \cup {[does |-> "delivers", code |-> "none", chat |-> m.chat,
                                              finds |-> Discovery(seen[m.chat])]}
                         ELSE awaiting
  BY <1>2, <1>4 DEF Receive
<1>7. CASE m.introduces \/ Passes(d, access)
  <2>1. Sends' = Sends
    BY <1>5, <1>6, <1>7 DEF Sends, Passes
  <2>2. access' = access \/ (access' = d.access /\ Passes(d, access))
    BY <1>3, <1>5, <1>6, <1>7 DEF Passes, Pairs
  <2> QED
    BY <2>1, <2>2
<1>8. CASE ~m.introduces /\ Pairs(d, access, m, FreshCode)
  BY <1>5, <1>8 DEF Prompt, Pairs
<1> QED
  BY <1>3, <1>7, <1>8

\* A new code is in no content of the file, and the code of a direct chat's pairing goes to
\* this chat again.
LEMMA SendKeeps ==
    ASSUME AccessInv, Unused # {}, NEW m, NEW d, Pairs(d, access, m, FreshCode), UNCHANGED <<shown, editing, access>>,
           awaiting' = awaiting \cup {[does |-> "sends", code |-> d.code, chat |-> m.chat, saves |-> d.access]}
    PROVE  AccessInv'
<1>1. PICK h : h = [does |-> "sends", code |-> d.code, chat |-> m.chat, saves |-> d.access]
  OBVIOUS
<1>2. Sends' = Sends \cup {h} /\ h.code = d.code /\ h.chat = m.chat /\ h.saves = d.access
  BY <1>1 DEF Sends
<1>3. \A x \in shown \cup Sends : x.code # FreshCode
  BY DEF FreshCode, Unused, Sends
<1>4. Good(access, {})
  BY DEF AccessInv
<1>5. ASSUME NEW a, NEW new, Good(a, new), new = {} \/ \E x \in Sends : new = {x.code}, NEW c \in DOMAIN a.pending, c = d.code
      PROVE  a.pending[c].chat = m.chat
  <2>1. PICK x \in shown \cup Sends : x.code = c
    BY <1>5 DEF Good, Seen
  <2>2. d.code \in DOMAIN access.pending /\ access.pending[d.code].chat = m.chat
    BY <1>3, <1>5, <2>1 DEF Pairs
  <2>3. x.chat = a.pending[c].chat
    BY <1>5, <2>1 DEF Good, Fits
  <2>4. x.chat = access.pending[c].chat
    BY <1>4, <1>5, <2>1, <2>2 DEF Good, Fits
  <2> QED
    BY <1>5, <2>2, <2>3, <2>4
<1>6. ASSUME NEW a, NEW new, Good(a, new), new = {} \/ \E x \in Sends : new = {x.code} PROVE Good(a, new)'
  <2>1. ASSUME NEW c \in DOMAIN a.pending, NEW x \in shown' \cup Sends', x.code = c PROVE x.chat = a.pending[c].chat
    <3>1. CASE x = h
      BY <1>2, <1>5, <1>6, <2>1, <3>1
    <3>2. CASE x \in shown \cup Sends
      BY <1>6, <2>1, <3>2 DEF Good, Fits
    <3> QED
      BY <1>2, <2>1, <3>1, <3>2
  <2>2. \A c : Seen(c) => Seen(c)'
    BY DEF Seen
  <2> QED
    BY <1>6, <2>1, <2>2 DEF Good, Fits
<1>7. Good(d.access, {d.code})'
  <2>1. IsContent(d.access)
    BY DEF Pairs
  <2>2. ASSUME NEW c \in DOMAIN d.access.pending, NEW x \in shown' \cup Sends', x.code = c
        PROVE  x.chat = d.access.pending[c].chat
    <3>1. CASE c # d.code
      <4>1. c \in DOMAIN access.pending /\ d.access.pending[c] = access.pending[c] /\ x # h
        BY <1>2, <2>2, <3>1 DEF Pairs
      <4> QED
        BY <1>2, <1>4, <2>2, <4>1 DEF Good, Fits
    <3>2. CASE c = d.code /\ x # h
      <4>1. x \in shown \cup Sends
        BY <1>2, <2>2, <3>2
      <4>2. d.code \in DOMAIN access.pending /\ access.pending[d.code].chat = m.chat
        BY <1>3, <2>2, <3>2, <4>1 DEF Pairs
      <4> QED
        BY <1>4, <2>2, <3>2, <4>1, <4>2 DEF Good, Fits, Pairs
    <3>3. CASE c = d.code /\ x = h
      BY <1>2, <3>3 DEF Pairs
    <3> QED
      BY <3>1, <3>2, <3>3
  <2>3. ASSUME NEW c \in DOMAIN d.access.pending PROVE c = d.code \/ Seen(c)'
    BY <1>4 DEF Good, Seen, Pairs
  <2> QED
    BY <2>1, <2>2, <2>3 DEF Good, Fits
<1>8. \A x \in Sends : Good(x.saves, {x.code})'
  BY <1>6 DEF AccessInv
<1>9. Good(access, {})' /\ \A e \in editing : Good(e.of, {})' /\ Good(e.to, {})'
  <2>1. PICK a : a = access
    OBVIOUS
  <2>2. Good(a, {})'
    BY <1>4, <1>6, <2>1
  <2>3. Good(access, {})'
    BY <2>1, <2>2 DEF Good, Fits, Seen, Sends
  <2> QED
    BY <1>6, <2>3 DEF AccessInv
<1>10. \A x \in Sends' : Good(x.saves, {x.code})'
  BY <1>2, <1>7, <1>8
<1> QED
  BY <1>9, <1>10 DEF AccessInv

LEMMA AccessInvStep == AccessInv /\ [ImNext]_imVars => AccessInv'
<1> SUFFICES ASSUME AccessInv, [ImNext]_imVars PROVE AccessInv'
  OBVIOUS
<1>1. ASSUME UNCHANGED <<shown, editing>>, Sends' = Sends, NEW a, a = access', Good(a, {}) PROVE AccessInv'
  <2>1. \A b, new : Good(b, new) => Good(b, new)'
    BY <1>1, GoodStays
  <2>2. Good(a, {})'
    BY <1>1, <2>1
  <2>3. Good(access, {})'
    BY <1>1, <2>2 DEF Good, Fits, Seen, Sends
  <2> QED
    BY <1>1, <2>1, <2>3 DEF AccessInv
<1>2. ASSUME NEW m \in InboundMessage, Receive(m) PROVE AccessInv'
  <2>1. UNCHANGED <<shown, editing>> /\ Unused # {}
    BY <1>2 DEF Receive
  <2>2. PICK d :
          \/ /\ access' = access \/ (access' = d.access /\ Passes(d, access))
             /\ Sends' = Sends
          \/ /\ Pairs(d, access, m, FreshCode) /\ access' = access
             /\ awaiting' = awaiting \cup {[does |-> "sends", code |-> d.code, chat |-> m.chat, saves |-> d.access]}
    BY <1>2, ReceiveAnswers
  <2>3. CASE Sends' = Sends /\ (access' = access \/ (access' = d.access /\ Passes(d, access)))
    <3>1. PICK a : a = access'
      OBVIOUS
    <3>2. Good(access, {})
      BY DEF AccessInv
    <3>3. Good(a, {})
      BY <2>3, <3>1, <3>2, FewerIsGood DEF Passes
    <3> QED
      BY <1>1, <2>1, <2>3, <3>1, <3>3
  <2>4. CASE Pairs(d, access, m, FreshCode) /\ access' = access
             /\ awaiting' = awaiting \cup {[does |-> "sends", code |-> d.code, chat |-> m.chat, saves |-> d.access]}
    BY <2>1, <2>4, SendKeeps
  <2> QED
    BY <2>2, <2>3, <2>4
<1>3. ASSUME NEW h \in awaiting, PromptSent(h) \/ PromptFails(h) PROVE AccessInv'
  <2>1. /\ h \in Sends /\ Sends' = Sends \ {h} /\ UNCHANGED editing
        /\ shown' = shown \cup {[code |-> h.code, chat |-> h.chat]} \/ (shown' = shown /\ access' = access)
        /\ access' = h.saves \/ access' = access
        /\ access' = access \/ shown' = shown \cup {[code |-> h.code, chat |-> h.chat]}
    BY <1>3 DEF PromptSent, PromptFails, Sends
  <2>2. PICK s : s = [code |-> h.code, chat |-> h.chat]
    OBVIOUS
  <2>3. s.code = h.code /\ s.chat = h.chat
    BY <2>2
  <2>4. \A b, new : Good(b, new) => Good(b, new)'
    BY <2>1, <2>2, <2>3, GoodStays
  <2>5. PICK a : a = access'
    OBVIOUS
  <2>6. Good(a, {})'
    <3>1. CASE access' = access
      BY <2>4, <2>5, <3>1 DEF AccessInv
    <3>2. CASE access' # access
      <4>1. Good(h.saves, {h.code})'
        BY <2>1, <2>4 DEF AccessInv
      <4>2. Seen(h.code)'
        BY <2>1, <2>2, <2>3, <3>2 DEF Seen
      <4> QED
        BY <2>1, <2>5, <3>2, <4>1, <4>2 DEF Good, Fits
    <3> QED
      BY <3>1, <3>2
  <2>7. Good(access, {})'
    BY <2>5, <2>6 DEF Good, Fits, Seen, Sends
  <2> QED
    BY <2>1, <2>4, <2>7 DEF AccessInv
<1>4. CASE Restart
  <2>1. /\ Sends' = {} /\ UNCHANGED <<access, editing>>
        /\ shown' = shown \cup {[code |-> h.code, chat |-> h.chat] : h \in Sends}
    BY <1>4 DEF Restart, Sends, accessFiles
  <2>2. \A y \in shown' \cup Sends' : \E x \in shown \cup Sends : y.code = x.code /\ y.chat = x.chat
    BY <2>1
  <2>3. \A b, new : Good(b, new) => Good(b, new)'
    BY <2>1, <2>2, GoodStays
  <2>4. PICK a : a = access
    OBVIOUS
  <2>5. Good(a, {})'
    BY <2>3, <2>4 DEF AccessInv
  <2>6. Good(access, {})'
    BY <2>1, <2>4, <2>5 DEF Good, Fits, Seen, Sends
  <2> QED
    BY <2>1, <2>3, <2>6 DEF AccessInv
<1>5. ASSUME UNCHANGED <<access, shown>>, Sends' = Sends, \A e \in editing' : Good(e.of, {}) /\ Good(e.to, {}) PROVE AccessInv'
  <2>1. \A b, new : Good(b, new) => Good(b, new)'
    BY <1>5, GoodStays
  <2>2. Good(access, {})'
    BY <1>5 DEF AccessInv, Good, Fits, Seen, Sends
  <2> QED
    BY <1>5, <2>1, <2>2 DEF AccessInv
<1>6. CASE BeginEdit
  <2>1. PICK a \in Edits(access) : editing' = {[of |-> access, to |-> a]}
    BY <1>6 DEF BeginEdit
  <2>2. Good(access, {}) /\ Good(a, {})
    BY <2>1, EditedIsContent, FewerIsGood DEF AccessInv, Good
  <2>3. \A e \in editing' : Good(e.of, {}) /\ Good(e.to, {})
    BY <2>1, <2>2
  <2> QED
    BY <1>5, <1>6, <2>3 DEF BeginEdit, accessFiles, Sends
<1>7. CASE FinishEdit
  <2>1. PICK e \in editing : access' = e.to
    BY <1>7 DEF FinishEdit
  <2>2. PICK a : a = access'
    OBVIOUS
  <2>3. Good(a, {})
    BY <2>1, <2>2 DEF AccessInv
  <2>4. editing' = {} /\ UNCHANGED shown /\ Sends' = Sends
    BY <1>7 DEF FinishEdit, Sends
  <2>5. \A b, new : Good(b, new) => Good(b, new)'
    BY <2>4, GoodStays
  <2>6. Good(access, {})'
    <3>1. Good(a, {})'
      BY <2>3, <2>5
    <3> QED
      BY <2>2, <3>1 DEF Good, Fits, Seen, Sends
  <2> QED
    BY <2>4, <2>5, <2>6 DEF AccessInv
<1>8. CASE SpoilFile
  <2>1. access' = DefaultAccess /\ editing' = {} /\ UNCHANGED shown /\ Sends' = Sends
    BY <1>8 DEF SpoilFile, Sends
  <2>2. Good(DefaultAccess, {})'
    BY NoneIsEmpty, FS_EmptySet, GateAssumption
       DEF Good, Fits, IsContent, IsAccess, DefaultAccess, DmPolicy, GroupPolicy
  <2>3. \A b, new : Good(b, new) => Good(b, new)'
    BY <2>1, GoodStays
  <2>4. Good(access, {})'
    BY <2>1, <2>2 DEF Good, Fits, Seen, Sends
  <2> QED
    BY <2>1, <2>3, <2>4 DEF AccessInv
<1>9. ASSUME UNCHANGED <<access, shown, editing>>, Sends' = Sends PROVE AccessInv'
  BY <1>5, <1>9 DEF AccessInv
<1>10. ASSUME NEW h \in awaiting, Stored(h) \/ NotStored(h) PROVE AccessInv'
  BY <1>9, <1>10 DEF Stored, NotStored, accessFiles, Sends
<1>11. ASSUME NEW g \in Group, Joined(g) PROVE AccessInv'
  BY <1>9, <1>11 DEF Joined, Sends
<1>12. ASSUME NEW c \in Code, Expire(c) PROVE AccessInv'
  BY <1>9, <1>12 DEF Expire, accessFiles, Sends
<1>13. CASE UNCHANGED imVars
  BY <1>9, <1>13 DEF imVars, Sends
<1> QED
  BY <1>2, <1>3, <1>4, <1>6, <1>7, <1>8, <1>10, <1>11, <1>12, <1>13 DEF ImNext

\* However handlers, sends that fail, restarts, expiry and edits interleave, a code that is
\* pending was seen, and only in the chat that approving it opens (im-message.ts, access.ts).
THEOREM CodesShownWhereTheyCount == ImSpec => []CodesAreShownWhereTheyCount
<1>1. AccessInv => CodesAreShownWhereTheyCount
  BY DEF AccessInv, Good, Fits, Seen, CodesAreShownWhereTheyCount
<1> QED
  BY <1>1, AccessInvInit, AccessInvStep, PTL DEF ImSpec

-----------------------------------------------------------------------------
(* The peer bots of each group                                              *)

BotsInv ==
    /\ bots = [g \in Group |-> bots[g]] /\ announced = [g \in Group |-> announced[g]]
    /\ \A g \in Group : IsBots(bots[g])
    /\ \A h \in awaiting : h.does = "delivers" =>
           h.chat \in Group /\ Covers(h.finds, bots[h.chat], announced[h.chat])
    /\ \A g \in Group : \A b \in Peers(bots[g].openIds) : Settled(bots[g], announced[g], b)

LEMMA BotsInvInit == ImInit => BotsInv
BY DEF ImInit, BotsInv, IsBots, Peers

\* What a handler learns before it gates, and from a command to introduce bots.
LEMMA ObservedGrows ==
    ASSUME BotsInv, NEW m \in InboundMessage
    PROVE  /\ Observed(m) = [g \in Group |-> Observed(m)[g]]
           /\ \A g \in Group : Grows(bots[g], Observed(m)[g])
<1>1. \A g \in Group : Grows(bots[g], bots[g])
  BY DEF BotsInv, Grows
<1>2. CASE m.sender \in Bot /\ GroupAuthorized(access, m.chat, m.sender)
  <2>1. m.chat \in Group
    BY <1>2 DEF GroupAuthorized
  <2>2. PICK t : t = IF m.introduces THEN Introduce(bots[m.chat], {m.sender}) ELSE Learn(bots[m.chat], {m.sender})
    OBVIOUS
  <2>3. Grows(bots[m.chat], t)
    BY <2>1, <2>2, LearnGrows, IntroduceGrows DEF BotsInv
  <2>4. Observed(m) = [bots EXCEPT ![m.chat] = t]
    BY <1>2, <2>2 DEF Observed
  <2> QED
    BY <1>1, <2>1, <2>3, <2>4 DEF BotsInv
<1>3. CASE ~(m.sender \in Bot /\ GroupAuthorized(access, m.chat, m.sender))
  BY <1>1, <1>3 DEF Observed, BotsInv
<1> QED
  BY <1>2, <1>3

\* A handler adds to the bots known, and may start a delivery of what it has found.
LEMMA ReceiveGrows ==
    ASSUME AccessInv, BotsInv, NEW m \in InboundMessage, Receive(m)
    PROVE  /\ bots' = [g \in Group |-> bots'[g]] /\ \A g \in Group : Grows(bots[g], bots'[g])
           /\ \A h \in awaiting' :
                 \/ h \in awaiting \/ h.does # "delivers"
                 \/ h.chat \in Group /\ h.finds = Discovery(bots'[h.chat])
<1>1. PICK seen : seen = Observed(m)
  OBVIOUS
<1>2. seen = [g \in Group |-> seen[g]] /\ \A g \in Group : Grows(bots[g], seen[g]) /\ IsBots(seen[g])
  BY <1>1, ObservedGrows DEF Grows
<1>3. PICK d : d = Gate(access, expired, m, botId, IF m.chat \in Group THEN seen[m.chat].introduced ELSE {}, FreshCode)
  OBVIOUS
<1>4. Passes(d, access) \/ Pairs(d, access, m, FreshCode)
  <2>1. FreshCode \in Code
    BY DEF Receive, FreshCode, Unused
  <2> QED
    BY <1>3, <2>1, GateAnswers DEF AccessInv, Good
<1>5. m.introduces \in BOOLEAN
  BY DEF InboundMessage
<1>6. CASE m.introduces
  <2>1. /\ UNCHANGED awaiting
        /\ bots' = IF d.action = "deliver" /\ m.chat \in Group
                   THEN [seen EXCEPT ![m.chat] = Introduce(@, Peers(m.mentions))] ELSE seen
    BY <1>1, <1>3, <1>6 DEF Receive
  <2>2. CASE d.action = "deliver" /\ m.chat \in Group
    <3>1. PICK t : t = Introduce(seen[m.chat], Peers(m.mentions))
      OBVIOUS
    <3>2. Grows(seen[m.chat], t)
      BY <1>2, <2>2, <3>1, IntroduceGrows
    <3>3. bots' = [seen EXCEPT ![m.chat] = t]
      BY <2>1, <2>2, <3>1
    <3>4. Grows(bots[m.chat], t)
      BY <1>2, <2>2, <3>2, GrowsMore
    <3> QED
      BY <1>2, <2>1, <2>2, <3>3, <3>4
  <2>3. CASE ~(d.action = "deliver" /\ m.chat \in Group)
    BY <1>2, <2>1, <2>3
  <2> QED
    BY <2>2, <2>3
<1>7. CASE ~m.introduces
  <2>1. bots' = seen
    BY <1>1, <1>3, <1>4, <1>5, <1>7 DEF Receive, Passes, Pairs
  <2>2. CASE d.action = "deliver" /\ m.chat \in Group
    <3>1. PICK f : f = Discovery(seen[m.chat])
      OBVIOUS
    <3>2. awaiting' = awaiting \cup {[does |-> "delivers", code |-> "none", chat |-> m.chat, finds |-> f]}
      BY <1>1, <1>3, <1>5, <1>7, <2>2, <3>1 DEF Receive
    <3> QED
      BY <1>2, <2>1, <2>2, <3>1, <3>2
  <2>3. CASE ~(d.action = "deliver" /\ m.chat \in Group)
    <3>1. \/ UNCHANGED awaiting
          \/ awaiting' = awaiting \cup {[does |-> "sends", code |-> d.code, chat |-> m.chat, saves |-> d.access]}
      BY <1>1, <1>3, <1>4, <1>5, <1>7, <2>3 DEF Receive, Passes, Pairs, Prompt
    <3> QED
      BY <1>2, <2>1, <3>1
  <2> QED
    BY <2>2, <2>3
<1> QED
  BY <1>5, <1>6, <1>7

LEMMA BotsInvStep == AccessInv /\ BotsInv /\ [ImNext]_imVars => BotsInv'
<1> SUFFICES ASSUME AccessInv, BotsInv, [ImNext]_imVars PROVE BotsInv'
  OBVIOUS
<1>1. UNCHANGED botId
  BY DEF ImNext, Receive, PromptSent, PromptFails, Stored, NotStored, Restart, Joined, Expire, BeginEdit,
     FinishEdit, SpoilFile, imVars
<1>2. /\ \A S : Peers(S)' = Peers(S)
      /\ \A d, s, t : Covers(d, s, t)' <=> Covers(d, s, t)
  BY <1>1 DEF Peers, Covers
<1>3. ASSUME UNCHANGED <<bots, announced>>, \A h \in awaiting' : h \in awaiting \/ h.does # "delivers" PROVE BotsInv'
  BY <1>1, <1>3 DEF BotsInv, Covers, Peers, Settled
<1>4. ASSUME NEW m \in InboundMessage, Receive(m) PROVE BotsInv'
  <2>1. UNCHANGED announced
    BY <1>4 DEF Receive
  <2>2. PICK bs : bs = bots'
    OBVIOUS
  <2>3. /\ bs = [g \in Group |-> bs[g]] /\ \A g \in Group : Grows(bots[g], bs[g])
        /\ \A h \in awaiting' :
              \/ h \in awaiting \/ h.does # "delivers"
              \/ h.chat \in Group /\ h.finds = Discovery(bs[h.chat])
    BY <1>4, <2>2, ReceiveGrows
  <2>4. \A g \in Group : \A b \in Peers(bs[g].openIds) : Settled(bs[g], announced[g], b)
    BY <2>3, GrowingKeeps DEF BotsInv
  <2>5. \A h \in awaiting' : h.does = "delivers" => h.chat \in Group /\ Covers(h.finds, bs[h.chat], announced[h.chat])
    <3>1. ASSUME NEW h \in awaiting, h.does = "delivers" PROVE h.chat \in Group /\ Covers(h.finds, bs[h.chat], announced[h.chat])
      BY <2>3, <3>1, GrowingKeeps DEF BotsInv
    <3>2. \A g \in Group : Covers(Discovery(bs[g]), bs[g], announced[g])
      BY <2>3, DiscoveryCovers DEF Grows
    <3> QED
      BY <2>3, <3>1, <3>2
  <2> QED
    BY <1>2, <2>1, <2>2, <2>3, <2>4, <2>5 DEF BotsInv, Grows, Settled
<1>5. ASSUME NEW h \in awaiting, Stored(h) PROVE BotsInv'
  <2>1. PICK c, d : c = h.chat /\ d = h.finds
    OBVIOUS
  <2>2. PICK t : t = Commit(bots[c], d)
    OBVIOUS
  <2>3. c \in Group /\ IsBots(bots[c]) /\ Covers(d, bots[c], announced[c])
    BY <1>5, <2>1 DEF Stored, BotsInv
  <2>4. /\ IsBots(t) /\ t.openIds = bots[c].openIds
        /\ \A b \in Peers(t.openIds) : Settled(t, announced[c] \cup d.shows, b)
        /\ \A e : Covers(e, bots[c], announced[c]) => Covers(e, t, announced[c] \cup d.shows)
    BY <2>2, <2>3, CommitKeeps DEF BotsInv
  <2>5. /\ awaiting' = awaiting \ {h} /\ bots' = [bots EXCEPT ![c] = t]
        /\ announced' = [announced EXCEPT ![c] = announced[c] \cup d.shows]
    BY <1>5, <2>1, <2>2 DEF Stored
  <2>6. /\ bots' = [g \in Group |-> bots'[g]] /\ announced' = [g \in Group |-> announced'[g]]
        /\ bots'[c] = t /\ announced'[c] = announced[c] \cup d.shows
        /\ \A g \in Group \ {c} : bots'[g] = bots[g] /\ announced'[g] = announced[g]
    BY <2>3, <2>5 DEF BotsInv
  <2>7. PICK bs, an : bs = bots' /\ an = announced'
    OBVIOUS
  <2>8. \A g \in Group : IsBots(bs[g]) /\ \A b \in Peers(bs[g].openIds) : Settled(bs[g], an[g], b)
    BY <2>4, <2>6, <2>7 DEF BotsInv
  <2>9. \A x \in awaiting' : x.does = "delivers" => x.chat \in Group /\ Covers(x.finds, bs[x.chat], an[x.chat])
    BY <2>3, <2>4, <2>5, <2>6, <2>7 DEF BotsInv
  <2> QED
    BY <1>2, <2>6, <2>7, <2>8, <2>9 DEF BotsInv, Settled
<1>6. ASSUME NEW g \in Group, Joined(g) PROVE BotsInv'
  <2>1. PICK t : t = [bots[g] EXCEPT !.joined = TRUE, !.needsBaseline = TRUE]
    OBVIOUS
  <2>2. bots' = [bots EXCEPT ![g] = t] /\ UNCHANGED <<awaiting, announced>>
    BY <1>6, <2>1 DEF Joined
  <2>3. /\ IsBots(t) /\ t.openIds = bots[g].openIds /\ t.pendingNewBots = bots[g].pendingNewBots
        /\ ShowsBaseline(bots[g]) => ShowsBaseline(t)
    BY <2>1, Zenon DEF BotsInv, IsBots, ShowsBaseline
  <2>4. PICK bs : bs = bots'
    OBVIOUS
  <2>5. bs = [x \in Group |-> bs[x]] /\ bs[g] = t /\ \A x \in Group \ {g} : bs[x] = bots[x]
    BY <2>2, <2>4 DEF BotsInv
  <2>6. \A x \in Group : IsBots(bs[x]) /\ \A b \in Peers(bs[x].openIds) : Settled(bs[x], announced[x], b)
    BY <2>3, <2>5 DEF BotsInv, Settled
  <2>7. \A h \in awaiting : h.does = "delivers" => h.chat \in Group /\ Covers(h.finds, bs[h.chat], announced[h.chat])
    BY <2>3, <2>5 DEF BotsInv, Covers
  <2> QED
    BY <1>2, <2>2, <2>4, <2>5, <2>6, <2>7 DEF BotsInv, Settled
<1>7. ASSUME NEW h \in awaiting, PromptSent(h) \/ PromptFails(h) \/ NotStored(h) PROVE BotsInv'
  BY <1>3, <1>7 DEF PromptSent, PromptFails, NotStored, accessFiles
<1>8. CASE Restart \/ BeginEdit \/ FinishEdit \/ SpoilFile \/ UNCHANGED imVars \/ \E c \in Code : Expire(c)
  BY <1>3, <1>8 DEF Restart, BeginEdit, FinishEdit, SpoilFile, imVars, Expire, accessFiles
<1> QED
  BY <1>4, <1>5, <1>6, <1>7, <1>8 DEF ImNext

\* No peer bot of a group is lost to the session, whether the deliveries that show some fail or
\* overlap with the arrival of others (bot-discovery.ts).
THEOREM PeersStayAnnounced == ImSpec => []PeersAreAnnounced
<1>1. BotsInv => PeersAreAnnounced
  BY DEF BotsInv, Settled, PeersAreAnnounced
<1> QED
  BY <1>1, AccessInvInit, AccessInvStep, BotsInvInit, BotsInvStep, PTL DEF ImSpec

\* The contents of the access file, of an edit under way and of the bots' files stay well formed:
\* at most MAX_PENDING pairings, each with its kind, sender, chat and count of replies.
THEOREM ImTypeCorrect == ImSpec => []ImTypeOK
<1>1. AccessInv /\ BotsInv => ImTypeOK
  BY DEF AccessInv, Good, IsContent, BotsInv, IsBots, ImTypeOK
<1> QED
  BY <1>1, AccessInvInit, AccessInvStep, BotsInvInit, BotsInvStep, PTL DEF ImSpec


-----------------------------------------------------------------------------
(* The cards of a reply                                                     *)

Steps == {"idle", "sending", "sent", "error", "patch", "update", "edited", "reacted"}

\* What a call is, from its first step to its last.
Calling == [step : Steps, chat : Place, follows : Posted \cup {NoMessage},
            cards : 0 .. MaxCards, sent : 0 .. MaxCards]

ReplyTypeInv ==
    /\ tool \in [ToolCall -> Calling]
    /\ feed \in [Place -> Seq([by : ToolCall, n : Nat])]
    /\ answered \subseteq [by : ToolCall, chat : Place]

ReplyInv ==
    /\ ReplyTypeInv
    /\ \A c \in ToolCall :
          /\ tool[c].step = "idle" => \A p \in Place : InOrder(c, feed[p], 0)
          /\ tool[c].step \in {"sending", "sent"} => InOrder(c, feed[Goes(c)], tool[c].sent)
          /\ tool[c].step = "sent" => tool[c].sent = tool[c].cards
    /\ \A a \in answered : tool[a.by].step = "sent" /\ a.chat = Goes(a.by)

LEMMA IdleIsCall == Idle \in Calling
BY ReplyAssumption DEF Idle, Steps, Calling

LEMMA ReplyInvInit == ReplyInit => ReplyInv
<1> SUFFICES ASSUME ReplyInit PROVE ReplyInv
  OBVIOUS
<1>1. ReplyTypeInv
  BY IdleIsCall DEF ReplyInit, ReplyTypeInv
<1>2. ASSUME NEW c \in ToolCall, NEW p \in Place PROVE InOrder(c, feed[p], 0)
  <2>1. CardsOf(c, feed[p]) = {}
    BY DEF ReplyInit, CardsOf
  <2> QED
    BY <2>1 DEF InOrder
<1>3. \A c \in ToolCall : tool[c].step = "idle"
  BY DEF ReplyInit, Idle
<1> QED
  BY <1>1, <1>2, <1>3 DEF ReplyInit, ReplyInv

LEMMA GoesToPlace == ReplyTypeInv => \A c \in ToolCall : Goes(c) \in Place
BY ReplyAssumption DEF ReplyTypeInv, Calling, Goes

\* A step of one call that posts nothing and sets it to t changes nothing for the others.
LEMMA ToolStep ==
    ASSUME ReplyInv, NEW c \in ToolCall, UNCHANGED feed, NEW t \in Calling,
           tool' = [tool EXCEPT ![c] = t],
           tool[c].step # "sent", t.step # "idle",
           t.step = "sending" => tool[c].step = "idle" /\ t.sent = 0,
           t.step = "sent" => /\ tool[c].step = "sending" /\ t.sent = tool[c].sent /\ t.sent = t.cards
                              /\ t.chat = tool[c].chat /\ t.follows = tool[c].follows,
           \/ UNCHANGED answered
           \/ (t.step = "sent" /\ answered' = answered \cup {[by |-> c, chat |-> Lands(c)]})
    PROVE  ReplyInv'
<1>2. tool' \in [ToolCall -> Calling]
  BY DEF ReplyInv, ReplyTypeInv
<1>3. tool'[c] = t /\ \A d \in ToolCall \ {c} : tool'[d] = tool[d]
  BY DEF ReplyInv, ReplyTypeInv
<1>4. \A d \in ToolCall \ {c} : Goes(d)' = Goes(d)
  BY <1>3 DEF Goes
<1>5. Goes(c) \in Place /\ Goes(c)' \in Place /\ Lands(c) = Goes(c) /\ (t.step = "sent" => Goes(c)' = Goes(c))
  BY <1>3, GoesToPlace, ReplyAssumption DEF Goes, Lands, ReplyInv, Calling
<1>6. ReplyTypeInv'
  <2>1. answered' \subseteq [by : ToolCall, chat : Place]
    BY <1>5 DEF ReplyInv, ReplyTypeInv
  <2> QED
    BY <1>2, <2>1 DEF ReplyInv, ReplyTypeInv
<1>7. ASSUME t.step = "sending", NEW p \in Place PROVE InOrder(c, feed[p], 0)
  BY <1>7 DEF ReplyInv
<1>8. ASSUME NEW d \in ToolCall
      PROVE  /\ tool'[d].step = "idle" => \A p \in Place : InOrder(d, feed'[p], 0)
             /\ tool'[d].step \in {"sending", "sent"} => InOrder(d, feed'[Goes(d)'], tool'[d].sent)
             /\ tool'[d].step = "sent" => tool'[d].sent = tool'[d].cards
  <2>1. CASE d = c
    <3>1. CASE t.step = "sending"
      BY <1>3, <1>5, <1>7, <2>1, <3>1
    <3>2. CASE t.step = "sent"
      <4>1. InOrder(c, feed[Goes(c)], tool[c].sent)
        BY <3>2 DEF ReplyInv
      <4> QED
        BY <1>3, <1>5, <2>1, <3>2, <4>1
    <3> QED
      BY <1>3, <2>1, <3>1, <3>2
  <2>2. CASE d # c
    BY <1>3, <1>4, <2>2 DEF ReplyInv
  <2> QED
    BY <2>1, <2>2
<1>9. ASSUME NEW a \in answered' PROVE tool'[a.by].step = "sent" /\ a.chat = Goes(a.by)'
  <2>1. CASE a \in answered
    <3>1. a.by \in ToolCall /\ a.by # c
      BY <2>1 DEF ReplyInv, ReplyTypeInv
    <3> QED
      BY <1>3, <1>4, <2>1, <3>1 DEF ReplyInv
  <2>2. CASE a \notin answered
    <3>1. a = [by |-> c, chat |-> Goes(c)] /\ t.step = "sent"
      BY <1>5, <1>9, <2>2
    <3> QED
      BY <1>3, <1>5, <3>1
  <2> QED
    BY <2>1, <2>2
<1> QED
  BY <1>6, <1>8, <1>9 DEF ReplyInv

\* The cards of a chat with the next one of call c.
Longer(cards, c, k) == Append(cards, [by |-> c, n |-> k + 1])

LEMMA ImageGrows ==
    ASSUME NEW f, NEW g, NEW few, NEW last, NEW n,
           \A i \in few : f[i].n = g[i].n, f[last].n = n
    PROVE  {f[i].n : i \in few \cup {last}} = {g[i].n : i \in few} \cup {n}
OBVIOUS

\* A card that is put after the others is the last one of its call, and none of another.
LEMMA AppendCard ==
    ASSUME NEW cards \in Seq([by : ToolCall, n : Nat]), NEW c \in ToolCall, NEW k \in Nat,
           NEW longer, longer = Longer(cards, c, k), NEW d \in ToolCall
    PROVE  /\ longer \in Seq([by : ToolCall, n : Nat])
           /\ d # c => \A n \in Nat : InOrder(d, cards, n) => InOrder(d, longer, n)
           /\ InOrder(c, cards, k) => InOrder(c, longer, k + 1)
<1>1. PICK m \in [by : ToolCall, n : Nat] : m = [by |-> c, n |-> k + 1]
  <2>1. [by |-> c, n |-> k + 1] \in [by : ToolCall, n : Nat]
    OBVIOUS
  <2> QED
    BY <2>1, Zenon
<1>2. longer = Append(cards, m) /\ longer \in Seq([by : ToolCall, n : Nat])
  BY <1>1 DEF Longer
<1>3. PICK last \in Nat : last = Len(cards) + 1
  OBVIOUS
<1>4. /\ DOMAIN longer = DOMAIN cards \cup {last}
      /\ longer[last] = m
      /\ \A i \in DOMAIN cards : longer[i] = cards[i] /\ i \in Nat /\ i < last
  BY <1>2, <1>3
<1>5. ASSUME d # c
      PROVE  \A n \in Nat : InOrder(d, cards, n) => InOrder(d, longer, n)
  <2>1. CardsOf(d, longer) = CardsOf(d, cards)
    BY <1>1, <1>4, <1>5 DEF CardsOf
  <2>2. \A i \in CardsOf(d, cards) : longer[i] = cards[i]
    BY <1>4 DEF CardsOf
  <2>3. {longer[i].n : i \in CardsOf(d, longer)} = {cards[i].n : i \in CardsOf(d, cards)}
    BY <2>1, <2>2
  <2>4. ASSUME NEW n \in Nat, InOrder(d, cards, n) PROVE InOrder(d, longer, n)
    <3>1. {longer[i].n : i \in CardsOf(d, longer)} = 1 .. n
      BY <2>3, <2>4 DEF InOrder
    <3>2. \A i, j \in CardsOf(d, longer) : i < j => longer[i].n < longer[j].n
      <4>1. SUFFICES ASSUME NEW i \in CardsOf(d, cards), NEW j \in CardsOf(d, cards), i < j
                     PROVE  longer[i].n < longer[j].n
        BY <2>1
      <4>2. cards[i].n < cards[j].n
        BY <2>4, <4>1 DEF InOrder
      <4> QED
        BY <2>2, <4>2
    <3> QED
      BY <3>1, <3>2, Zenon DEF InOrder
  <2> QED
    BY <2>4
<1>6. ASSUME InOrder(c, cards, k) PROVE InOrder(c, longer, k + 1)
  <2>1. CardsOf(c, longer) = CardsOf(c, cards) \cup {last}
    BY <1>1, <1>4 DEF CardsOf
  <2>2. \A i \in CardsOf(c, cards) : /\ longer[i] = cards[i] /\ i < last /\ i \in Nat
                                     /\ cards[i].n \in 1 .. k
    BY <1>4, <1>6 DEF CardsOf, InOrder
  <2>3. {longer[i].n : i \in CardsOf(c, longer)} = 1 .. k + 1
    <3>1. {longer[i].n : i \in CardsOf(c, longer)} = {cards[i].n : i \in CardsOf(c, cards)} \cup {k + 1}
      <4>1. longer[last].n = k + 1
        BY <1>1, <1>4
      <4>2. \A i \in CardsOf(c, cards) : longer[i].n = cards[i].n
        BY <2>2, Zenon
      <4> QED
        BY <2>1, <4>1, <4>2, ImageGrows
    <3>2. {cards[i].n : i \in CardsOf(c, cards)} = 1 .. k
      BY <1>6 DEF InOrder
    <3>3. 1 .. k + 1 = (1 .. k) \cup {k + 1}
      OBVIOUS
    <3> QED
      BY <3>1, <3>2, <3>3
  <2>4. ASSUME NEW i \in CardsOf(c, longer), NEW j \in CardsOf(c, longer), i < j
        PROVE  longer[i].n < longer[j].n
    <3>1. CASE j = last
      <4>1. i \in CardsOf(c, cards)
        BY <2>1, <2>4, <3>1
      <4>2. PICK x \in 1 .. k : longer[i].n = x
        BY <2>2, <4>1
      <4>3. longer[j].n = k + 1
        BY <1>1, <1>4, <3>1
      <4>4. x < k + 1
        OBVIOUS
      <4> QED
        BY <4>2, <4>3, <4>4, Zenon
    <3>2. CASE j # last
      <4>1. i \in CardsOf(c, cards) /\ j \in CardsOf(c, cards)
        BY <2>1, <2>2, <2>4, <3>2
      <4> QED
        BY <1>6, <2>2, <2>4, <4>1 DEF InOrder
    <3> QED
      BY <3>1, <3>2
  <2> QED
    BY <2>3, <2>4 DEF InOrder
<1> QED
  BY <1>1, <1>2, <1>5, <1>6

\* A card of call c, which is sent or fails after it, is one more of its answer.
LEMMA CardStep ==
    ASSUME ReplyInv, NEW c \in ToolCall, Appears(c), UNCHANGED answered, NEW t \in Calling,
           tool' = [tool EXCEPT ![c] = t], tool[c].step = "sending",
           t.chat = tool[c].chat, t.follows = tool[c].follows,
           t.step = "error" \/ (t.step = "sending" /\ t.sent = tool[c].sent + 1)
    PROVE  ReplyInv'
<1>1. PICK q \in Place, k \in Nat, longer \in Seq([by : ToolCall, n : Nat]) :
         /\ q = Goes(c) /\ k = tool[c].sent
         /\ longer = Longer(feed[q], c, k)
  <2>1. Goes(c) \in Place
    BY GoesToPlace DEF ReplyInv
  <2>2. tool[c].sent \in Nat
    BY DEF ReplyInv, ReplyTypeInv, Calling
  <2>3. feed[Goes(c)] \in Seq([by : ToolCall, n : Nat])
    BY <2>1 DEF ReplyInv, ReplyTypeInv
  <2>4. Longer(feed[Goes(c)], c, tool[c].sent) \in Seq([by : ToolCall, n : Nat])
    BY <2>2, <2>3, AppendCard
  <2> QED
    BY <2>1, <2>2, <2>4
<1>2. feed[q] \in Seq([by : ToolCall, n : Nat])
  BY DEF ReplyInv, ReplyTypeInv
<1>3. /\ feed' \in [Place -> Seq([by : ToolCall, n : Nat])]
      /\ feed'[q] = longer /\ \A p \in Place \ {q} : feed'[p] = feed[p]
  BY <1>1 DEF Appears, Longer, ReplyInv, ReplyTypeInv
<1>4. /\ \A d \in ToolCall \ {c}, n \in Nat : InOrder(d, feed[q], n) => InOrder(d, longer, n)
      /\ InOrder(c, feed[q], k) => InOrder(c, longer, k + 1)
  <2>1. InOrder(c, feed[q], k) => InOrder(c, longer, k + 1)
    BY <1>1, <1>2, AppendCard
  <2>2. ASSUME NEW d \in ToolCall, d # c
        PROVE  \A n \in Nat : InOrder(d, feed[q], n) => InOrder(d, longer, n)
    <3>1. ASSUME NEW cards \in Seq([by : ToolCall, n : Nat])
          PROVE  \A n \in Nat : InOrder(d, cards, n) => InOrder(d, Longer(cards, c, k), n)
      BY <2>2, AppendCard
    <3> QED
      BY <1>1, <1>2, <3>1
  <2> QED
    BY <2>1, <2>2
<1>5. /\ tool' \in [ToolCall -> Calling] /\ tool'[c] = t
      /\ \A d \in ToolCall \ {c} : tool'[d] = tool[d]
  BY DEF ReplyInv, ReplyTypeInv
<1>6. \A d \in ToolCall : Goes(d)' = Goes(d)
  BY <1>5 DEF Goes
<1>7. ReplyTypeInv'
  BY <1>3, <1>5 DEF ReplyInv, ReplyTypeInv
<1>8. ASSUME NEW d \in ToolCall
      PROVE  /\ tool'[d].step = "idle" => \A p \in Place : InOrder(d, feed'[p], 0)
             /\ tool'[d].step \in {"sending", "sent"} => InOrder(d, feed'[Goes(d)'], tool'[d].sent)
             /\ tool'[d].step = "sent" => tool'[d].sent = tool'[d].cards
  <2>1. CASE d = c
    <3>1. InOrder(c, longer, k + 1)
      BY <1>1, <1>4 DEF ReplyInv
    <3> QED
      BY <1>1, <1>3, <1>5, <1>6, <2>1, <3>1
  <2>2. CASE d # c
    <3>1. Goes(d) \in Place /\ tool[d].sent \in Nat
      BY GoesToPlace DEF ReplyInv, ReplyTypeInv, Calling
    <3>2. \A p \in Place, n \in Nat : InOrder(d, feed[p], n) => InOrder(d, feed'[p], n)
      BY <1>3, <1>4, <2>2
    <3> QED
      BY <1>5, <1>6, <2>2, <3>1, <3>2 DEF ReplyInv
  <2> QED
    BY <2>1, <2>2
<1>9. ASSUME NEW a \in answered' PROVE tool'[a.by].step = "sent" /\ a.chat = Goes(a.by)'
  <2>1. a.by \in ToolCall /\ a.by # c /\ tool[a.by].step = "sent" /\ a.chat = Goes(a.by)
    BY <1>9 DEF ReplyInv, ReplyTypeInv
  <2> QED
    BY <1>5, <1>6, <2>1
<1> QED
  BY <1>7, <1>8, <1>9 DEF ReplyInv

LEMMA ReplyInvStep == ReplyInv /\ [ReplyNext]_replyVars => ReplyInv'
<1> SUFFICES ASSUME ReplyInv, [ReplyNext]_replyVars PROVE ReplyInv'
  OBVIOUS
<1> USE DEF Steps, Step
<1>0. \A c \in ToolCall : tool[c] \in Calling
  BY DEF ReplyInv, ReplyTypeInv
<1>1. ASSUME NEW c \in ToolCall, CallReply(c) PROVE ReplyInv'
  <2>1. PICK p \in Place, m \in Posted \cup {NoMessage}, n \in 0 .. MaxCards :
           tool' = [tool EXCEPT ![c] = [step |-> IF n = 0 THEN "error" ELSE "sending",
                                        chat |-> p, follows |-> m, cards |-> n, sent |-> 0]]
    BY <1>1 DEF CallReply
  <2>2. PICK s \in {"error", "sending"} : s = IF n = 0 THEN "error" ELSE "sending"
    OBVIOUS
  <2>3. PICK t \in Calling : t = [step |-> s, chat |-> p, follows |-> m, cards |-> n, sent |-> 0]
    <3>1. 0 \in 0 .. MaxCards
      BY ReplyAssumption
    <3>2. [step |-> s, chat |-> p, follows |-> m, cards |-> n, sent |-> 0] \in Calling
      BY <3>1 DEF Calling
    <3> QED
      BY <3>2, Zenon
  <2> QED
    BY <1>1, <2>1, <2>2, <2>3, ToolStep DEF CallReply
<1>2. ASSUME NEW c \in ToolCall, SendCard(c) PROVE ReplyInv'
  <2>1. PICK t \in Calling : t = [tool[c] EXCEPT !.sent = @ + 1]
    <3>1. tool[c].sent + 1 \in 0 .. MaxCards
      BY <1>0, <1>2, ReplyAssumption DEF SendCard, Calling
    <3>2. [tool[c] EXCEPT !.sent = @ + 1] \in Calling
      BY <1>0, <3>1 DEF Calling
    <3> QED
      BY <3>2, Zenon
  <2>2. tool' = [tool EXCEPT ![c] = t]
    BY <1>2, <2>1 DEF SendCard
  <2>3. t.step = "sending" /\ t.sent = tool[c].sent + 1 /\ t.chat = tool[c].chat /\ t.follows = tool[c].follows
    BY <1>0, <1>2, <2>1 DEF SendCard, Calling
  <2> QED
    BY <1>2, <2>2, <2>3, CardStep DEF SendCard
<1>3. ASSUME NEW c \in ToolCall, CardFails(c) PROVE ReplyInv'
  <2>1. PICK t \in Calling : t = [tool[c] EXCEPT !.step = "error"]
    BY <1>0 DEF Calling
  <2>2. tool' = [tool EXCEPT ![c] = t]
    BY <1>3, <2>1 DEF CardFails
  <2>3. t.step = "error" /\ t.chat = tool[c].chat /\ t.follows = tool[c].follows
    BY <1>0, <2>1 DEF Calling
  <2>4. CASE Appears(c)
    <3>1. tool[c].step = "sending" /\ UNCHANGED answered
      BY <1>3 DEF CardFails
    <3> QED
      BY <2>2, <2>3, <2>4, <3>1, CardStep
  <2>5. CASE UNCHANGED feed
    BY <1>3, <2>2, <2>3, <2>5, ToolStep DEF CardFails
  <2> QED
    BY <1>3, <2>4, <2>5 DEF CardFails
<1>4. ASSUME NEW c \in ToolCall, FinishReply(c) PROVE ReplyInv'
  <2>1. PICK t \in Calling : t = [tool[c] EXCEPT !.step = "sent"]
    BY <1>0 DEF Calling
  <2>2. tool' = [tool EXCEPT ![c] = t]
    BY <1>4, <2>1 DEF FinishReply
  <2>3. t.step = "sent" /\ t.sent = tool[c].sent /\ t.cards = tool[c].cards /\ t.chat = tool[c].chat /\ t.follows = tool[c].follows
    BY <1>0, <2>1 DEF Calling
  <2> QED
    BY <1>4, <2>2, <2>3, ToolStep DEF FinishReply
<1>5. ASSUME NEW c \in ToolCall, CallEdit(c) PROVE ReplyInv'
  <2>1. PICK m \in Posted, fits \in BOOLEAN :
           tool' = [tool EXCEPT ![c] = [Idle EXCEPT !.step = IF fits THEN "patch" ELSE "error", !.follows = m]]
    BY <1>5 DEF CallEdit
  <2>2. PICK s \in {"patch", "error"} : s = IF fits THEN "patch" ELSE "error"
    OBVIOUS
  <2>3. PICK t \in Calling : t = [Idle EXCEPT !.step = s, !.follows = m]
    BY IdleIsCall DEF Calling
  <2>4. t.step = s
    BY <2>3, IdleIsCall DEF Calling
  <2> QED
    BY <1>5, <2>1, <2>2, <2>3, <2>4, ToolStep DEF CallEdit
<1>6. ASSUME NEW c \in ToolCall, NEW s \in {"edited", "update", "error", "reacted"},
             tool[c].step \in {"idle", "patch", "update"}, Step(c, s), UNCHANGED <<feed, answered>>
      PROVE  ReplyInv'
  <2>1. PICK t \in Calling : t = [tool[c] EXCEPT !.step = s]
    BY <1>0 DEF Calling
  <2>2. tool' = [tool EXCEPT ![c] = t] /\ t.step = s
    BY <1>0, <1>6, <2>1 DEF Calling
  <2> QED
    BY <1>6, <2>2, ToolStep
<1>7. ASSUME NEW c \in ToolCall, Patch(c) \/ PatchFails(c) \/ UpdateText(c) \/ UpdateFails(c) \/ CallReact(c)
      PROVE  ReplyInv'
  BY <1>6, <1>7 DEF Patch, PatchFails, UpdateText, UpdateFails, CallReact
<1>8. CASE UNCHANGED replyVars
  BY <1>8 DEF replyVars, ReplyInv, ReplyTypeInv, Goes
<1> QED
  BY <1>1, <1>2, <1>3, <1>4, <1>5, <1>7, <1>8 DEF ReplyNext

\* A chat counts as answered only if the whole answer of the call is in it, each
\* card once and in order: the chat the call ends in is the one its cards went to,
\* whatever chat it named (server.ts, reply; feishu.ts, sendText).
THEOREM WholeAnswer == ReplySpec => []AnswerLandsWhole
<1>1. ReplyInv => AnswerLandsWhole
  BY DEF ReplyInv, ReplyTypeInv, AnswerLandsWhole
<1> QED
  BY <1>1, ReplyInvInit, ReplyInvStep, PTL DEF ReplySpec
=============================================================================
