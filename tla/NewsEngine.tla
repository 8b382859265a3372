----------------------------- MODULE NewsEngine -----------------------------
(***************************************************************************)
(* news.NewsEngine and news.AlertMemory (news.py): the background thread   *)
(* that fetches the feeds, clusters the articles into events, verifies     *)
(* them, publishes the verified ones and remembers them on disk.           *)
(*                                                                         *)
(* A headline is the set of its claim tokens, so that similarity is the    *)
(* code's: tokens shared over tokens in all.  Sending is the contract of   *)
(* DeliveryContract: told only if reached.  config.py switches updates of  *)
(* an alerted event off (NEWS_ALLOW_UPDATE_ALERTS), and so does the model. *)
(***************************************************************************)
EXTENDS Integers, Sequences, FiniteSets, SequencesExt, FiniteSetsExt

CONSTANTS
    Articles,
    Claims,             \* [Articles -> the tokens of title and summary]
    Domain,             \* [Articles -> source_domain]
    Official,           \* the domains that is_official accepts
    Social,             \* the domains that is_social accepts
    Denials,            \* the articles whose title has a retraction marker
    Anchors,            \* _ANCHORS
    Listing,            \* for each of NEWS_RSS_FEEDS, the articles it may list
    Stamps,             \* what published_at may be: functions on Articles
    THROTTLE_COOLDOWN,  \* NEWS_429_COOLDOWN_SECONDS
    TIMEOUT_COOLDOWN,   \* NEWS_TIMEOUT_COOLDOWN_SECONDS
    EVENT_WINDOW,       \* NEWS_EVENT_WINDOW_HOURS
    MEMORY,             \* NEWS_ALERT_MEMORY_DAYS
    SIMILARITY_MIN,     \* NEWS_SIMILARITY_MIN, in percent
    ANCHOR_MERGE_FLOOR, \* _ANCHOR_MERGE_FLOOR, in percent
    NewsMaxTime,        \* bound on the clock
    NewsMaxCrashes      \* bound on the restarts

ASSUME NewsAssumption ==
    /\ \A a \in Articles : IsFiniteSet(Claims[a]) /\ Claims[a] # {}
    /\ Official \cap Social = {}
    /\ Denials \subseteq Articles
    /\ Listing \in Seq(Seq(Articles))
    /\ \A p \in Stamps : p \in [Articles -> 0..NewsMaxTime]
    /\ {THROTTLE_COOLDOWN, TIMEOUT_COOLDOWN, EVENT_WINDOW, MEMORY} \subseteq Nat
    /\ {SIMILARITY_MIN, ANCHOR_MERGE_FLOOR} \subseteq 1..100
    /\ {NewsMaxTime, NewsMaxCrashes} \subseteq Nat

Feeds == DOMAIN Listing

VARIABLES
    time,          \* the clock
    published,     \* [Articles -> published_at], fixed
    cooling,       \* [Feeds -> the end of its cooldown]
    seen,          \* _seen_urls
    events,        \* _events: [arts |-> its articles, alerted |-> BOOLEAN]
    phase,         \* where the thread is in process_cycle
    batch,         \* articles of this cycle that ingest has not looked at
    candidates,    \* pending: the events to publish, by index
    memory,        \* _entries: [claims, at]
    file,          \* news_alerted.json: [whole |-> BOOLEAN, entries]
    crashes,       \* restarts so far
    alerts,        \* history: the alerts a chat has got
    incident       \* history: has a crash or a failed write touched the file

newsVars == <<time, published, cooling, seen, events, phase, batch, candidates,
              memory, file, crashes, alerts, incident>>

-----------------------------------------------------------------------------
(* Clustering and verification.                                            *)

ClaimsOf(arts) == UNION {Claims[a] : a \in arts}

AtLeast(percent, x, y) ==
    100 * Cardinality(x \cap y) >= percent * Cardinality(x \cup y)

SameStory(x, y) ==
    \/ AtLeast(SIMILARITY_MIN, x, y)
    \/ x \cap Anchors \cap y # {} /\ AtLeast(ANCHOR_MERGE_FLOOR, x, y)

\* The nearest article of the event decides, but any of them may anchor it.
Joins(a, arts) ==
    \/ \E b \in arts : AtLeast(SIMILARITY_MIN, Claims[a], Claims[b])
    \/ /\ Claims[a] \cap Anchors \cap ClaimsOf(arts) # {}
       /\ \E b \in arts : AtLeast(ANCHOR_MERGE_FLOOR, Claims[a], Claims[b])

IsOfficial(a) == Domain[a] \in Official

NewsDomains(arts) == {Domain[a] : a \in arts} \ Social

StatusIgnoringDenials(arts) ==
    IF Cardinality(NewsDomains(arts)) < 2 THEN "DEVELOPING"
    ELSE IF \E a \in arts : IsOfficial(a) THEN "VERIFIED"
    ELSE "PARTIALLY_VERIFIED"

Status(arts) ==
    IF \E a \in arts \cap Denials : IsOfficial(a) THEN "DEBUNKED"
    ELSE IF arts \cap Denials # {} THEN "CONFLICTED"
    ELSE IF Cardinality(NewsDomains(arts)) < 2 THEN "DEVELOPING"
    ELSE IF \E a \in arts : IsOfficial(a) THEN "VERIFIED"
    ELSE "PARTIALLY_VERIFIED"

-----------------------------------------------------------------------------
(* The alert memory.                                                       *)

KeptForTheWindow(entries) == {e \in entries : e.at > time - EVENT_WINDOW}

Kept(entries) == {e \in entries : e.at > time - MEMORY}

KnownBySimilarityOnly(claims) ==
    \E e \in Kept(memory) : AtLeast(SIMILARITY_MIN, claims, e.claims)

Known(claims) == \E e \in Kept(memory) : SameStory(claims, e.claims)

\* A file that a crash left half written does not parse: start fresh.
Loaded == IF file.whole THEN Kept(file.entries) ELSE {}

-----------------------------------------------------------------------------
Phases == {"idle", "ingest", "publish", "record", "save", "writing"}
Entry == [claims : {ClaimsOf(s) : s \in SUBSET Articles}, at : 0..NewsMaxTime]

NewsTypeOK ==
    /\ time \in 0..NewsMaxTime
    /\ published \in [Articles -> 0..NewsMaxTime]
    /\ DOMAIN cooling = Feeds
    /\ \A f \in Feeds : cooling[f] \in Nat
    /\ seen \subseteq Articles
    /\ \A i \in DOMAIN events :
          events[i].arts \in (SUBSET Articles) \ {{}} /\ events[i].alerted \in BOOLEAN
    /\ phase \in Phases
    /\ \A i \in DOMAIN batch : batch[i] \in Articles
    /\ \A i \in DOMAIN candidates : candidates[i] \in DOMAIN events
    /\ memory \subseteq Entry
    /\ file.whole \in BOOLEAN /\ file.entries \subseteq Entry
    /\ crashes \in 0..NewsMaxCrashes
    /\ \A a \in alerts : a.arts \subseteq Articles /\ a.told \in BOOLEAN
    /\ incident \in {"none", "unsaved", "forgotten"}

NewsInit ==
    /\ time = 0
    /\ published \in Stamps
    /\ cooling = [f \in Feeds |-> 0]
    /\ seen = {}
    /\ events = <<>>
    /\ phase = "idle"
    /\ batch = <<>>
    /\ candidates = <<>>
    /\ memory = {}
    /\ file = [whole |-> TRUE, entries |-> {}]
    /\ crashes = 0
    /\ alerts = {}
    /\ incident = "none"

-----------------------------------------------------------------------------
(* One cycle of the thread.                                                *)

\* The members of s at the positions P, in their order.
Those(s, P) == FlattenSeq([i \in DOMAIN s |-> IF i \in P THEN <<s[i]>> ELSE <<>>])

Alive(e) == \E a \in e.arts : published[a] > time - EVENT_WINDOW

\* fetch_rss_articles: a feed in its cooldown is skipped; 429, an error or a
\* body that does not parse fail for their feed alone.  Then the start of
\* ingest: events whose newest article left the window are forgotten.
Fetch ==
    /\ phase = "idle"
    /\ \E answer \in [Feeds -> {"ok", "throttled", "error", "unreadable"}] :
          LET asked == {f \in Feeds : time >= cooling[f]}
              Listed(f) ==
                  IF f \in asked /\ answer[f] = "ok"
                  THEN Those(Listing[f], {i \in DOMAIN Listing[f] :
                                             published[Listing[f][i]] <= time})
                  ELSE <<>>
          IN
          /\ \A f \in Feeds \ asked : answer[f] = "ok"
          /\ cooling' = [f \in Feeds |->
                CASE f \notin asked -> cooling[f]
                  [] answer[f] = "throttled" -> time + THROTTLE_COOLDOWN
                  [] answer[f] = "error" -> time + TIMEOUT_COOLDOWN
                  [] OTHER -> cooling[f]]
          /\ batch' = FlattenSeq([f \in Feeds |-> Listed(f)])
    /\ events' = Those(events, {i \in DOMAIN events : Alive(events[i])})
    /\ candidates' = <<>>
    /\ phase' = "ingest"
    /\ UNCHANGED <<time, published, seen, memory, file, crashes, alerts, incident>>

\* The first event the article joins, or a new one.
Target(a) ==
    LET fits == {i \in DOMAIN events : Joins(a, events[i].arts)} IN
    IF fits = {} THEN Len(events) + 1 ELSE Min(fits)

With(a) ==
    IF Target(a) > Len(events)
    THEN Append(events, [arts |-> {a}, alerted |-> FALSE])
    ELSE [events EXCEPT ![Target(a)].arts = @ \cup {a}]

\* Is the event that just grew to be published?  Looking into the memory
\* prunes it.
Offered(evs, i) ==
    /\ Status(evs[i].arts) = "VERIFIED"
    /\ ~evs[i].alerted
    /\ \A k \in DOMAIN candidates :
          /\ candidates[k] # i
          /\ ~SameStory(ClaimsOf(evs[i].arts), ClaimsOf(evs[candidates[k]].arts))

IngestNew(a) ==
    LET i == Target(a)
        asks == Offered(With(a), i) IN
    /\ seen' = seen \cup {a}
    /\ events' = With(a)
    /\ memory' = IF asks THEN Kept(memory) ELSE memory
    /\ candidates' = IF asks /\ ~Known(ClaimsOf(With(a)[i].arts))
                     THEN Append(candidates, i) ELSE candidates

Ingest ==
    /\ phase = "ingest"
    /\ batch # <<>>
    /\ batch' = Tail(batch)
    /\ IF Head(batch) \in seen THEN UNCHANGED <<seen, events, memory, candidates>>
       ELSE IngestNew(Head(batch))
    /\ UNCHANGED <<time, published, cooling, phase, file, crashes, alerts, incident>>

IngestEnds ==
    /\ phase = "ingest"
    /\ batch = <<>>
    /\ phase' = "publish"
    /\ UNCHANGED <<time, published, cooling, seen, events, batch, candidates,
                   memory, file, crashes, alerts, incident>>

Up == Head(candidates)
Story == ClaimsOf(events[Up].arts)

MayPublishUnasked == ~Known(Story)

\* process_cycle looks again, and publish asks for the status again: what
\* was verified when it was queued may have been denied since.
MayPublish == ~Known(Story) /\ Status(events[Up].arts) = "VERIFIED"

\* The event is left out of this cycle: known, no longer verified, or the
\* analysis failed.  Nothing queues it again until an article joins it.
PassOver ==
    /\ phase = "publish" /\ candidates # <<>>
    /\ candidates' = Tail(candidates)
    /\ memory' = Kept(memory)
    /\ UNCHANGED <<time, published, cooling, seen, events, phase, batch, file,
                   crashes, alerts, incident>>

Send(told, reached) ==
    /\ phase = "publish" /\ candidates # <<>>
    /\ MayPublish
    /\ told => reached
    /\ alerts' = IF reached
                 THEN alerts \cup {[arts |-> events[Up].arts, told |-> told,
                                    at |-> time]}
                 ELSE alerts
    /\ memory' = Kept(memory)
    /\ IF told THEN phase' = "record" /\ UNCHANGED candidates
       ELSE candidates' = Tail(candidates) /\ UNCHANGED phase
    /\ UNCHANGED <<time, published, cooling, seen, events, batch, file, crashes,
                   incident>>

\* The rest of publish and AlertMemory.add, up to the write.
Record ==
    /\ phase = "record"
    /\ events' = [events EXCEPT ![Up].alerted = TRUE]
    /\ memory' = Kept(memory \cup {[claims |-> Story, at |-> time]})
    /\ phase' = "save"
    /\ UNCHANGED <<time, published, cooling, seen, batch, candidates, file,
                   crashes, alerts, incident>>

\* write_text truncates the file it is about to fill.
Truncate ==
    /\ phase = "save"
    /\ file' = [whole |-> FALSE, entries |-> {}]
    /\ phase' = "writing"
    /\ UNCHANGED <<time, published, cooling, seen, events, batch, candidates,
                   memory, crashes, alerts, incident>>

Written ==
    /\ phase = "writing"
    /\ file' = [whole |-> TRUE, entries |-> memory]
    /\ phase' = "publish"
    /\ candidates' = Tail(candidates)
    /\ incident' = IF incident = "unsaved" THEN "none" ELSE incident
    /\ UNCHANGED <<time, published, cooling, seen, events, batch, memory,
                   crashes, alerts>>

\* An OSError is logged: when opening, the old file stays; when writing, the
\* half-written one does.
WriteFails ==
    /\ phase \in {"save", "writing"}
    /\ phase' = "publish"
    /\ candidates' = Tail(candidates)
    /\ incident' = IF incident = "none" THEN "unsaved" ELSE incident
    /\ UNCHANGED <<time, published, cooling, seen, events, batch, memory, file,
                   crashes, alerts>>

CycleEnds ==
    /\ phase = "publish" /\ candidates = <<>>
    /\ phase' = "idle"
    /\ UNCHANGED <<time, published, cooling, seen, events, batch, candidates,
                   memory, file, crashes, alerts, incident>>

-----------------------------------------------------------------------------
(* The world.                                                              *)

NewsTick ==
    /\ time < NewsMaxTime
    /\ time' = time + 1
    /\ UNCHANGED <<published, cooling, seen, events, phase, batch, candidates,
                   memory, file, crashes, alerts, incident>>

\* The process dies anywhere and systemd starts it again: only the file
\* remains.
NewsCrash ==
    /\ crashes < NewsMaxCrashes
    /\ crashes' = crashes + 1
    /\ memory' = Loaded
    /\ cooling' = [f \in Feeds |-> 0]
    /\ seen' = {} /\ events' = <<>> /\ batch' = <<>> /\ candidates' = <<>>
    /\ phase' = "idle"
    /\ incident' = IF phase \in {"record", "save", "writing"} \/ incident = "unsaved"
                   THEN "forgotten" ELSE incident
    /\ UNCHANGED <<time, published, file, alerts>>

NewsNext ==
    \/ Fetch \/ Ingest \/ IngestEnds \/ PassOver
    \/ \E told, reached \in BOOLEAN : Send(told, reached)
    \/ Record \/ Truncate \/ Written \/ WriteFails \/ CycleEnds
    \/ NewsTick \/ NewsCrash

NewsSpec == NewsInit /\ [][NewsNext]_newsVars

-----------------------------------------------------------------------------
(* Properties.                                                             *)

\* The channel is the one TelegramDelivery implements.
Told(s) == s.told /\ s.at > time - MEMORY

(* Only verified news goes out (news.py:584): when it was sent, no article *)
(* of the event denied the story, an official source stated it, and        *)
(* another domain that is no social network had it too.                    *)
VerifiedOnly ==
    \A s \in alerts :
        /\ s.arts \cap Denials = {}
        /\ \E a \in s.arts : /\ IsOfficial(a)
                             /\ \E b \in s.arts : /\ Domain[b] # Domain[a]
                                                  /\ Domain[b] \notin Social

(* No two stories in the memory are the same story by the matching rule,   *)
(* whatever expired, was lost with the process or grew while it was queued *)
(* (news.py:400-434, 627-630).                                             *)
MemoryDistinct ==
    \A d, e \in Kept(memory) : d # e => ~SameStory(d.claims, e.claims)

(* A restart forgets no alert: unless a write failed or the process died   *)
(* between the send and the end of the write, every alert that was told to *)
(* be sent is on disk until it expires (news.py:405-423, 598-605).         *)
AlertsOnDisk ==
    phase \notin {"record", "save", "writing"} /\ incident = "none" =>
        /\ file.whole
        /\ \A s \in alerts : Told(s) =>
              \E e \in file.entries : e.claims = ClaimsOf(s.arts) /\ e.at >= s.at

(* What the owner is promised of the news: it is verified, no story is     *)
(* remembered twice, and none is forgotten.  "News that has alerted once   *)
(* never alerts again" (news.py:415-416) is more than that, and more than  *)
(* the code keeps: a story that grew past the threshold is told again.     *)
NewsKeptStraight == VerifiedOnly /\ MemoryDistinct /\ AlertsOnDisk
=============================================================================
