----------------------------- MODULE SearchIndex -----------------------------
(* search-service: one Kafka consumer per event type and four RabbitMQ       *)
(* consumers on one queue project the same entities into OpenSearch, each    *)
(* write behind a version check that is a separate call; clients ask for a   *)
(* page of a query, which comes from a cache or from the index.              *)
EXTENDS Integers, Sequences, FiniteSets, SequencesExt

CONSTANTS SeEntity,     \* identifiers of documents, in the order of SeRank
          SeRank,       \* the order of the identifiers: _id asc
          SeTopic,      \* the Kafka topics
          SeRabbit,     \* the consumers of the RabbitMQ queue
          SeClient,     \* the clients that search
          SeQuery,      \* the queries: [kind, tag, least, geo, cur], with the decoded cursor
          SeRuns,       \* what is published and searched: [log, queue, docs, faults, pages]
          SeMaxRetries, \* MaxRetries of either consumer
          SeLimit       \* the page size

VARIABLES seRun,        \* the run's budget of faults and pages
          seLog,        \* what is left of every topic
          seQueue,      \* the messages of the RabbitMQ queue that are not acknowledged
          seWork,       \* per consumer: [pc, ev, seen, doc, tries]
          seDocs,       \* the documents of OpenSearch
          seView,       \* the documents a search sees: as of the last refresh of the indices
          seDead,       \* the dead letters
          seLost,       \* events dropped because their dead letter could not be written
          seRaced,      \* history: entities written without a reliable version check
          seCache,      \* the cached pages: [q, items, more, steady]
          seAsk         \* per client: [pc, page], where its search has got to

NoDoc == [ver |-> -1]

\* What a run starts with: events of one form, newer than what is indexed.
SeEventOK(x, docs) ==
    /\ x.ent \in SeEntity /\ x.ver \in Nat /\ x.num \in Int
    /\ x.kind \in {"delivery", "driver", "media", "user"}
    /\ docs[x.ent].ver < x.ver

ASSUME SeAssumption ==
    /\ SeTopic \cap SeRabbit = {}
    /\ IsFiniteSet(SeEntity) /\ SeRank \in [SeEntity -> Int]
    /\ \A a, b \in SeEntity : SeRank[a] = SeRank[b] => a = b
    /\ SeLimit \in Nat \ {0}
    /\ \A q \in SeQuery : q.cur = <<>> \/ q.cur \in Int \X Int
    /\ \A run \in SeRuns :
          /\ {"log", "queue"} \subseteq DOMAIN run
          /\ run.docs = [e \in SeEntity |-> run.docs[e]]
          /\ \A e \in SeEntity : /\ run.docs[e].ver \in Int
                                 /\ run.docs[e] = NoDoc \/ (run.docs[e].num \in Int /\ run.docs[e].ver \in Nat)
          /\ \A x \in run.queue : SeEventOK(x, run.docs)
          /\ run.log = [t \in SeTopic |-> run.log[t]]
          /\ \A t \in SeTopic : /\ run.log[t] \in Seq(Range(run.log[t]))
                                /\ \A x \in Range(run.log[t]) : SeEventOK(x, run.docs)

seVars == <<seRun, seLog, seQueue, seWork, seDocs, seView, seDead, seLost, seRaced, seCache, seAsk>>

SeConsumer == SeTopic \cup SeRabbit
NoEvent == [ent |-> "", kind |-> "", op |-> "", ver |-> 0, file |-> FALSE, tag |-> "", num |-> 0]
SeIdle == [pc |-> "idle", ev |-> NoEvent, seen |-> -1, doc |-> NoDoc, tries |-> 0]
NoPage == [q |-> 0, items |-> {}, more |-> FALSE, steady |-> {}]

SeInit ==
    /\ seRun \in SeRuns
    /\ seLog = seRun.log /\ seQueue = seRun.queue /\ seDocs = seRun.docs
    /\ seWork = [c \in SeConsumer |-> SeIdle]
    /\ seDead = {} /\ seLost = {} /\ seRaced = {}
    /\ seView = seDocs /\ seCache = {}
    /\ seAsk = [u \in SeClient |-> [pc |-> "none", page |-> NoPage]]

SeFault == seRun.faults > 0 /\ seRun' = [seRun EXCEPT !.faults = @ - 1]

SeGoto(c, pc) == seWork' = [seWork EXCEPT ![c].pc = pc]

-----------------------------------------------------------------------------
(* From an event to a document *)

\* UpsertDelivery: a whole document, with the version of the event.
DeliveryDoc(e) == [ver |-> e.ver, kind |-> "delivery", tag |-> e.tag, num |-> e.num, file |-> FALSE]

\* UpsertDriver: the name is that of the user document when a search finds it.
DriverDoc(e) == [ver |-> e.ver, kind |-> "driver", tag |-> e.tag, num |-> e.num, file |-> FALSE]

\* UpsertMedia: the version is the constant 1 for every event.
MediaDoc(e) == [ver |-> 1, kind |-> "media", tag |-> e.tag, num |-> e.num, file |-> e.file]

\* UpsertUser: the document has no source_version, so that it reads as 0.
UserDoc(e) == [ver |-> 0, kind |-> "user", tag |-> e.tag, num |-> e.num, file |-> FALSE]

DocOf(e) ==
    CASE e.kind = "delivery" -> DeliveryDoc(e)
      [] e.kind = "driver"   -> DriverDoc(e)
      [] e.kind = "media"    -> MediaDoc(e)
      [] e.kind = "user"     -> UserDoc(e)

IncomingVersion(e) == IF e.kind \in {"media", "user"} THEN 1 ELSE e.ver

\* BuildRegistry: the first call of the handler of an event type.
HandlerEntry(e) ==
    CASE e.op = "delete"                    -> "delete"
      [] e.kind = "driver"                  -> "name"
      [] e.kind = "media" /\ ~e.file        -> "merge"
      [] OTHER                              -> "check"

-----------------------------------------------------------------------------
(* The consumers *)

\* HandleEvent, HandleIndexEvent: the envelope is read and the handler called.
HandleEvent(c, e) == [SeIdle EXCEPT !.pc = HandlerEntry(e), !.ev = e, !.doc = DocOf(e)]

FetchMessage(t) ==
    /\ seWork[t].pc = "idle" /\ seLog[t] # <<>>
    /\ seWork' = [seWork EXCEPT ![t] = HandleEvent(t, Head(seLog[t]))]
    /\ UNCHANGED <<seRun, seLog, seQueue, seDocs, seDead, seLost, seRaced>>

HandleIndexEvent(r) ==
    /\ seWork[r].pc = "idle"
    /\ \E e \in seQueue :
        /\ \A x \in SeRabbit : seWork[x].pc = "idle" \/ seWork[x].ev # e
        /\ seWork' = [seWork EXCEPT ![r] = HandleEvent(r, e)]
    /\ UNCHANGED <<seRun, seLog, seQueue, seDocs, seDead, seLost, seRaced>>

\* UpsertDriver asks the users index first; the answer changes only the name.
ResolveName(c) ==
    /\ seWork[c].pc = "name"
    /\ SeGoto(c, "check")
    /\ UNCHANGED <<seRun, seLog, seQueue, seDocs, seDead, seLost, seRaced>>

\* UpsertMedia without a file name takes the one of the document, if it can be read.
MergeMedia(c) ==
    LET old == seDocs[seWork[c].ev.ent] IN
    /\ seWork[c].pc = "merge"
    /\ \/ /\ seWork' = [seWork EXCEPT ![c].pc = "check",
                                      ![c].doc.file = old # NoDoc /\ old.file]
          /\ UNCHANGED seRun
       \/ /\ SeFault /\ SeGoto(c, "check")
    /\ UNCHANGED <<seLog, seQueue, seDocs, seDead, seLost, seRaced>>

GetDocumentVersion(e) == seDocs[e].ver

\* Mutant: the check lets an older version through.
StaleBackwards(seen, incoming) == seen < incoming /\ seen # -1

\* "Skipping stale document indexing"
Stale(seen, incoming) == seen >= incoming /\ seen # -1

\* upsertDoc, first half: a version that cannot be read does not stop the write.
CheckVersion(c) ==
    LET e == seWork[c].ev IN
    /\ seWork[c].pc = "check"
    /\ \/ /\ Stale(GetDocumentVersion(e.ent), IncomingVersion(e))
          /\ SeGoto(c, "commit") /\ UNCHANGED <<seRun, seRaced>>
       \/ /\ ~Stale(GetDocumentVersion(e.ent), IncomingVersion(e))
          /\ seWork' = [seWork EXCEPT ![c].pc = "write", ![c].seen = GetDocumentVersion(e.ent)]
          /\ UNCHANGED <<seRun, seRaced>>
       \/ /\ SeFault
          /\ SeGoto(c, "write")
          /\ seRaced' = seRaced \cup {e.ent}
    /\ UNCHANGED <<seLog, seQueue, seDocs, seDead, seLost>>

\* A document changes: the pages that were computed before are not steady about it any more.
Touched(e) ==
    /\ seCache' = {[x EXCEPT !.steady = @ \ {e}] : x \in seCache}
    /\ seAsk' = [u \in SeClient |-> [seAsk[u] EXCEPT !.page.steady = @ \ {e}]]

\* A store call fails: again from the start while retries are left.
SeFailed(c) ==
    LET w == seWork[c] IN
    /\ w.pc \in {"write", "delete"} /\ SeFault
    /\ seWork' = [seWork EXCEPT ![c] =
            IF w.tries < SeMaxRetries
            THEN [HandleEvent(c, w.ev) EXCEPT !.tries = w.tries + 1]
            ELSE [w EXCEPT !.pc = "dlq"]]
    /\ UNCHANGED <<seLog, seQueue, seDocs, seDead, seLost, seRaced, seCache, seAsk>>

\* upsertDoc, second half: the document is replaced whatever it is by now.
IndexDoc(c) ==
    LET w == seWork[c] IN
    /\ w.pc = "write"
    /\ seDocs' = [seDocs EXCEPT ![w.ev.ent] = w.doc]
    /\ seRaced' = IF seDocs[w.ev.ent].ver = w.seen THEN seRaced ELSE seRaced \cup {w.ev.ent}
    /\ SeGoto(c, "commit")
    /\ Touched(w.ev.ent)
    /\ UNCHANGED <<seRun, seLog, seQueue, seDead, seLost>>

DeleteDoc(c) ==
    LET e == seWork[c].ev.ent IN
    /\ seWork[c].pc = "delete"
    /\ seDocs' = [seDocs EXCEPT ![e] = NoDoc]
    /\ SeGoto(c, "commit")
    /\ Touched(e)
    /\ UNCHANGED <<seRun, seLog, seQueue, seDead, seLost, seRaced>>

\* routeToDLQ: when the dead letter cannot be written either, only a log line is left.
RouteToDLQ(c) ==
    /\ seWork[c].pc = "dlq"
    /\ \/ seDead' = seDead \cup {seWork[c].ev} /\ UNCHANGED <<seRun, seLost>>
       \/ c \in SeTopic /\ SeFault /\ seLost' = seLost \cup {seWork[c].ev} /\ UNCHANGED seDead
    /\ SeGoto(c, "commit")
    /\ UNCHANGED <<seLog, seQueue, seDocs, seRaced>>

\* The offset is committed, the RabbitMQ message acknowledged.
CommitMessages(c) ==
    /\ seWork[c].pc = "commit"
    /\ IF c \in SeTopic
       THEN seLog' = [seLog EXCEPT ![c] = Tail(@)] /\ UNCHANGED seQueue
       ELSE seQueue' = seQueue \ {seWork[c].ev} /\ UNCHANGED seLog
    /\ seWork' = [seWork EXCEPT ![c] = SeIdle]
    /\ UNCHANGED <<seRun, seDocs, seDead, seLost, seRaced>>

\* The process restarts: what was not committed is delivered again.
SeRestart ==
    /\ SeFault
    /\ seWork' = [c \in SeConsumer |-> SeIdle]
    /\ UNCHANGED <<seLog, seQueue, seDocs, seDead, seLost, seRaced>>

-----------------------------------------------------------------------------
(* Searching *)

TagFits(q, d) == q.tag \in {"", d.tag}

\* The filters of each builder: a term, and a range of a date, of a rating or of a distance.
DeliveryQuery(q, d) == d.kind = "delivery" /\ TagFits(q, d) /\ d.num >= q.least
DriverQuery(q, d) == d.kind = "driver" /\ TagFits(q, d) /\ (q.least > 0 => d.num >= q.least)
UserQuery(q, d) == d.kind = "user" /\ TagFits(q, d)
MediaQuery(q, d) == d.kind = "media" /\ TagFits(q, d)
NearbyDrivers(q, d) == d.kind = "driver" /\ d.tag = "AVAILABLE" /\ d.num <= q.least
NearbyDeliveries(q, d) == d.kind = "delivery" /\ d.num <= q.least

Matches(q, d) ==
    /\ d # NoDoc
    /\ CASE q.geo /\ q.kind = "driver"   -> NearbyDrivers(q, d)
         [] q.geo /\ q.kind = "delivery" -> NearbyDeliveries(q, d)
         [] ~q.geo /\ q.kind = "delivery" -> DeliveryQuery(q, d)
         [] ~q.geo /\ q.kind = "driver"   -> DriverQuery(q, d)
         [] q.kind = "user"              -> UserQuery(q, d)
         [] q.kind = "media"             -> MediaQuery(q, d)

Hits(q) == {e \in SeEntity : Matches(q, seView[e])}

\* The sort values of a hit: the field and, except for the nearby searches, _id.
SortKey(docs, q, e) ==
    IF q.geo THEN <<docs[e].num, 0>> ELSE <<docs[e].num, SeRank[e]>>

KeyLess(a, b) == (a[1] < b[1]) \/ (a[1] = b[1] /\ a[2] < b[2])

\* search_after
After(cur, k) == cur = <<>> \/ KeyLess(cur, k)

\* The order of the hits; a nearby search breaks ties in one way or another.
Precedes(q, a, b) ==
    \/ seView[a].num < seView[b].num
    \/ seView[a].num = seView[b].num /\ SeRank[a] <= SeRank[b]

\* executeSearch: the first hits after the cursor; a full page has a next one.
ExecuteSearch(q) ==
    LET hits == {e \in Hits(q) : After(q.cur, SortKey(seView, q, e))}
        items == {e \in hits : Cardinality({h \in hits : Precedes(q, h, e)}) <= SeLimit}
    IN [q |-> q, items |-> items, more |-> Cardinality(items) = SeLimit,
        steady |-> {e \in SeEntity : seView[e] = seDocs[e]}]

\* The index is refreshed: searches see what has been written.
SeRefresh ==
    /\ seView' = seDocs
    /\ UNCHANGED <<seRun, seLog, seQueue, seWork, seDocs, seDead, seLost, seRaced, seCache, seAsk>>

\* What the client gets: the items and whether there is a next page.  The cursor
\* of the page stays behind, and the current page is always the first.
MapSearchResult(p) == [items |-> p.items, currentPage |-> 1, nextPage |-> IF p.more THEN 2 ELSE 0]

\* A client asks, and the cache is asked first: the page it holds goes to the
\* client.  Nearby searches do not use it, and it may be out of reach.
ResolveSearch(u, q) ==
    /\ seAsk[u].pc \in {"none", "shown"} /\ seRun.pages > 0
    /\ seRun' = [seRun EXCEPT !.pages = @ - 1]
    /\ \/ \E p \in seCache : /\ p.q = q /\ ~q.geo
                            /\ seAsk' = [seAsk EXCEPT ![u] = [pc |-> "shown", page |-> p]]
       \/ seAsk' = [seAsk EXCEPT ![u] = [pc |-> "search", page |-> [NoPage EXCEPT !.q = q]]]
    /\ UNCHANGED seCache

\* The page is computed; unless the search is a nearby one or has no hits it goes to the cache.
SearchPage(u) ==
    LET q == seAsk[u].page.q IN
    /\ seAsk[u].pc = "search"
    /\ seAsk' = [seAsk EXCEPT ![u] = [pc |-> IF Hits(q) # {} /\ ~q.geo THEN "cache" ELSE "shown",
                                     page |-> ExecuteSearch(q)]]
    /\ UNCHANGED <<seRun, seCache>>

\* The page takes the place of what the cache has for its query, or the cache
\* cannot be reached, which nobody notices; the client has its answer.
CachedSearch(u) ==
    LET p == seAsk[u].page IN
    /\ seAsk[u].pc = "cache"
    /\ seAsk' = [seAsk EXCEPT ![u].pc = "shown"]
    /\ seCache' = {x \in seCache : x.q # p.q} \cup {p} \/ UNCHANGED seCache
    /\ UNCHANGED seRun

\* The time to live of a page.
ExpirePage ==
    /\ \E x \in seCache : seCache' = seCache \ {x}
    /\ UNCHANGED <<seRun, seAsk>>

-----------------------------------------------------------------------------
SeConsume(c) ==
    \/ /\ \/ c \in SeTopic /\ FetchMessage(c)
          \/ c \in SeRabbit /\ HandleIndexEvent(c)
          \/ ResolveName(c) \/ MergeMedia(c) \/ CheckVersion(c)
          \/ RouteToDLQ(c) \/ CommitMessages(c)
       /\ UNCHANGED <<seCache, seAsk>>
    \/ IndexDoc(c) \/ DeleteDoc(c) \/ SeFailed(c)

SeSearch ==
    \/ \E u \in SeClient, q \in SeQuery : ResolveSearch(u, q)
    \/ \E u \in SeClient : SearchPage(u) \/ CachedSearch(u)
    \/ ExpirePage

SeNext ==
    \/ \E c \in SeConsumer : SeConsume(c) /\ UNCHANGED seView
    \/ SeRestart /\ UNCHANGED <<seView, seCache, seAsk>>
    \/ SeRefresh
    \/ SeSearch /\ UNCHANGED <<seLog, seQueue, seWork, seDocs, seView, seDead, seLost, seRaced>>

SeSpec == SeInit /\ [][SeNext]_seVars

-----------------------------------------------------------------------------
(* Properties *)

\* Consumers, documents and searches are well formed.
SeTypeOK ==
    /\ \A c \in SeConsumer : seWork[c].pc \in
            {"idle", "name", "merge", "check", "write", "delete", "dlq", "commit"}
    /\ \A e \in SeEntity : seDocs[e] = NoDoc \/ seDocs[e].ver \in Nat
    /\ \A u \in SeClient : /\ seAsk[u].pc \in {"none", "search", "cache", "shown"}
                           /\ seAsk[u].page.steady \subseteq SeEntity

SePending(e) ==
    \/ \E t \in SeTopic : \E i \in DOMAIN seLog[t] : seLog[t][i].ent = e
    \/ \E x \in seQueue : x.ent = e

SePublished(e) ==
    (UNION {Range(seRun.log[t]) : t \in SeTopic}) \cup seRun.queue

\* When every event of a delivery or of a driver has been consumed, its
\* document is the newest version published, however the topics and the queue
\* interleave, events are delivered again and calls are retried -- unless it was
\* deleted or an event of it is dead or lost.  When two writes overlapped or a
\* version could not be read, which upsertDoc does not notice, an older version
\* may have won, but it is one that was published and not what was there before.
SeNewestWins ==
    \A e \in SeEntity :
        LET evs == {x \in SePublished(e) : x.ent = e} IN
        (/\ evs # {} /\ ~SePending(e)
         /\ \A x \in evs : x.op # "delete" /\ x.kind \in {"delivery", "driver"}
         /\ evs \cap (seDead \cup seLost) = {})
        => \E x \in evs : /\ seDocs[e].ver = x.ver
                          /\ e \in seRaced \/ \A y \in evs : y.ver <= x.ver

\* What fits the query of a page among the documents that a search could see
\* when the page was computed and that have not changed since.
SeFits(p) ==
    {e \in p.steady : Matches(p.q, seDocs[e]) /\ After(p.q.cur, SortKey(seDocs, p.q, e))}

\* An answer stays true of every document that has not changed since its page
\* was computed, from whatever cache it comes and whatever is indexed meanwhile:
\* it lists none that does not fit the query, has none before one it lists left
\* out, and without a next page has left none out at all.
SePagesAreTrue ==
    \A u \in SeClient : seAsk[u].pc = "shown" =>
        LET p == seAsk[u].page
            answer == MapSearchResult(p)
        IN /\ answer.items \cap p.steady \subseteq SeFits(p)
           /\ answer.nextPage = 0 => SeFits(p) \subseteq answer.items
           /\ \A a, b \in SeFits(p) :
                 b \in answer.items /\ KeyLess(SortKey(seDocs, p.q, a), SortKey(seDocs, p.q, b))
                 => a \in answer.items

=============================================================================
