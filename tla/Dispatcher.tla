----------------------------- MODULE Dispatcher -----------------------------
(***************************************************************************)
(* Management: ndn::mgmt::Dispatcher, which answers the Interests under     *)
(* NFD's top prefixes.  Commands are answered once; the segments of a       *)
(* dataset and the notifications of a stream are also put into an in-memory *)
(* storage, which is asked before anything is made anew.                    *)
(*                                                                         *)
(* Everything runs on the I/O thread.  What the Dispatcher asks of its Face *)
(* takes effect when the I/O service gets to it (posts).  The Face, the     *)
(* storage, the forwarder behind the Face and who sends the Interests are   *)
(* external.                                                                *)
(***************************************************************************)
EXTENDS Naturals, SequencesExt

CONSTANTS
    Components,     \* what names consist of
    TopPrefixes,    \* the names used as top prefixes
    Offers,         \* [rel, kind]: what may be registered below them
    LastPart,       \* the last segment of a dataset
    Capacity,       \* imsCapacity
    MaxPosts,       \* bound on the calls that wait when a top prefix is added
    MaxMade,        \* bound on the datasets and notifications made
    MaxPending      \* bound on what is pending or under way when an Interest is added

Kinds == {"COMMAND", "DATASET", "STREAM"}

ASSUME NamesAssumption ==
    /\ TopPrefixes \subseteq Seq(Components)
    /\ Offers \subseteq [rel : Seq(Components), kind : Kinds]
ASSUME BoundsAssumption ==
    /\ LastPart \in Nat /\ Capacity \in Nat \ {0}
    /\ MaxPosts \in Nat /\ MaxMade \in Nat /\ MaxPending \in Nat

VARIABLES
    handlers,       \* m_handlers: the kind of handler for each relative prefix
    streams,        \* m_streams: the next number for each name
    tops,           \* the keys of m_topLevelPrefixes
    storage,        \* m_storage, from its oldest entry on
    posts,          \* calls of the Face that wait for the I/O service
    filters         \* the Face's m_interestFilterTable

VARIABLES           \* the forwarder, and bookkeeping
    pit,            \* Interests that are pending
    inbound,        \* those on their way to the Face
    outbound,       \* Data on its way back
    reached,        \* pending Interests that a dataset's or stream's handler
                    \* has had
    notes,          \* the notifications posted, in order
    versions        \* the number of datasets made

dispatcher == <<handlers, streams, tops, storage>>
face       == <<posts, filters>>
forwarder  == <<pit, inbound, outbound, reached>>
counters   == <<notes, versions>>
vars       == <<dispatcher, face, forwarder, counters>>

Rels  == {o.rel : o \in Offers}
Names == {t \o r : t \in TopPrefixes, r \in Rels}

\* Data below a name: a segment of a version, a notification, or a response.
\* An Interest may leave version and number open (-1 in neither).
Notification(n, i) == [name |-> n, version |-> 0, part |-> i]
Response(n)        == [name |-> n, version |-> 0, part |-> 0]
Segment(n, v, i)   == [name |-> n, version |-> v, part |-> i]
Parts == 0 .. LastPart + MaxMade
Data  == [name : Names, version : 0 .. MaxMade, part : Parts]

Whole(n)   == [name |-> n, any |-> TRUE, data |-> Notification(n, 0)]
Exactly(d) == [name |-> d.name, any |-> FALSE, data |-> d]
Interests  == {Whole(n) : n \in Names} \cup {Exactly(d) : d \in Data}

\* What an application asks for below a top prefix that is there: a command, a
\* dataset or the last notification, the next notification, or a segment of a
\* version that it has heard of.  (Nothing comes of an Interest no filter matches.)
Wanted ==
    LET served == {t \o r : t \in tops, r \in DOMAIN handlers}
        next == {Notification(d.name, d.part + 1) : d \in ToSet(notes)}
        rest == {Segment(n, v, k) : n \in served, v \in 1 .. versions, k \in 1 .. LastPart}
    IN  {Whole(n) : n \in served} \cup {Exactly(d) : d \in {e \in next \cup rest : e.name \in served}}

\* The type of every variable.
DispatcherTypeOK ==
    /\ handlers \in [DOMAIN handlers -> Kinds] /\ DOMAIN handlers \subseteq Rels
    /\ streams \in [DOMAIN streams -> 0 .. MaxMade]
    /\ DOMAIN streams \subseteq Rels \cup Names
    /\ tops \subseteq TopPrefixes
    /\ storage \in Seq([data : Data, fresh : BOOLEAN]) /\ Len(storage) <= Capacity
    /\ posts \in Seq([set : BOOLEAN, top : TopPrefixes, rel : Rels])
    /\ filters \in Seq([top : TopPrefixes, rel : Rels])
    /\ pit \subseteq Interests /\ reached \subseteq pit
    /\ inbound \in Seq(Interests) /\ outbound \in Seq(Data)
    /\ notes \in Seq(Data) /\ versions \in 0 .. MaxMade

-----------------------------------------------------------------------------
(* Plausible bugs in the helpers below, for checking the properties.       *)

LongerOnly(m, n) == IsPrefix(m, n)
NoEviction(s) == s
ByRelPrefix(t, r) == r
FiltersStay(t) == <<>>
StorageOnly(q, d) == q
NeverStored(i) == {}

-----------------------------------------------------------------------------
(* Helpers.                                                                *)

\* MustBeFresh is what an Interest that leaves the version open asks for.
Satisfies(d, i) == d.name = i.name /\ (i.any \/ d = i.data)
Found(i) == {e \in ToSet(storage) : Satisfies(e.data, i) /\ (i.any => e.fresh)}

Overlap(m, n) == IsPrefix(m, n) \/ IsPrefix(n, m)

\* isOverlappedWithOthers looks at the handlers and at the keys of m_streams,
\* which are relative prefixes and the full names of streams in use.
Taken == DOMAIN handlers \cup DOMAIN streams

StreamKey(t, r) == t \o r

\* std::map::operator[] and assignment
Put(map, key, value) ==
    [k \in DOMAIN map \cup {key} |-> IF k = key THEN value ELSE map[k]]

\* The storage drops its oldest entries when it is full.
Evicted(s) ==
    LET surplus == Len(s) - Capacity
    IN  IF surplus > 0 THEN SubSeq(s, surplus + 1, Len(s)) ELSE s
Stored(s, ds) == Evicted(s \o [k \in DOMAIN ds |-> [data |-> ds[k], fresh |-> TRUE]])

\* A notification is stored and sent, because an Interest for it may have come.
Announced(q, d) == Append(q, d)

\* One call of the Face for each handler.
Calls(set, t) == LET rs == SetToSeq(DOMAIN handlers)
                 IN  [i \in DOMAIN rs |-> [set |-> set, top |-> t, rel |-> rs[i]]]
SetAll(t)   == Calls(TRUE, t)
UnsetAll(t) == Calls(FALSE, t)

-----------------------------------------------------------------------------

Init ==
    /\ handlers = <<>> /\ streams = <<>> /\ tops = {} /\ storage = <<>>
    /\ posts = <<>> /\ filters = <<>>
    /\ pit = {} /\ inbound = <<>> /\ outbound = <<>> /\ reached = {}
    /\ notes = <<>> /\ versions = 0

\* addControlCommand, addStatusDataset, addNotificationStream; each throws in
\* the other cases, before it changes anything.
AddHandler(o) ==
    /\ tops = {}
    /\ \A n \in Taken : ~Overlap(n, o.rel)
    /\ handlers' = Put(handlers, o.rel, o.kind)
    /\ streams' = IF o.kind = "STREAM" THEN Put(streams, o.rel, 0) ELSE streams
    /\ UNCHANGED <<tops, storage, face, forwarder, counters>>

AddTopPrefix(t) ==
    /\ \A n \in tops : ~Overlap(n, t)
    /\ Len(posts) <= MaxPosts
    /\ tops' = tops \cup {t}
    /\ posts' = posts \o SetAll(t)
    /\ UNCHANGED <<handlers, streams, storage, filters, forwarder, counters>>

RemoveTopPrefix(t) ==
    /\ t \in tops
    /\ tops' = tops \ {t}
    /\ posts' = posts \o UnsetAll(t)
    /\ UNCHANGED <<handlers, streams, storage, filters, forwarder, counters>>

\* Nothing happens unless there is one top prefix.
PostNotification(r) ==
    /\ r \in DOMAIN handlers /\ handlers[r] = "STREAM"
    /\ Len(notes) + versions < MaxMade
    /\ \E t \in tops :
        LET key == StreamKey(t, r)
            no  == IF key \in DOMAIN streams THEN streams[key] ELSE 0
            d   == Notification(t \o r, no)
        IN  /\ tops = {t}
            /\ streams' = Put(streams, key, no + 1)
            /\ storage' = Stored(storage, <<d>>)
            /\ outbound' = Announced(outbound, d)
            /\ notes' = Append(notes, d)
    /\ UNCHANGED <<handlers, tops, face, pit, inbound, reached, versions>>

-----------------------------------------------------------------------------
(* The handlers of Interest i, below top prefix and relative prefix.        *)

\* queryStorage sends what it finds and asks the dataset's handler, if any,
\* otherwise.
FromStorage(i) ==
    /\ \E e \in Found(i) : outbound' = Append(outbound, e.data)
    /\ UNCHANGED <<storage, versions>>

\* The whole dataset is made in one go: all segments are stored, the first is
\* sent.  An Interest for a certain version or segment is not answered.
MakeDataset(i) ==
    LET v  == versions + 1
        ds == [k \in 1 .. LastPart + 1 |-> Segment(i.name, v, k - 1)]
    IN  /\ Found(i) = {} /\ i.any
        /\ Len(notes) + versions < MaxMade
        /\ versions' = v
        /\ storage' = Stored(storage, ds)
        /\ outbound' = Append(outbound, ds[1])

\* A miss of a stream, a dataset asked for a certain version or segment, a
\* command that is malformed or a request that is rejected without a word.
Silent == UNCHANGED <<storage, outbound, versions>>

\* Any other command, or a dataset that is refused.
Respond(i) ==
    /\ outbound' = Append(outbound, Response(i.name))
    /\ UNCHANGED <<storage, versions>>

Handle(kind, i) ==
    CASE kind = "COMMAND" -> Respond(i) \/ Silent
      [] kind = "STREAM"  -> FromStorage(i) \/ (Found(i) = {} /\ Silent)
      [] kind = "DATASET" -> FromStorage(i) \/ MakeDataset(i)
                                \/ (Found(i) = {} /\ ((i.any /\ Respond(i)) \/ Silent))

\* processInterestFilters calls the handler of each filter that matches, which
\* is one at most (AtMostOneHandler).
Matching(i) == {f \in ToSet(filters) : IsPrefix(f.top \o f.rel, i.name)}
DeliverInterest ==
    /\ inbound # <<>>
    /\ inbound' = Tail(inbound)
    /\ LET i == Head(inbound) IN
        \/ /\ Matching(i) = {} /\ Silent
           /\ UNCHANGED reached
        \/ \E f \in Matching(i) :
            /\ Handle(handlers[f.rel], i)
            /\ reached' = IF handlers[f.rel] = "COMMAND" THEN reached
                          ELSE reached \cup ({i} \cap pit)
    /\ UNCHANGED <<handlers, streams, tops, face, pit, notes>>

-----------------------------------------------------------------------------
(* The Face, the storage and the forwarder.                                *)

RunPost ==
    /\ posts # <<>>
    /\ posts' = Tail(posts)
    /\ LET p == Head(posts)
           f == [top |-> p.top, rel |-> p.rel]
       IN  filters' = IF p.set THEN Append(filters, f) ELSE RemoveFirst(filters, f)
    /\ UNCHANGED <<dispatcher, forwarder, counters>>

\* Data made at the same time are fresh for the same time.
Together(c, d) == c.name = d.name /\ c.version = d.version
                    /\ (c.version = 0 => c.part = d.part)
MarkStale(e) ==
    /\ e \in ToSet(storage) /\ e.fresh
    /\ storage' = [k \in DOMAIN storage |->
            [storage[k] EXCEPT !.fresh = @ /\ ~Together(storage[k].data, e.data)]]
    /\ UNCHANGED <<handlers, streams, tops, face, forwarder, counters>>

Express(i) ==
    /\ i \in Wanted \ pit
    /\ Cardinality(pit) < MaxPending
    /\ Len(inbound) < MaxPending /\ Len(outbound) < MaxPending
    /\ pit' = pit \cup {i}
    /\ inbound' = Append(inbound, i)
    /\ UNCHANGED <<dispatcher, face, outbound, reached, counters>>

DeliverData ==
    /\ outbound # <<>>
    /\ outbound' = Tail(outbound)
    /\ LET done == {i \in pit : Satisfies(Head(outbound), i)}
       IN  pit' = pit \ done /\ reached' = reached \ done
    /\ UNCHANGED <<dispatcher, face, inbound, counters>>

Expire(i) ==
    /\ i \in pit
    /\ pit' = pit \ {i} /\ reached' = reached \ {i}
    /\ UNCHANGED <<dispatcher, face, inbound, outbound, counters>>

Next ==
    \/ \E o \in Offers : AddHandler(o)
    \/ \E t \in TopPrefixes : AddTopPrefix(t) \/ RemoveTopPrefix(t)
    \/ \E r \in Rels : PostNotification(r)
    \/ DeliverInterest \/ RunPost \/ DeliverData
    \/ \E e \in ToSet(storage) : MarkStale(e)
    \/ \E i \in Interests : Express(i) \/ Expire(i)

Spec == Init /\ [][Next]_vars

-----------------------------------------------------------------------------

\* No Interest is handled twice: no two filters in the Face's table match the
\* same Interest, though the table lags behind the Dispatcher's own records and
\* prefixes are removed and added in between.
AtMostOneHandler ==
    \A i, j \in DOMAIN filters :
        i # j => ~Overlap(filters[i].top \o filters[i].rel,
                          filters[j].top \o filters[j].rel)

\* Once the I/O service has done what it was asked, there is one filter for each
\* handler below each top prefix, and no other.
FiltersFollow ==
    posts = <<>> =>
        /\ ToSet(filters) = {[top |-> t, rel |-> r] : t \in tops, r \in DOMAIN handlers}
        /\ IsInjective(filters)

\* "assign the next sequence number" (dispatcher.hpp:278): the notifications
\* under one name are numbered from 0 without a gap or a repetition, though the
\* name may be that of two streams, below different top prefixes, in turn.
NumberedInOrder ==
    \A k \in DOMAIN notes :
        notes[k].part = Cardinality({j \in 1 .. k - 1 : notes[j].name = notes[k].name})

\* "a request may be pending in the PIT" (dispatcher.cpp:366): an Interest that the
\* handler of a dataset or a stream has had waits for no Data that the storage
\* has, unless that is on its way.  (The handler of a command does not ask the
\* storage, which may have a dataset of that name from below another top prefix.)
NobodyMissed ==
    \A i \in reached :
        Found(i) # {} => \E d \in ToSet(outbound) : Satisfies(d, i)

\* "without invoking StatusDatasetHandler again" (status-dataset-context.hpp:66): of
\* a dataset at most one version is fresh, so that all who ask at about the same
\* time retrieve the same, though the storage drops some of its segments.
OneFreshVersion ==
    \A e, f \in ToSet(storage) :
        /\ e.fresh /\ f.fresh /\ e.data.name = f.data.name
        /\ e.data.version > 0 /\ f.data.version > 0
        => e.data.version = f.data.version

=============================================================================
