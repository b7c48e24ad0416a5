------------------------------ MODULE SearchOps ------------------------------
(* The indices of search-service.  Every replica makes sure at its start,    *)
(* and again when a search meets no index, that each alias leads to its      *)
(* versioned index with its mapping, while other replicas do the same,       *)
(* write documents and search, and while OpenSearch fails or its answers     *)
(* are lost.  What the documents hold is SearchIndex.                        *)
EXTENDS Integers, Sequences, FiniteSets

CONSTANTS SxReplica,   \* the replicas of the service
          SxRetries,   \* maxRetries of main
          SxFaults,    \* how many calls may fail, or take effect with their answer lost
          SxCrashes    \* how many replicas may be restarted

VARIABLES sxMapped,    \* OpenSearch: the versioned indices that exist
          sxAlias,     \* OpenSearch: the aliases that lead to their versioned index
          sxPlain,     \* OpenSearch: indices it made itself under the name of an alias
          sxWork,      \* every replica: [pc, pos, errs, try, boot, ready]
          sxAnswer,    \* the last search of every replica: [kind, said]
          sxBudget     \* [faults, crashes] left

sxVars == <<sxMapped, sxAlias, sxPlain, sxWork, sxAnswer, sxBudget>>

ASSUME SxAssumption == SxRetries \in Nat \ {0} /\ SxFaults \in Nat /\ SxCrashes \in Nat

-----------------------------------------------------------------------------
(* Mappings, reduced to the fields the queries filter, sort or measure by    *)

EnsureList == <<"deliveries", "drivers", "media", "users">>
SxKind == {EnsureList[i] : i \in DOMAIN EnsureList}

DeliveriesMapping == [status |-> "keyword", pickup_location |-> "geo_point", created_at |-> "date"]
DriversMapping == [status |-> "keyword", location |-> "geo_point", rating |-> "float"]
UsersMapping == [role |-> "keyword", is_active |-> "boolean", created_at |-> "date"]
MediaMapping == [owner_id |-> "keyword", media_type |-> "keyword", created_at |-> "date"]

MappingOf(k) == CASE k = "deliveries" -> DeliveriesMapping
                  [] k = "drivers" -> DriversMapping
                  [] k = "users" -> UsersMapping
                  [] k = "media" -> MediaMapping

\* The mapping OpenSearch derives from a document: a string is text, a point is an object.
DynamicMapping(k) ==
    [f \in DOMAIN MappingOf(k) |-> CASE MappingOf(k)[f] = "keyword" -> "text"
                                     [] MappingOf(k)[f] = "geo_point" -> "object"
                                     [] OTHER -> MappingOf(k)[f]]

\* What the queries of the repository do with those fields.
QueryUses(k) ==
    CASE k = "deliveries" -> [status |-> "term", pickup_location |-> "distance", created_at |-> "range"]
      [] k = "drivers" -> [status |-> "term", location |-> "distance", rating |-> "range"]
      [] k = "users" -> [role |-> "term", is_active |-> "term", created_at |-> "sort"]
      [] k = "media" -> [owner_id |-> "term", media_type |-> "term", created_at |-> "sort"]

\* A use that a field of this type serves: a term is compared with the whole value.
Serves(type, use) == CASE use = "distance" -> type = "geo_point"
                       [] use = "term" -> type \in {"keyword", "boolean"}
                       [] OTHER -> type \in {"date", "float", "keyword"}
Fits(mapping, uses) == \A f \in DOMAIN uses : Serves(mapping[f], uses[f])

-----------------------------------------------------------------------------
(* EnsureIndices *)

SxBooting == [pc |-> "exists", pos |-> 1, errs |-> 0, try |-> 1, boot |-> TRUE, ready |-> FALSE]

SxInit ==
    /\ sxMapped = {} /\ sxAlias = {} /\ sxPlain = {}
    /\ sxWork = [r \in SxReplica |-> SxBooting]
    /\ sxAnswer = [r \in SxReplica |-> [kind |-> "none", said |-> "none"]]
    /\ sxBudget = [faults |-> SxFaults, crashes |-> SxCrashes]

SxFault == sxBudget.faults > 0 /\ sxBudget' = [sxBudget EXCEPT !.faults = @ - 1]
SxAt(r) == EnsureList[sxWork[r].pos]
SxGoto(r, pc) == sxWork' = [sxWork EXCEPT ![r].pc = pc]

\* After the last alias: main tries again, gives up or is ready; a search goes on.
EnsureEnds(w, errs) ==
    CASE ~w.boot -> [w EXCEPT !.pc = "serving"]
      [] w.boot /\ errs = 0 -> [w EXCEPT !.pc = "serving", !.boot = FALSE, !.ready = TRUE]
      [] w.boot /\ errs > 0 /\ w.try < SxRetries -> [SxBooting EXCEPT !.try = w.try + 1]
      [] OTHER -> [w EXCEPT !.pc = "serving", !.boot = FALSE]

\* The loop goes on with the next alias, whether this one failed or not.
EnsureNext(r, failed) ==
    LET w == sxWork[r]
        errs == w.errs + failed
    IN  sxWork' = [sxWork EXCEPT ![r] =
            IF w.pos = Len(EnsureList) THEN EnsureEnds(w, errs)
            ELSE [w EXCEPT !.pos = @ + 1, !.errs = errs, !.pc = "exists"]]

\* Mutant: an index that exists is taken to have its alias.
IndexExistsTrusted(r) ==
    /\ sxWork[r].pc = "exists"
    /\ IF SxAt(r) \in sxMapped THEN EnsureNext(r, 0) ELSE SxGoto(r, "create")
    /\ UNCHANGED <<sxMapped, sxAlias, sxBudget>>

IndexExists(r) ==
    /\ sxWork[r].pc = "exists"
    /\ \/ SxGoto(r, IF SxAt(r) \in sxMapped THEN "alias" ELSE "create") /\ UNCHANGED sxBudget
       \/ SxFault /\ EnsureNext(r, 1)
    /\ UNCHANGED <<sxMapped, sxAlias>>

\* Another replica may have created it since: that is a refusal like any other.
CreateIndex(r) ==
    /\ sxWork[r].pc = "create"
    /\ \/ /\ SxAt(r) \notin sxMapped /\ sxMapped' = sxMapped \cup {SxAt(r)}
          /\ SxGoto(r, "alias") /\ UNCHANGED sxBudget
       \/ /\ SxAt(r) \in sxMapped /\ EnsureNext(r, 1) /\ UNCHANGED <<sxMapped, sxBudget>>
       \/ /\ SxFault /\ EnsureNext(r, 1)
          /\ (UNCHANGED sxMapped \/ sxMapped' = sxMapped \cup {SxAt(r)})
    /\ UNCHANGED sxAlias

\* An alias cannot have the name of an index.
AddAlias(k) == IF k \in sxPlain THEN sxAlias ELSE sxAlias \cup {k}

EnsureAlias(r) ==
    /\ sxWork[r].pc = "alias"
    /\ \/ /\ EnsureNext(r, IF SxAt(r) \in sxPlain THEN 1 ELSE 0)
          /\ sxAlias' = AddAlias(SxAt(r)) /\ UNCHANGED sxBudget
       \/ SxFault /\ EnsureNext(r, 1) /\ sxAlias' \in {sxAlias, AddAlias(SxAt(r))}
    /\ UNCHANGED sxMapped

EnsureStep(r) ==
    /\ IndexExists(r) \/ CreateIndex(r) \/ EnsureAlias(r)
    /\ UNCHANGED <<sxPlain, sxAnswer>>

-----------------------------------------------------------------------------
(* Serving *)

\* A consumer writes a document to the alias; OpenSearch makes a missing index.
UpsertDoc(r, k) ==
    /\ ~sxWork[r].boot
    /\ sxPlain' = IF k \in sxAlias THEN sxPlain ELSE sxPlain \cup {k}
    /\ UNCHANGED <<sxMapped, sxAlias, sxWork, sxAnswer, sxBudget>>

\* A search that meets no index ensures them all, one at a time in a replica,
\* while the other requests and the consumers go on; it answers that there is nothing.
SearchOn(r, k) ==
    /\ ~sxWork[r].boot
    /\ sxAnswer' = [sxAnswer EXCEPT ![r] = [kind |-> k, said |->
            CASE k \in sxAlias -> IF Fits(MappingOf(k), QueryUses(k)) THEN "hits" ELSE "misfit"
              [] k \in sxPlain -> IF Fits(DynamicMapping(k), QueryUses(k)) THEN "hits" ELSE "misfit"
              [] OTHER -> "empty"]]
    /\ IF k \in sxAlias \cup sxPlain \/ sxWork[r].pc # "serving" THEN UNCHANGED sxWork
       ELSE sxWork' = [sxWork EXCEPT ![r].pc = "exists", ![r].pos = 1, ![r].errs = 0]
    /\ UNCHANGED <<sxMapped, sxAlias, sxPlain, sxBudget>>

SxRestart(r) ==
    /\ sxBudget.crashes > 0 /\ sxBudget' = [sxBudget EXCEPT !.crashes = @ - 1]
    /\ sxWork' = [sxWork EXCEPT ![r] = SxBooting]
    /\ sxAnswer' = [sxAnswer EXCEPT ![r] = [kind |-> "none", said |-> "none"]]
    /\ UNCHANGED <<sxMapped, sxAlias, sxPlain>>

SxNext == \E r \in SxReplica :
    \/ EnsureStep(r) \/ SxRestart(r)
    \/ \E k \in SxKind : UpsertDoc(r, k) \/ SearchOn(r, k)

SxSpec == SxInit /\ [][SxNext]_sxVars

-----------------------------------------------------------------------------
(* Properties *)

\* Replicas, indices, aliases and the budgets are well formed.
SxTypeOK ==
    /\ sxMapped \cup sxAlias \cup sxPlain \subseteq SxKind
    /\ \A r \in SxReplica :
        /\ sxWork[r].pc \in {"exists", "create", "alias", "serving"}
        /\ sxWork[r].pos \in DOMAIN EnsureList /\ sxWork[r].errs \in 0..Len(EnsureList)
        /\ sxWork[r].try \in 1..SxRetries
        /\ sxAnswer[r].said \in {"none", "hits", "misfit", "empty"}

\* A replica that found "OpenSearch indices ready" has every alias on the
\* index with its own mapping, and keeps it, whatever the others create, lose
\* or write at the same time; so no search of it is answered from an index
\* whose fields do not serve the query, nor with an index missing.
SxReadyIsServed ==
    \A r \in SxReplica : sxWork[r].ready =>
        /\ SxKind \subseteq sxMapped \cap sxAlias
        /\ sxAnswer[r].said \in {"none", "hits"}

=============================================================================
