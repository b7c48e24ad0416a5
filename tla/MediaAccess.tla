---------------------------- MODULE MediaAccess -----------------------------
(***************************************************************************)
(* media-service: what a request is allowed.  The checks of an upload      *)
(* (declared size, type and extension, how it is cut into parts, then the  *)
(* signature and the checksum of the stored object), the reads of the      *)
(* GraphQL and gRPC transports, and the dead-letter topics with their      *)
(* replay.                                                                 *)
(*                                                                         *)
(* A request is one step: none of them writes what another reads, so each  *)
(* is tried on its own.  A replay is one step per message, and dead        *)
(* letters arrive in between; requests and letters share no state, and     *)
(* maLeft = 0 from the start is a behaviour with a request.                *)
(* A content type is [type, spelling]: the checks disagree on how much of  *)
(* the spelling they normalise.                                            *)
(***************************************************************************)
EXTENDS Integers, Sequences, FiniteSets

CONSTANTS
    MaUploads,      \* uploads tried: declared size, type, extension, checksum; stored bytes
    MaReads,        \* reads tried: operation, requester and argument
    MaRows,         \* media rows, id -> row, newest first in MaOrder
    MaOrder,
    MaMaxParts,     \* 10000: the most parts S3 takes
    MaMaxSize,      \* Config.MaxFileSize
    MaPageLimit,    \* 20: the page size used for an absent or excessive limit
    MaLetters,      \* dead letters
    MaReplays       \* bound: replay calls

MaUploadRequest ==
    [size : Int, min : Nat, ct : [type : STRING, spelling : STRING], ext : STRING, bytes : STRING, sum : STRING]
MaReadRequest ==
    [op : STRING, user : STRING, role : STRING, id : STRING, claimed : STRING, version : STRING, limit : Int,
     cursor : STRING]

\* A part may not be smaller than the most parts there are, or the cut leaves empty parts.
ASSUME MaAssumption ==
    /\ MaMaxParts \in Nat \ {0} /\ MaMaxSize \in Nat /\ MaPageLimit \in Nat \ {0} /\ MaReplays \in Nat
    /\ MaUploads \subseteq MaUploadRequest /\ \A up \in MaUploads : up.min >= MaMaxParts
    /\ MaReads \subseteq MaReadRequest
    /\ MaOrder \in Seq(DOMAIN MaRows)

VARIABLES
    maAns,      \* the last request and its answer
    maDead,     \* the dead-letter topic
    maReplay,   \* the ReplayAllDLQMessages call in progress
    maLeft      \* replay calls still to come

maVars == <<maAns, maDead, maReplay, maLeft>>

MaIdle == [on |-> FALSE, max |-> 0, next |-> 1, replayed |-> 0, back |-> <<>>]
MaNone == [op |-> "none"]

MaInit ==
    /\ maAns = MaNone
    /\ maDead = <<>>
    /\ maReplay = MaIdle
    /\ maLeft \in {0, MaReplays}

-----------------------------------------------------------------------------
(* Validation of an upload *)

\* Representatives of the table: two extensions, one, none; with and without a signature.
allowedExtensions ==
    [jpeg |-> {".jpg", ".jpeg"}, png |-> {".png"}, webp |-> {".webp"}, mp4 |-> {".mp4"},
     matroska |-> {".mkv"}, pdf |-> {".pdf"}, text |-> {".txt"}, octet |-> {}]

MaTypes == DOMAIN allowedExtensions
MaImages == {"jpeg", "png", "webp"}
MaVideos == {"mp4", "matroska"}

\* A spelling is exact, in capitals, with a parameter, or with blanks around it.
\* strings.ToLower, Split(";")[0] and TrimSpace leave the type alone.
ValidateContentType(ct) == ct.type \in MaTypes

\* The same without TrimSpace: a type with blanks is not found and passes.
ValidateExtension(ext, ct) ==
    /\ ext /= ""
    /\ \/ ct.spelling = "blank"
       \/ allowedExtensions[ct.type] = {}
       \/ ext \in allowedExtensions[ct.type]

ValidateUploadRequest(up) ==
    /\ up.size > 0 /\ up.size <= MaMaxSize
    /\ ValidateContentType(up.ct)
    /\ ValidateExtension(up.ext, up.ct)

\* Signatures are looked up by the raw type; bytes names the type whose signature they carry.
magicByteSignatures == {"jpeg", "png", "pdf"}
ContainerTypes == {"webp", "mp4"}
IsContainerType(ct) == ct.spelling = "exact" /\ ct.type \in ContainerTypes

ValidateObjectLoose(ct, bytes) ==
    (ct.spelling = "exact" /\ ct.type \in magicByteSignatures) => bytes = ct.type

ValidateObject(ct, bytes) ==
    \/ IsContainerType(ct) /\ bytes = ct.type
    \/ /\ ~IsContainerType(ct)
       /\ (ct.spelling = "exact" /\ ct.type \in magicByteSignatures) => bytes = ct.type

ChecksumValidate(sum) == sum \in {"", "right"}

\* Classified by the raw type: a prefix for images and videos, a lookup for documents.
DeriveMediaType(ct) ==
    CASE ct.spelling /= "upper" /\ ct.type \in MaImages -> "IMAGE"
      [] ct.spelling /= "upper" /\ ct.type \in MaVideos -> "VIDEO"
      [] ct.spelling = "exact" /\ ct.type \in {"pdf", "text"} -> "DOCUMENT"
      [] OTHER -> "OTHER"

MaCeil(a, b) == (a + b - 1) \div b

calculatePartsFloor(size, min) ==
    IF size <= min
    THEN [parts |-> 1, size |-> size]
    ELSE IF MaCeil(size, min) > MaMaxParts
         THEN [parts |-> MaMaxParts, size |-> size \div MaMaxParts]
         ELSE [parts |-> MaCeil(size, min), size |-> min]

calculateParts(size, min) ==
    IF size <= min
    THEN [parts |-> 1, size |-> size]
    ELSE IF MaCeil(size, min) > MaMaxParts
         THEN [parts |-> MaMaxParts, size |-> MaCeil(size, MaMaxParts)]
         ELSE [parts |-> MaCeil(size, min), size |-> min]

\* The upload as the service decides it: refused, failed after the transfer, or stored.
MaUpload(up) ==
    /\ maLeft = 0 /\ maAns = MaNone /\ maDead = <<>>
    /\ maAns' = [op |-> "upload", up |-> up, parts |-> calculateParts(up.size, up.min),
                 kind |-> DeriveMediaType(up.ct),
                 verdict |-> IF ~ValidateUploadRequest(up) THEN "refused"
                             ELSE IF ValidateObject(up.ct, up.bytes) /\ ChecksumValidate(up.sum)
                                  THEN "stored" ELSE "failed"]
    /\ UNCHANGED <<maDead, maReplay, maLeft>>

-----------------------------------------------------------------------------
(* Reads *)

MaRefused(why) == {[ok |-> FALSE, why |-> why]}
MaGives(data) == {[ok |-> TRUE, data |-> data]}

isUserAdmin(q) == q.role = "admin"

\* GetByID, then the owner or an administrator.
MaAuthorized(q, asAdmin, then) ==
    IF q.id \notin DOMAIN MaRows THEN MaRefused("not found")
    ELSE IF ~asAdmin /\ MaRows[q.id].owner /= q.user THEN MaRefused("denied")
    ELSE then

resolveMedia(q) == MaAuthorized(q, isUserAdmin(q), MaGives({q.id}))

GetMediaExecute(q) == MaAuthorized(q, FALSE, MaGives({q.id}))

\* The rows of an owner, by their places in MaOrder.
MaOwned(u) == {k \in DOMAIN MaOrder : MaRows[MaOrder[k]].owner = u}

\* The first n of them, or all; there is one such page.
MaFirst(n, u) ==
    LET owned == MaOwned(u)
    IN {page \in SUBSET owned : /\ Cardinality(page) = IF n < Cardinality(owned) THEN n ELSE Cardinality(owned)
                                /\ \A k \in page, j \in owned \ page : k < j}

\* Limit reads from the index, of which the store reports whether it stopped there.
MaPage(u, n) ==
    UNION {MaGives([items |-> {MaOrder[k] : k \in page}, next |-> Cardinality(page) = n]) : page \in MaFirst(n, u)}

\* A cursor lacks the sort key of the index, and the store refuses it.
ListByOwner(u, limit, cursor) ==
    IF cursor /= "" THEN MaRefused("error")
    ELSE MaPage(u, IF limit <= 0 \/ limit > 100 THEN MaPageLimit ELSE limit)

resolveListMedia(q) ==
    LET target == IF q.id = "" THEN q.user ELSE q.id IN
    IF target /= q.user /\ ~isUserAdmin(q) THEN MaRefused("denied")
    ELSE ListByOwner(target, q.limit, q.cursor)

MissingPartNumbers(total, done) == (1..total) \ done

GetUploadStatus(q) ==
    MaAuthorized(q, FALSE,
        MaGives([completed |-> Cardinality(MaRows[q.id].done),
                 missing |-> MissingPartNumbers(MaRows[q.id].total, MaRows[q.id].done)]))

\* The version asked for, or the original when there is none (or its lookup fails).
MaObject(q) ==
    IF q.version \in MaRows[q.id].versions THEN {q.version, "original"} ELSE {"original"}

MaWithheld == {"QUARANTINED", "FAILED", "DELETED", "ABORTED"}
MaWithheldLess == MaWithheld \ {"QUARANTINED"}

IsWithheldLoose(q) == MaRows[q.id].status \in MaWithheldLess
IsWithheld(q) == MaRows[q.id].status \in MaWithheld

\* The rate limiter may refuse and may fail, and so may the signer.
GetDownloadUrl(q, asAdmin) ==
    MaRefused("rate limit") \cup MaRefused("error") \cup
    MaAuthorized(q, asAdmin,
        IF IsWithheld(q) THEN MaRefused(IF MaRows[q.id].status = "QUARANTINED" THEN "quarantined"
                                        ELSE "not available")
        ELSE UNION {MaGives([id |-> q.id, object |-> o]) : o \in MaObject(q)})

MaStatusAndUrl(q) ==
    IF q.op = "status" THEN GetUploadStatus(q) ELSE GetDownloadUrl(q, isUserAdmin(q))

\* usage is never negative in the answer, whatever the counters say.
RemainingBytes(used, quota) == IF quota - used < 0 THEN 0 ELSE quota - used
resolveQuota(q) == MaGives(RemainingBytes(q.limit, MaMaxSize))

\* gRPC: the requester of the metadata, else the one the request names; no administrators.
MaRequester(q) == [q EXCEPT !.user = IF @ = "" THEN q.claimed ELSE @]

\* GraphQL resolvers ask for a user first, the dead-letter ones for an administrator.
MaAnswers(q) ==
    CASE q.op = "media" /\ q.user /= "" -> resolveMedia(q)
      [] q.op = "list" /\ q.user /= "" -> resolveListMedia(q)
      [] q.op \in {"status", "url"} /\ q.user /= "" -> MaStatusAndUrl(q)
      [] q.op = "quota" /\ q.user /= "" -> resolveQuota(q)
      [] q.op = "ResolveMediaUrl" /\ MaRequester(q).user /= "" -> GetDownloadUrl(MaRequester(q), FALSE)
      [] q.op = "GetMedia" /\ MaRequester(q).user /= "" -> GetMediaExecute(MaRequester(q))
      [] OTHER -> MaRefused("unauthenticated")

\* The codes of the gRPC transport: four errors are mapped, the rest is internal.
toGRPCStatus(why) ==
    CASE why = "denied" -> "PermissionDenied"
      [] why = "not found" -> "NotFound"
      [] why = "quarantined" -> "FailedPrecondition"
      [] why = "rate limit" -> "ResourceExhausted"
      [] why = "unauthenticated" -> "Unauthenticated"
      [] OTHER -> "Internal"

MaRead(q) ==
    /\ maLeft = 0 /\ maAns = MaNone /\ maDead = <<>>
    /\ \E a \in MaAnswers(q) :
          maAns' = [op |-> "read", q |-> q, ans |-> a,
                    code |-> IF a.ok THEN "OK" ELSE toGRPCStatus(a.why)]
    /\ UNCHANGED <<maDead, maReplay, maLeft>>

-----------------------------------------------------------------------------
(* Dead letters *)

\* A consumer appends what it could not process.
routeToDLQ(m) ==
    /\ maAns.op \notin {"upload", "read"}
    /\ ~ \E i \in DOMAIN maDead : maDead[i] = m
    /\ maDead' = Append(maDead, m)
    /\ UNCHANGED <<maAns, maReplay, maLeft>>

\* All three dead-letter resolvers; compared without case.
MaIsAdmin(role) == role = "admin"

\* Each call reads with a new consumer group, so from the first message.
resolveDLQReplay(role, max) ==
    /\ ~maReplay.on /\ maLeft > 0 /\ MaIsAdmin(role)
    /\ maReplay' = [MaIdle EXCEPT !.on = TRUE, !.max = IF max <= 0 THEN 100 ELSE max]
    /\ maLeft' = maLeft - 1
    /\ UNCHANGED <<maAns, maDead>>

\* A message is published to its original topic and counted; one that is refused is
\* skipped and stays in the dead-letter topic.
ReplayDLQMessageCounted(ok) ==
    [maReplay EXCEPT !.next = @ + 1, !.replayed = @ + 1,
                     !.back = IF ok THEN Append(@, maDead[maReplay.next]) ELSE @]
ReplayDLQMessage(ok) ==
    IF ok THEN [maReplay EXCEPT !.next = @ + 1, !.replayed = @ + 1,
                                !.back = Append(@, maDead[maReplay.next])]
    ELSE [maReplay EXCEPT !.next = @ + 1]

ReplayAllDLQMessages ==
    /\ maReplay.on /\ maReplay.next <= maReplay.max /\ maReplay.next <= Len(maDead)
    /\ \E ok \in BOOLEAN : maReplay' = ReplayDLQMessage(ok)
    /\ UNCHANGED <<maAns, maDead, maLeft>>

\* The loop ends at max; a reader at the end of the topic waits until the request ends.
MaReplayed ==
    /\ maReplay.on
    /\ maReplay.next > maReplay.max \/ maReplay.next > Len(maDead)
    /\ maAns' = [op |-> "replay", replayed |-> maReplay.replayed, back |-> maReplay.back]
    /\ maReplay' = MaIdle
    /\ UNCHANGED <<maDead, maLeft>>

\* The offset of the first message of the topic, plus one: without a message it never answers.
GetDLQStats(role) ==
    /\ MaIsAdmin(role) /\ maDead /= <<>>
    /\ maAns' = [op |-> "stats", count |-> 1]
    /\ UNCHANGED <<maDead, maReplay, maLeft>>

MaNext ==
    \/ \E up \in MaUploads : MaUpload(up)
    \/ \E q \in MaReads : MaRead(q)
    \/ \E m \in MaLetters : routeToDLQ(m)
    \/ \E role \in {"admin", "user"} : \E max \in {0, 1} : resolveDLQReplay(role, max)
    \/ ReplayAllDLQMessages
    \/ MaReplayed
    \/ \E role \in {"admin", "user"} : GetDLQStats(role)

MaSpec == MaInit /\ [][MaNext]_maVars

-----------------------------------------------------------------------------
(* Properties *)

\* The answer and the replay in progress are well formed.
MaTypeOK ==
    /\ maAns.op \in {"none", "upload", "read", "replay", "stats"}
    /\ maDead \in Seq(MaLetters)
    /\ maReplay.replayed \in 0..Len(maDead) /\ maLeft \in 0..MaReplays

\* The parts of calculateParts cover the file, none of them is empty, there are no more than
\* S3 takes, and all but the last have the minimum size.
MaPartsCover ==
    maAns.op = "upload" /\ maAns.verdict /= "refused" =>
        LET p == maAns.parts IN
        /\ p.parts * p.size >= maAns.up.size /\ (p.parts - 1) * p.size < maAns.up.size
        /\ p.parts <= MaMaxParts
        /\ p.parts > 1 => p.size >= maAns.up.min

\* An object stored under a type spelled as the tables spell it, and whose signature is
\* known, carries that signature, has an extension of that type, and is classified by it:
\* no path through the size, type, extension, container and magic-byte checks skips one.
MaTypeIsTrue ==
    maAns.op = "upload" /\ maAns.verdict = "stored" /\ maAns.up.ct.spelling = "exact" =>
        /\ maAns.up.ct.type \in magicByteSignatures \cup ContainerTypes => maAns.up.bytes = maAns.up.ct.type
        /\ maAns.up.ct.type /= "octet" => maAns.up.ext \in allowedExtensions[maAns.up.ct.type]
        /\ maAns.up.ct.type \in MaImages <=> maAns.kind = "IMAGE"

\* What a read gives belongs to the requester, or the requester is an administrator of
\* the GraphQL transport; no URL is signed for a quarantined, failed, deleted or aborted
\* file; and a list that names no next page is complete.
MaPrivate ==
    maAns.op = "read" /\ maAns.ans.ok =>
        LET q == MaRequester(maAns.q)
            grpc == q.op \in {"ResolveMediaUrl", "GetMedia"}
            allowed(i) == MaRows[i].owner = q.user \/ (q.role = "admin" /\ ~grpc)
        IN
        /\ q.op \in {"media", "status", "url", "ResolveMediaUrl", "GetMedia"} => allowed(q.id)
        /\ q.op \in {"url", "ResolveMediaUrl"} => MaRows[q.id].status \notin MaWithheld
        /\ q.op = "list" =>
              LET got == maAns.ans.data IN
              /\ \A i \in got.items : allowed(i)
              /\ ~got.next => got.items = {MaOrder[k] : k \in MaOwned(IF q.id = "" THEN q.user ELSE q.id)}

\* A replay reports as many messages as it put back on the topic, each of them once and in
\* the order they failed in.
MaReplayCounts ==
    maAns.op = "replay" =>
        /\ maAns.replayed = Len(maAns.back)
        /\ \E from \in [DOMAIN maAns.back -> DOMAIN maDead] :
              \A i, j \in DOMAIN maAns.back : maAns.back[i] = maDead[from[i]] /\ (i < j => from[i] < from[j])

=============================================================================
