------------------------------ MODULE WebCache ------------------------------
(***************************************************************************)
(* web.fetch and its cache under ~/.otoclaw/cache (packages/tools/src/     *)
(* web.ts): every answer, of whatever status, is written to a file named   *)
(* after the URL, and every later call for the URL is answered from it.    *)
(* Calls of several sub-agents overlap, and the daemon may die while a     *)
(* file is written; what two of them write to one file lands one after the *)
(* other.                                                                  *)
(***************************************************************************)
EXTENDS Naturals

CONSTANTS Fetch,     \* the calls of web.fetch
          Url,       \* the URLs that are asked for
          Http,      \* those whose scheme is http or https
          Body,      \* what a server may answer
          NoRecord,  \* no cache file
          CutRecord  \* a cache file that is being written, or was cut short

ASSUME WebCacheAssumption == Http \subseteq Url /\ NoRecord # CutRecord

VARIABLES cache,   \* the cache file of each URL
          fetch,   \* where each call is
          url,     \* the URL of each call
          got,     \* the record a call has received
          answer,  \* [ok, record, fromCache] of the calls that have ended
          served   \* the records the servers have sent, by URL

webVars == <<cache, fetch, url, got, answer, served>>

Record == [status : {"200", "500"}, body : Body]
NoAnswer == [ok |-> FALSE, record |-> NoRecord, fromCache |-> FALSE]

WebInit ==
  /\ cache = [u \in Url |-> NoRecord] /\ fetch = [f \in Fetch |-> "idle"]
  /\ url \in [Fetch -> Url] /\ got = [f \in Fetch |-> NoRecord]
  /\ answer = [f \in Fetch |-> NoAnswer] /\ served = {}

Step(f, s) == fetch' = [fetch EXCEPT ![f] = s]

\* Another scheme than http and https is refused.
BeginFetch(f) ==
  /\ fetch[f] = "idle" /\ Step(f, IF url[f] \in Http THEN "looking" ELSE "ended")
  /\ answer' = [answer EXCEPT ![f] = NoAnswer]
  /\ UNCHANGED <<cache, url, got, served>>

\* A mutant: a file that cannot be parsed is an answer too.
LookUp_AnyFile(f) ==
  /\ fetch[f] = "looking"
  /\ IF cache[url[f]] = NoRecord
     THEN Step(f, "fetching") /\ UNCHANGED answer
     ELSE /\ Step(f, "ended")
          /\ answer' = [answer EXCEPT ![f] = [ok |-> TRUE, record |-> cache[url[f]], fromCache |-> TRUE]]
  /\ UNCHANGED <<cache, url, got, served>>

\* A file that can be parsed is the answer, and the answer is ok.
LookUp(f) ==
  /\ fetch[f] = "looking"
  /\ IF cache[url[f]] \in {NoRecord, CutRecord}
     THEN Step(f, "fetching") /\ UNCHANGED answer
     ELSE /\ Step(f, "ended")
          /\ answer' = [answer EXCEPT ![f] = [ok |-> TRUE, record |-> cache[url[f]], fromCache |-> TRUE]]
  /\ UNCHANGED <<cache, url, got, served>>

ServerAnswers(f) ==
  /\ fetch[f] = "fetching" /\ Step(f, "saving")
  /\ \E r \in Record : /\ got' = [got EXCEPT ![f] = r]
                       /\ served' = served \cup {[url |-> url[f], record |-> r]}
  /\ UNCHANGED <<cache, url, answer>>

\* writeFile() cuts the file to nothing ...
OpenCache(f) ==
  /\ fetch[f] = "saving" /\ Step(f, "filling")
  /\ cache' = [cache EXCEPT ![url[f]] = CutRecord]
  /\ UNCHANGED <<url, got, answer, served>>

\* ... and fills it; the answer is ok if the response was.
FillCache(f) ==
  /\ fetch[f] = "filling" /\ Step(f, "ended")
  /\ cache' = [cache EXCEPT ![url[f]] = got[f]]
  /\ answer' = [answer EXCEPT ![f] = [ok |-> got[f].status = "200", record |-> got[f], fromCache |-> FALSE]]
  /\ UNCHANGED <<url, got, served>>

\* The network, mkdir or writeFile throws: an error, and the file stays as it is.
FetchThrows(f) ==
  /\ fetch[f] \in {"fetching", "saving", "filling"} /\ Step(f, "ended")
  /\ answer' = [answer EXCEPT ![f] = NoAnswer]
  /\ UNCHANGED <<cache, url, got, served>>

\* The next call, for whatever URL; a crash is the end of all of them.
NextFetch(f) ==
  /\ fetch[f] = "ended" /\ Step(f, "idle")
  /\ \E u \in Url : url' = [url EXCEPT ![f] = u]
  /\ got' = [got EXCEPT ![f] = NoRecord] /\ answer' = [answer EXCEPT ![f] = NoAnswer]
  /\ UNCHANGED <<cache, served>>

FetchersDie ==
  /\ fetch' = [f \in Fetch |-> "idle"] /\ got' = [f \in Fetch |-> NoRecord]
  /\ answer' = [f \in Fetch |-> NoAnswer]
  /\ UNCHANGED <<cache, url, served>>

WebNext ==
  \/ FetchersDie
  \/ \E f \in Fetch : \/ BeginFetch(f) \/ LookUp(f) \/ ServerAnswers(f) \/ OpenCache(f)
                      \/ FillCache(f) \/ FetchThrows(f) \/ NextFetch(f)

WebSpec == WebInit /\ [][WebNext]_webVars

-----------------------------------------------------------------------------
WebTypeOK ==
  /\ cache \in [Url -> Record \cup {NoRecord, CutRecord}] /\ url \in [Fetch -> Url]
  /\ fetch \in [Fetch -> {"idle", "looking", "fetching", "saving", "filling", "ended"}]
  /\ got \in [Fetch -> Record \cup {NoRecord}]
  /\ answer \in [Fetch -> [ok : BOOLEAN, record : Record \cup {NoRecord}, fromCache : BOOLEAN]]
  /\ served \subseteq [url : Url, record : Record]

\* An answer that is ok, from the network or from the cache, is one that the
\* server of that very URL has sent, whole, whoever fetched it first and however
\* the writes of overlapping calls and crashes fell.
AnswersAreTheServers ==
  \A f \in Fetch : fetch[f] = "ended" /\ answer[f].ok =>
    [url |-> url[f], record |-> answer[f].record] \in served
=============================================================================
