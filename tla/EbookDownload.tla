---------------------------- MODULE EbookDownload -----------------------------
(***************************************************************************)
(* EbookDownload: one companion EPUB on its way from narratorr through the  *)
(* download proxy (routes/ebooks.ts over narratorr-stream-client.ts) into a *)
(* browser tab (components/EbookSheet.tsx, ebook-sheet.ts).                 *)
(*                                                                          *)
(* A body is a number of chunks.  The proxy reads the first one before it   *)
(* sends any header and then passes chunk after chunk; the tab buffers them *)
(* up to a limit and past it leaves the transfer to the browser, which is   *)
(* one more request.  Either side, and the network, may give up at any time. *)
(***************************************************************************)
EXTENDS Integers

CONSTANTS Req,       \* requests to the proxy
          Click,     \* runs of the sheet's onDownload
          None,
          MaxBody,   \* bound: chunks of a body
          Limit,     \* chunks the tab is willing to buffer
          MaxFaults  \* bound: connections lost

ASSUME EbookAssumption == MaxBody \in Nat /\ Limit \in Nat /\ MaxFaults \in Nat /\ None \notin Click \cup Req

VARIABLES req,    \* req[r]: the handler of request r and what it put on the wire
          click,  \* click[c]: the run of onDownload c
          busy,   \* the run that locks the mounted sheet's Download button
          faults

vars == <<req, click, busy, faults>>

\* by is the run that reads the answer, None for a transfer left to the browser.
IdleReq == [at |-> "idle", by |-> None, gone |-> FALSE,
            upstream |-> "none",            \* the connection to narratorr
            body |-> 0, declared |-> None,  \* its chunks, and its content-length if it has one
            read |-> 0,                     \* chunks the proxy took
            head |-> "none", sent |-> 0, tail |-> "none"]  \* what the client was sent
IdleClick == [at |-> "idle", req |-> None, got |-> 0]

Init == /\ req = [r \in Req |-> IdleReq]
        /\ click = [c \in Click |-> IdleClick]
        /\ busy = None /\ faults = 0

-------------------------------------------------------------------------------
(* The proxy                                                                 *)

\* The route's catch, and its answer to a caller who left: nothing is written to a
\* connection that is gone.
Refuse(r, upstream) ==
  LET head == IF req[r].head = "none" /\ ~req[r].gone THEN "error" ELSE req[r].head
  IN req' = [req EXCEPT ![r] = [@ EXCEPT !.at = "done", !.upstream = upstream, !.head = head]]

\* requireActiveUser, resolveFeatures and the id: refused, or on to narratorr unless
\* the caller has left.
Guard(r) ==
  /\ req[r].at = "arrived"
  /\ \/ Refuse(r, "none")
     \/ ~req[r].gone /\ req' = [req EXCEPT ![r].at = "opening", ![r].upstream = "opening"]
  /\ UNCHANGED <<click, busy, faults>>

\* No connection, a transport failure, the header deadline, or the caller's abort.
OpenFails(r) ==
  /\ req[r].at = "opening"
  /\ Refuse(r, "none")
  /\ UNCHANGED <<click, busy, faults>>

\* A status that is not 2xx: its body is read for the reason, within bounds.
OpenRefused(r) ==
  /\ req[r].at = "opening"
  /\ req' = [req EXCEPT ![r].at = "refused", ![r].upstream = "open"]
  /\ UNCHANGED <<click, busy, faults>>

\* The error body ends, fails, is long enough or takes too long: its reader is cancelled.
ReasonRead(r) ==
  /\ req[r].at = "refused"
  /\ Refuse(r, "released")
  /\ UNCHANGED <<click, busy, faults>>

Opened(r) ==
  /\ req[r].at = "opening"
  /\ \E n \in 0..MaxBody : \E d \in {n, None} :
       req' = [req EXCEPT ![r].at = "peek", ![r].upstream = "open", ![r].body = n, ![r].declared = d]
  /\ UNCHANGED <<click, busy, faults>>

\* The second look for a caller who left: the reader is cancelled.
PeekAbandoned(r) == req' = [req EXCEPT ![r].at = "done", ![r].upstream = "released"]

\* The first chunk, or the end of an empty body, is there: the headers go out.
Peeked(r) ==
  /\ req[r].at = "peek"
  /\ IF req[r].gone THEN PeekAbandoned(r)
     ELSE req' = [req EXCEPT ![r].at = "streaming", ![r].head = "ok",
                             ![r].read = IF req[r].body = 0 THEN 0 ELSE 1]
  /\ UNCHANGED <<click, busy, faults>>

\* The first read rejects, because narratorr failed or because of the caller's abort.
PeekFails(r) ==
  /\ req[r].at = "peek"
  /\ Refuse(r, "released")
  /\ UNCHANGED <<click, busy, faults>>

\* One pull: the chunk already read, or one read of narratorr; then the end.
Pull(r) ==
  LET q == req[r]
  IN /\ q.at = "streaming" /\ ~q.gone
     /\ req' = [req EXCEPT ![r] =
          IF q.sent < q.read THEN [q EXCEPT !.sent = @ + 1]
          ELSE IF q.read < q.body THEN [q EXCEPT !.read = @ + 1, !.sent = @ + 1]
          ELSE [q EXCEPT !.at = "done", !.upstream = "ended", !.tail = "end"]]
     /\ UNCHANGED <<click, busy, faults>>

\* Mutant: a failed read closes the stream instead of breaking it off.
CloseBody(r) == req' = [req EXCEPT ![r].at = "done", ![r].upstream = "released", ![r].tail = "end"]
BreakBody(r) == req' = [req EXCEPT ![r].at = "done", ![r].upstream = "released", ![r].tail = "cut"]

\* narratorr dies while the body is on its way.
BodyFails(r) ==
  /\ req[r].at = "streaming" /\ ~req[r].gone /\ req[r].sent = req[r].read
  /\ BreakBody(r)
  /\ UNCHANGED <<click, busy, faults>>

\* Mutant: nobody listens for the close of the connection.
Deaf(r) == FALSE
HearsClose(r) == req[r].gone

\* The close event aborts the one signal that the open call and its body share; what
\* waits on them rejects, even if narratorr never says anything again.
AbortLands(r) ==
  /\ HearsClose(r)
  /\ \/ req[r].at = "opening" /\ Refuse(r, "none")
     \/ req[r].at = "peek" /\ Refuse(r, "released")
     \/ req[r].at = "streaming" /\ BreakBody(r)
  /\ UNCHANGED <<click, busy, faults>>

-------------------------------------------------------------------------------
(* The sheet                                                                 *)

Arrived(by) == [IdleReq EXCEPT !.at = "arrived", !.by = by]

\* The run is over and unlocks the button, if its sheet is still the mounted one.
Finish(c, at) == /\ click' = [click EXCEPT ![c].at = at]
                 /\ busy' = IF busy = c THEN None ELSE busy

\* navigate: the tab hangs up on its own request and the browser makes another
\* (bound: unless every request slot is taken).
LeaveToBrowser(c, hungUp) ==
  LET free == {r \in Req : req[r].at = "idle"}
  IN /\ \E r \in IF free = {} THEN {None} ELSE free :
          req' = [q \in Req |-> IF q = r THEN Arrived(None)
                                ELSE IF q = hungUp THEN [req[q] EXCEPT !.gone = TRUE] ELSE req[q]]
     /\ Finish(c, "navigated")

\* A companion already known to be over the limit is not fetched at all.
ClickDownload(c) ==
  /\ click[c].at = "idle" /\ busy = None
  /\ \/ LeaveToBrowser(c, None)
     \/ \E r \in Req : /\ req[r].at = "idle"
                       /\ req' = [req EXCEPT ![r] = Arrived(c)]
                       /\ click' = [click EXCEPT ![c] = [at |-> "fetching", req |-> r, got |-> 0]]
                       /\ busy' = c
  /\ UNCHANGED faults

\* The sheet closes and opens again: a new one is mounted, the run goes on.
Reopen == /\ busy # None /\ busy' = None
          /\ UNCHANGED <<req, click, faults>>

Answer(c) == req[click[c].req]

\* The headers are there: an error, a length over the limit, or a body to read.
HeadArrives(c) ==
  /\ click[c].at = "fetching" /\ Answer(c).head # "none"
  /\ IF Answer(c).head = "error" THEN Finish(c, "toasted") /\ UNCHANGED req
     ELSE IF Answer(c).declared # None /\ Answer(c).declared > Limit
     THEN LeaveToBrowser(c, click[c].req)
     ELSE click' = [click EXCEPT ![c].at = "reading"] /\ UNCHANGED <<req, busy>>
  /\ UNCHANGED faults

OverBound(c) == click[c].got + 1 > Limit

\* readBoundedBlob: one chunk more, unless it is one too many.
ChunkArrives(c) ==
  /\ click[c].at = "reading" /\ click[c].got < Answer(c).sent
  /\ IF OverBound(c) THEN LeaveToBrowser(c, click[c].req)
     ELSE click' = [click EXCEPT ![c].got = @ + 1] /\ UNCHANGED <<req, busy>>
  /\ UNCHANGED faults

\* The body is complete: it is saved, or the browser refuses to.
BodyEnds(c) ==
  /\ click[c].at = "reading" /\ click[c].got = Answer(c).sent /\ Answer(c).tail = "end"
  /\ \E at \in {"saved", "toasted"} : Finish(c, at)
  /\ UNCHANGED <<req, faults>>

\* The body breaks off; chunks on the way may be lost with it.
BodyBreaks(c) ==
  /\ click[c].at = "reading" /\ Answer(c).tail = "cut"
  /\ Finish(c, "toasted")
  /\ UNCHANGED <<req, faults>>

\* The connection is lost: fetch or the read rejects, and the proxy hears a close.
ConnectionLost(c) ==
  /\ click[c].at \in {"fetching", "reading"} /\ faults < MaxFaults
  /\ faults' = faults + 1
  /\ req' = [req EXCEPT ![click[c].req].gone = TRUE]
  /\ Finish(c, "toasted")

\* The user stops a transfer the browser owns.
BrowserStops(r) ==
  /\ req[r].at # "idle" /\ req[r].by = None /\ ~req[r].gone /\ req[r].tail = "none"
  /\ req[r].head # "error" /\ faults < MaxFaults
  /\ faults' = faults + 1
  /\ req' = [req EXCEPT ![r].gone = TRUE]
  /\ UNCHANGED <<click, busy>>

-------------------------------------------------------------------------------
\* A settled run, and a request nobody uses any more, make room for others.
Over(at) == at \in {"saved", "toasted", "navigated"}
Forget == \/ \E c \in Click : /\ Over(click[c].at)
                              /\ click' = [click EXCEPT ![c] = IdleClick]
                              /\ UNCHANGED req
          \/ \E r \in Req : /\ req[r].at = "done"
                            /\ \A c \in Click : click[c].req # r
                            /\ req' = [req EXCEPT ![r] = IdleReq]
                            /\ UNCHANGED click

Narratorr(r) == OpenFails(r) \/ OpenRefused(r) \/ Opened(r) \/ Peeked(r) \/ PeekFails(r)
                \/ Pull(r) \/ BodyFails(r)
Own(r) == Guard(r) \/ ReasonRead(r) \/ AbortLands(r)

Next == \/ \E r \in Req : Narratorr(r) \/ Own(r) \/ BrowserStops(r)
        \/ \E c \in Click : \/ ClickDownload(c) \/ HeadArrives(c) \/ ChunkArrives(c)
                            \/ BodyEnds(c) \/ BodyBreaks(c) \/ ConnectionLost(c)
        \/ Reopen
        \/ Forget /\ UNCHANGED <<busy, faults>>

Spec == Init /\ [][Next]_vars

\* The proxy's own steps happen; nothing is assumed of narratorr or of the tab.
FairSpec == Spec /\ \A r \in Req : WF_vars(Own(r))

-------------------------------------------------------------------------------
\* Every variable has its type; a tab never holds more than it is willing to buffer.
TypeOK ==
  /\ req \in [Req -> [at : {"idle", "arrived", "opening", "refused", "peek", "streaming", "done"},
                      by : Click \cup {None}, gone : BOOLEAN,
                      upstream : {"none", "opening", "open", "ended", "released"},
                      body : 0..MaxBody, declared : 0..MaxBody \cup {None}, read : 0..MaxBody,
                      head : {"none", "error", "ok"}, sent : 0..MaxBody,
                      tail : {"none", "end", "cut"}]]
  /\ click \in [Click -> [at : {"idle", "fetching", "reading", "saved", "toasted", "navigated"},
                          req : Req \cup {None}, got : 0..Limit]]
  /\ busy \in Click \cup {None} /\ faults \in 0..MaxFaults

\* What is saved is the whole book: a body that narratorr, the proxy or the network
\* broke off never ends as a file; nor does a request end with narratorr still connected.
SavedIsWhole ==
  /\ \A c \in Click : click[c].at = "saved" => click[c].got = Answer(c).body
  /\ \A r \in Req : req[r].at = "done" => req[r].upstream \in {"none", "ended", "released"}

\* A caller who leaves, at any point, frees the connection to narratorr, even if
\* narratorr never sends another byte.
LeaverFreesStream ==
  \A r \in Req : req[r].gone /\ req[r].upstream \in {"opening", "open"}
                   ~> req[r].upstream \notin {"opening", "open"}
===============================================================================
