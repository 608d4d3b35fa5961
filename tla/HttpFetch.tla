----------------------------- MODULE HttpFetch -----------------------------
(***************************************************************************)
(* One GET with its redirects (birc_mf_fetch, src/ffi/media_fetch_ffi.c):  *)
(* each hop resolves, connects to the addresses in turn, upgrades to TLS,  *)
(* sends the request, reads the header and either follows a Location or    *)
(* reads the body.  Every wait is a poll against one deadline for all      *)
(* hops.  The servers are free to answer anything, slowly or never.        *)
(***************************************************************************)
EXTENDS Naturals, Sequences

CONSTANTS
    Redirects,   \* BIRC_MF_REDIRECTS
    MaxBody,     \* maxb, in units of body
    Deadline,    \* BIRC_MF_DEADLINE_MS, in waits
    MaxAddrs     \* bound: addresses of a host

FetchAssumption ==
    {Redirects, MaxBody, Deadline, MaxAddrs} \subseteq Nat

VARIABLES
    hop,     \* where the fetch stands and what it holds
    trail    \* schemes and addresses of the hops so far, for the properties

fetchVars == <<hop, trail>>

Schemes == {"https", "http"}
\* What an address leads to; "other" is neither IPv4 nor IPv6.
Addresses == {"public", "dead", "private", "other"}
NoLength == MaxBody + 2   \* the header announces no Content-Length

\* fd, ssl, ctx and data: what hop_fail releases.
Nothing == {}

\* https_only is set for cards.
Start ==
    /\ hop.at = "idle"
    /\ \E cards \in BOOLEAN, scheme \in Schemes :
         /\ cards => scheme = "https"
         /\ hop' = [at |-> "resolve", cards |-> cards, scheme |-> scheme, n |-> 0,
                    left |-> Deadline, held |-> Nothing, addrs |-> <<>>,
                    got |-> 0, want |-> NoLength, eof |-> FALSE]
         /\ trail' = << >>

Init ==
    /\ hop = [at |-> "idle"]
    /\ trail = << >>

-----------------------------------------------------------------------------

\* hop_fail
Released(held) == Nothing

Failed == [hop EXCEPT !.at = "failed", !.held = Released(@), !.eof = FALSE]

\* Faulty: a wait that would be the last starts the timeout again.
WaitedAfresh == [hop EXCEPT !.left = IF @ = 1 THEN Deadline ELSE @ - 1]

\* Every poll spends time; at the deadline it fails.
Expired == hop.left = 0
Waited == [hop EXCEPT !.left = @ - 1]

\* A TLS step or a read that has to be tried again after a poll.
WantAgain ==
    /\ hop.at \in {"tls", "request", "header", "body"} /\ ~Expired
    /\ hop' = Waited
    /\ UNCHANGED trail

\* getaddrinfo answers with a list of addresses, or fails.
Resolve ==
    /\ hop.at = "resolve"
    /\ \/ hop' = Failed
       \/ /\ ~Expired
          /\ \E n \in 1 .. MaxAddrs : \E addrs \in [1 .. n -> Addresses] :
               hop' = [hop EXCEPT !.at = "connect", !.addrs = addrs]
    /\ UNCHANGED trail

\* A private address ends the hop, whatever comes after it in the list.
Refused(addr) == addr = "private"

\* birc_mf_connect: one address.
Connect ==
    /\ hop.at = "connect"
    /\ IF hop.addrs = <<>> \/ (hop.addrs # <<>> /\ Refused(Head(hop.addrs)))
       THEN hop' = Failed /\ UNCHANGED trail
       ELSE LET addr == Head(hop.addrs)
                next == [hop EXCEPT !.addrs = Tail(@)]
            IN  IF addr = "other" \/ Expired
                THEN hop' = next /\ UNCHANGED trail
                ELSE \/ hop' = [next EXCEPT !.left = @ - 1] /\ UNCHANGED trail
                     \/ /\ addr # "dead"
                        /\ hop' = [next EXCEPT !.at = IF hop.scheme = "https"
                                                      THEN "tls" ELSE "request",
                                               !.held = @ \cup {"fd"}, !.left = @ - 1]
                        /\ trail' = Append(trail, [scheme |-> hop.scheme, addr |-> addr])

\* SSL_CTX, SSL and the handshake with a verified certificate.
Upgrade ==
    /\ hop.at = "tls"
    /\ \/ hop' = Failed
       \/ hop' = [Failed EXCEPT !.held = Released(hop.held \cup {"ctx"})]
       \/ hop' = [Failed EXCEPT !.held = Released(hop.held \cup {"ctx", "ssl"})]
       \/ /\ ~Expired
          /\ hop' = [Waited EXCEPT !.at = "request", !.held = @ \cup {"ctx", "ssl"}]
    /\ UNCHANGED trail

\* birc_mf_write: the request is sent to the last byte or the hop fails.
Request ==
    /\ hop.at = "request"
    /\ \/ hop' = Failed
       \/ ~Expired /\ hop' = [Waited EXCEPT !.at = "header"]
    /\ UNCHANGED trail

\* Faulty: any scheme may follow.
MayFollowAny(h, to) == TRUE

\* A card stays on https; an image may go up to https and never down again.
MayFollow(h, to) ==
    to = "https" \/ (~h.cards /\ h.scheme = "http")

\* The descriptors of a hop are closed before the next one.
ClosedHop(h) == Nothing

\* A redirect status with a Location that parses.
Redirect ==
    /\ hop.at = "header" /\ ~Expired
    /\ \E to \in Schemes :
         hop' = IF hop.n = Redirects \/ ~MayFollow(hop, to) THEN Failed
                ELSE [Waited EXCEPT !.at = "resolve", !.scheme = to, !.n = @ + 1,
                                    !.held = ClosedHop(hop), !.addrs = <<>>]
    /\ UNCHANGED trail

\* 200: the bytes after the header are the first of the body; a length over the
\* limit is refused at once.
Answer ==
    /\ hop.at = "header" /\ ~Expired
    /\ \E first \in 0 .. MaxBody + 1, want \in 0 .. NoLength :
         hop' = IF want = MaxBody + 1 THEN Failed
                ELSE [Waited EXCEPT !.at = "body", !.held = @ \cup {"data"},
                                    !.got = first, !.want = want]
    /\ UNCHANGED trail

\* Any other status, encoding, type or length, no header end, or no answer.
HeaderFail ==
    /\ hop.at = "header"
    /\ hop' = Failed
    /\ UNCHANGED trail

\* The body is read until the server closes or it is one unit too long.
ReadBody ==
    /\ hop.at = "body" /\ hop.got <= MaxBody /\ ~hop.eof
    /\ \/ hop' = Failed
       \/ ~Expired /\ \E n \in 1 .. MaxBody + 1 - hop.got :
            hop' = [Waited EXCEPT !.got = @ + n]
       \/ ~Expired /\ hop' = [Waited EXCEPT !.eof = TRUE]
    /\ UNCHANGED trail

\* Within the limit and of the announced length, if one was announced.
Complete(h) == h.got <= MaxBody /\ (h.want # NoLength => h.got = h.want)

BodyEnd ==
    /\ hop.at = "body" /\ (hop.eof \/ hop.got > MaxBody)
    /\ hop' = IF Complete(hop)
              THEN [hop EXCEPT !.at = "ok", !.held = {"data"}]
              ELSE Failed
    /\ UNCHANGED trail

Next ==
    \/ Start \/ Resolve \/ Connect \/ Upgrade \/ Request
    \/ WantAgain \/ Redirect \/ Answer \/ HeaderFail \/ ReadBody \/ BodyEnd

FetchSpec == Init /\ [][Next]_fetchVars /\ WF_fetchVars(Next)

-----------------------------------------------------------------------------

\* Once on https no later hop is in the clear, a card is never in the clear, no
\* hop is to a private address, and there are at most Redirects of them after
\* the first.
HopsAllowed ==
    /\ Len(trail) <= Redirects + 1
    /\ \A i \in DOMAIN trail : trail[i].addr = "public"
    /\ \A i, j \in DOMAIN trail :
         i < j /\ trail[i].scheme = "https" => trail[j].scheme = "https"
    /\ hop.at # "idle" /\ hop.cards => \A i \in DOMAIN trail : trail[i].scheme = "https"

\* The one deadline of all hops ends every fetch, whatever the servers do.
FetchEnds == (hop.at = "resolve") ~> (hop.at \in {"ok", "failed"})
=============================================================================
