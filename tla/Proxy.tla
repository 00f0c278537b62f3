-------------------------------- MODULE Proxy --------------------------------
(***************************************************************************)
(* The /rpc proxy between the page and the RPC endpoints, in both of its   *)
(* deployments: netlify/edge-functions/rpc.ts with its lib/ ("edge") and   *)
(* server.mjs ("server").  A request is tried on one endpoint after the    *)
(* other; what one of them answers decides whether the next is asked.  The *)
(* handler shares nothing between requests, so one request is one function *)
(* of the answers its upstreams would give.                                *)
(*                                                                         *)
(* A request is [kind, old, subject]: "logs", a read "pinned" to a past    *)
(* block, or one at the "head"; old is whether it names what the public    *)
(* node has pruned.  Answers are classes of status and body:               *)
(*   ok        a result, or an error that is one, a revert                 *)
(*   width     refused as too wide, "exceeds limit", or timed out          *)
(*   size      refused as too wide, "response size exceeded"               *)
(*   gone      pruned, in the words of every pattern                       *)
(*   goneHash  pruned, "state <hash> is not available"                     *)
(*   goneHistory  pruned, "history unavailable", in the page's words only  *)
(*   limit     a rate limit in the body of a 200                           *)
(*   noRoute   a load balancer's dead backend, in the body of a 200:       *)
(*             -32000 "dial tcp ... no route to host" (rpc-logs.ts:62-76)  *)
(*   busy, broken   429; 500 and above                                     *)
(*   dead      no answer at all                                            *)
(*   failed    the proxy's own "all RPC upstreams failed"                  *)
(*   unset     the proxy's own "chain not configured"                      *)
(* A site is [edge, arc, has, list]: which deployment, which chain, what   *)
(* is configured beside (and, for Arc, as) the public node, and the        *)
(* allowlist.  "index" is Etherscan's log index.                           *)
(***************************************************************************)
EXTENDS Naturals, Sequences, SequencesExt, FiniteSets

Faults == {"limit", "noRoute", "busy", "broken", "dead"}

-----------------------------------------------------------------------------
(* The page's side: which requests name the wallet lane *)

isLaneRequest(req) == req.kind \in {"logs", "pinned"}

-----------------------------------------------------------------------------
(* The order of upstreams *)

\* The wallet endpoint first for its lane, then the public one, then the paid one.
orderUpstreams(has, onLane) ==
    (IF onLane /\ "wallet" \in has THEN <<"wallet">> ELSE <<>>) \o <<"public">> \o
    (IF "paid" \in has THEN <<"paid">> ELSE <<>>)

\* Only Arc has no public node by default.
resolveChainUpstreams(site, onLane) ==
    IF site.arc /\ "public" \notin site.has THEN <<>> ELSE orderUpstreams(site.has, onLane)

isAllowlistedSubject(subject, list) == subject \in list

\* Mutant of restrictUpstreams: only the order is changed for a stranger.
restrictUpstreamsLast(list, allowed) ==
    IF allowed THEN list ELSE SelectSeq(list, LAMBDA u : u = "public") \o
                              SelectSeq(list, LAMBDA u : u # "public")

\* A subject that is not allowlisted has the public endpoint only, as often as it is listed.
restrictUpstreams(list, allowed) ==
    IF allowed THEN list
    ELSE [i \in 1 .. Cardinality({j \in DOMAIN list : list[j] = "public"}) |-> "public"]

\* Arc's logs are looked for in the index first, whoever asks.
tryArcLogsViaEtherscan(site, req) ==
    IF site.arc /\ "index" \in site.has /\ req.kind = "logs" THEN <<"index">> ELSE <<>>

\* server.mjs knows no chain and no subject.
upstreams(site, req) ==
    LET list == resolveChainUpstreams(site, isLaneRequest(req)) IN
    IF ~site.edge \/ list = <<>> THEN list
    ELSE tryArcLogsViaEtherscan(site, req) \o
         restrictUpstreams(list, isAllowlistedSubject(req.subject, site.list))

-----------------------------------------------------------------------------
(* What makes an answer not one *)

\* The patterns of the server are an older copy: a hash is one word too many for them.  To
\* both of them, "response size exceeded" is a rate limit, and neither knows the words of a
\* dead backend or of an unavailable history: those two are answers.
spillReason(edge, answer) ==
    CASE answer \in {"limit", "size"} -> "rate-limit"
      [] answer = "gone" \/ (answer = "goneHash" /\ edge) -> "unserviceable"
      [] OTHER -> "none"

\* Mutant of Spills: an error in the body of a 200 is an answer.
SpillsOnStatus(edge, answer) == answer \in {"busy", "broken", "dead"}

Spills(edge, answer) ==
    answer \in {"busy", "broken", "dead"} \/ spillReason(edge, answer) # "none"

\* The i-th of n upstreams has the last word.
IsFinal(edge, n, i, answer) == i = n \/ ~Spills(edge, answer)

Out(answer) == IF answer = "dead" THEN "failed" ELSE answer

\* The first answer that is one, or the last upstream's whatever it is.
Relay(edge, answers) ==
    IF answers = <<>> THEN [asked |-> 0, out |-> "unset"] ELSE
    LET n == Len(answers)
        stop == CHOOSE i \in 1 .. n : /\ IsFinal(edge, n, i, answers[i])
                                      /\ \A j \in 1 .. i - 1 : ~IsFinal(edge, n, j, answers[j])
    IN  [asked |-> stop, out |-> Out(answers[stop])]

-----------------------------------------------------------------------------
(* What the page makes of a failed read *)

\* rpc-logs.ts has words of its own that say the blocks are gone...
isPruned(out) == out \in {"gone", "goneHistory"}

\* ...and read-failure.ts has the proxy's, that say the state is.
isPrunedStateFailure(out) == out \in {"gone", "goneHash"}

-----------------------------------------------------------------------------
(* What the endpoints may answer *)

\* The public node has pruned what is old, and no archive is sure to have it; each may
\* fail.  The index answers or is passed over.
AnswersOf(u, req, serve) ==
    CASE u = "index" -> {"ok", "dead"}
      [] u = "public" /\ req.old ->
             Faults \cup {"gone", "goneHistory"} \cup
             IF req.kind = "pinned" THEN {"goneHash"} ELSE {}
      [] OTHER -> Faults \cup serve

\* Each way a request may go: what its upstreams would answer, and what is relayed.
Exchanges(site, req, serve) ==
    LET list == upstreams(site, req)
        answers == {a \in [DOMAIN list -> UNION {AnswersOf(list[i], req, serve) : i \in DOMAIN list}] :
                      \A i \in DOMAIN list : a[i] \in AnswersOf(list[i], req, serve)}
    IN  {[list |-> list, answers |-> a, relay |-> Relay(site.edge, a)] : a \in answers}

\* What it may come back as.  Any endpoint may fail, so any may have the last word.
Outcomes(site, req, serve) ==
    LET list == upstreams(site, req) IN
    IF list = <<>> THEN {"unset"}
    ELSE UNION {{Out(a) : a \in {b \in AnswersOf(list[i], req, serve) :
                                   IsFinal(site.edge, Len(list), i, b)}} : i \in DOMAIN list}

=============================================================================
