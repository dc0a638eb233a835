----------------------------- MODULE Forwarding -----------------------------
(***************************************************************************)
(* What Proxy.ServeHTTP makes of a request and of its answer: an RPC       *)
(* message, when the headers ask for one, or a plain request whose URL the *)
(* Director rewrites by a rule or points at the target of nextTarget, and  *)
(* whose answer ModifyResponse looks into. AddRule and RemoveRule change   *)
(* the rules meanwhile, under an RWMutex. Once the Director has matched,   *)
(* requests share nothing here: one at a time shows all there is.          *)
(*                                                                         *)
(* A path is a sequence of segments, a query a sequence of parameters. The *)
(* ReverseProxy of net/http/httputil is external.                          *)
(***************************************************************************)
EXTENDS Naturals, Sequences

CONSTANTS
  Asks,       \* requests: [rpc, path, host, query, body]
  Rules,      \* rules: [matches: a set of paths, to: a URL or Unparsable]
  Backends,   \* the URLs nextTarget may return
  MaxRules    \* bound: the length of the list of rules

NoHost == ""
Url(host, path, query) == [host |-> host, path |-> path, query |-> query]
Unparsable == Url("unparsable", <<>>, <<>>)   \* url.Parse returns an error
NoTarget == Url("error", <<>>, <<>>)          \* nextTarget returns an error
Unsent == Url("unsent", <<>>, <<>>)           \* nothing went to a backend
NilRule == [matches |-> {}, to |-> Url("nil", <<>>, <<>>)]

ASSUME RulesAssumption == NilRule \notin Rules /\ MaxRules \in Nat

VARIABLES
  config,   \* ProxyConfig: "rewrite", "balance" or "neither"
  rules,    \* r.rules, which the option WithRules fills
  wanted,   \* wanted[rule]: how often it was added and not removed since
  asked,    \* the request ServeHTTP was called with last
  sent,     \* the URL it went to, or the RPC message
  got       \* what became of it: nothing so far, ..., the answer "whole"

forwardingVars == <<config, rules, wanted, asked, sent, got>>

ForwardingTypeOK ==
  /\ config \in {"rewrite", "balance", "neither"}
  /\ rules \in Seq(Rules \cup {NilRule}) /\ Len(rules) <= MaxRules
  /\ wanted \in [Rules -> 0..MaxRules]
  /\ got \in {"nothing", "relayed", "waiting", "aborted", "panic", "502",
              "empty", "whole"}

ForwardingInit ==
  /\ config \in {"rewrite", "balance", "neither"}
  /\ rules = <<>> /\ wanted = [rule \in Rules |-> 0]
  /\ asked = [rpc |-> "unasked"] /\ sent = Unsent /\ got = "nothing"

requestVars == <<asked, sent, got>>

-----------------------------------------------------------------------------
(* The rules.                                                              *)

AddRule(rule) ==
  /\ Len(rules) < MaxRules
  /\ rules' = Append(rules, rule)
  /\ wanted' = [wanted EXCEPT ![rule] = @ + 1]
  /\ UNCHANGED <<config, requestVars>>

\* WithRules, on a pattern that does not compile: the error is logged, and
\* the nil added all the same.
AddNil ==
  /\ Len(rules) < MaxRules
  /\ rules' = Append(rules, NilRule)
  /\ UNCHANGED <<config, wanted, requestVars>>

First(positions) == CHOOSE i \in positions : \A j \in positions : i <= j

\* Where the search for an equal rule ends, which panics at a nil.
Stops(rule) == {i \in DOMAIN rules : rules[i] \in {rule, NilRule}}

\* A variant that cuts the list off one place too far.
RemoveRuleShort(rule) ==
  LET i == First(Stops(rule))
  IN  /\ Stops(rule) # {} /\ rules[i] = rule
      /\ rules' = SubSeq(rules, 1, i - 1) \o SubSeq(rules, i + 2, Len(rules))
      /\ wanted' = [wanted EXCEPT ![rule] = @ - 1]
      /\ UNCHANGED <<config, requestVars>>

\* The first equal rule goes. The comparison panics, and changes nothing,
\* at a nil before it.
RemoveRule(rule) ==
  LET i == First(Stops(rule))
  IN  /\ Stops(rule) # {} /\ rules[i] = rule
      /\ rules' = SubSeq(rules, 1, i - 1) \o SubSeq(rules, i + 1, Len(rules))
      /\ wanted' = [wanted EXCEPT ![rule] = @ - 1]
      /\ UNCHANGED <<config, requestVars>>

\* Match: the first rule whose expression the path contains. Without one the
\* Director dereferences a nil URL, as Match does a nil rule on its way:
\* NilRule stands for both. Every rule is enabled: the repository has no line
\* that disables one, so the test of Enable is left out.
Match(path) ==
  LET stops == {i \in DOMAIN rules : rules[i] = NilRule \/ path \in rules[i].matches}
  IN  IF stops = {} THEN NilRule ELSE rules[First(stops)]

-----------------------------------------------------------------------------
(* One request.                                                            *)

\* IsMatchTransformRule: without X-RPC-SerializeType, or with another value
\* than the two it knows, the request is proxied as it is.
Plain(q) == q.rpc = "no"

Asked(q) == got # "waiting" /\ asked' = q /\ UNCHANGED <<config, rules, wanted>>

\* The reverse proxy sends what the Director leaves it: an error when the
\* URL names no host.
Sent(url) ==
  /\ sent' = IF url.host = NoHost THEN Unsent ELSE url
  /\ got' = IF url.host = NoHost THEN "502" ELSE "waiting"

\* The Director: the query of the target comes before that of the request.
\* On an error it leaves the request as the client sent it, with the host
\* of an absolute URI.
Unchanged(q) == Url(q.host, q.path, q.query)
Rewritten(q, u) == Url(u.host, u.path, u.query \o q.query)
Joined(q, u) == Url(u.host, u.path \o q.path, u.query \o q.query)

DirectByRule(q) ==
  LET rule == Match(q.path)
  IN  /\ Asked(q) /\ Plain(q) /\ config = "rewrite"
      /\ \/ rule = NilRule /\ got' = "panic" /\ sent' = Unsent
         \/ rule # NilRule /\ rule.to = Unparsable /\ Sent(Unchanged(q))
         \/ rule # NilRule /\ rule.to # Unparsable /\ Sent(Rewritten(q, rule.to))

DirectToTarget(q, target) ==
  /\ Asked(q) /\ Plain(q) /\ config = "balance"
  /\ Sent(IF target = NoTarget THEN Unchanged(q) ELSE Joined(q, target))

\* The URL of the request is its own target, and its query doubled.
DirectNowhere(q) ==
  /\ Asked(q) /\ Plain(q) /\ config = "neither"
  /\ Sent(Url(q.host, q.path, q.query \o q.query))

\* The metadata is always empty: "X-RPC-Metadata-" is no prefix of the
\* canonical "X-Rpc-Metadata-" in which the server reads a header.
Metadata(q) == {}

\* TransformToRPC: without a path or a method, or without a target, the
\* request is aborted. RpcRelay is about what follows.
Transform(q, target) ==
  /\ Asked(q) /\ ~Plain(q)
  /\ \/ /\ q.rpc = "complete" /\ target # NoTarget
        /\ sent' = [host |-> target.host, metadata |-> Metadata(q),
                    data |-> IF q.body = "" THEN "{}" ELSE q.body]
        /\ got' = "relayed"
     \/ /\ q.rpc = "incomplete" \/ target = NoTarget
        /\ sent' = Unsent
        /\ got' = "aborted"

\* The backend's answer, and ModifyResponse: every answer is handed on as it
\* came but a failure in JSON of a known length. Of that it restores the body
\* when it could decode it as a ResponseModel, and hands on an empty one
\* otherwise. A body that breaks off while it reads is a 502.
Answer(ok, json, body) ==
  /\ got = "waiting"
  /\ \/ /\ ok \/ ~json \/ body = "model"
        /\ got' = "whole"
     \/ /\ ~ok /\ json /\ body = "foreign"
        /\ got' = "empty"
     \/ /\ ~ok /\ json /\ body = "broken"
        /\ got' = "502"
  /\ UNCHANGED <<config, rules, wanted, asked, sent>>

ForwardingNext ==
  \/ \E rule \in Rules : AddRule(rule) \/ RemoveRule(rule)
  \/ AddNil
  \/ \E q \in Asks : DirectByRule(q) \/ DirectNowhere(q)
  \/ \E q \in Asks, target \in Backends \cup {NoTarget} :
       DirectToTarget(q, target) \/ Transform(q, target)
  \/ \E ok, json \in BOOLEAN, body \in {"model", "foreign", "broken"} :
       Answer(ok, json, body)

ForwardingSpec == ForwardingInit /\ [][ForwardingNext]_forwardingVars

-----------------------------------------------------------------------------
(* Properties.                                                             *)

\* Whatever rules came and went, duplicates among them, a request that is
\* rewritten goes where one of the rules still wanted for its path leads;
\* and it is left without a rule only when none is wanted, or a nil has got
\* into the list.
Matching(path) == {rule \in Rules : wanted[rule] > 0 /\ path \in rule.matches}
RulesDecide ==
  [][\A q \in Asks : DirectByRule(q) =>
       \/ got' = "panic" /\ (Matching(q.path) = {} \/ \E i \in DOMAIN rules : rules[i] = NilRule)
       \/ \E rule \in Matching(q.path) :
            IF rule.to = Unparsable THEN Sent(Unchanged(q))
            ELSE Sent(Rewritten(q, rule.to))]_forwardingVars
=============================================================================
