------------------------- MODULE ConnectionPolicies -------------------------
(***************************************************************************)
(* Which connections are allowed, and what a new one is given:             *)
(* ConnectionPolicyTemplateAdapter, the policies of the two packs, the     *)
(* policy of the compiled rules, and TypeRegistry, which asks all of them. *)
(*                                                                         *)
(* A context x has the two types and the counts the rules look at.  A      *)
(* policy is [kind |-> "rules", rules |-> ...] or a bundle.                *)
(***************************************************************************)
EXTENDS Integers, SequencesExt, BusinessRules

CONSTANT Identifiers   \* the texts that are well-formed transport identifiers

Unset == -1

(***************************************************************************)
(* evaluate: the first rule that matches decides.                          *)
(***************************************************************************)
Within(count, least, most) ==
  (least = Unset \/ count >= least) /\ (most = Unset \/ count <= most)

RuleMatches(rule, x) ==
  /\ rule.source \in {Blank, x.source}
  /\ rule.target \in {Blank, x.target}
  /\ Within(x.incoming, rule.minIncoming, rule.maxIncoming)
  /\ Within(x.outgoing, rule.minOutgoing, rule.maxOutgoing)

Evaluate(bundle, x) ==
  LET matching == SelectInSeq(bundle.rules, LAMBDA rule : RuleMatches(rule, x))
  IN  IF matching = 0 THEN bundle.default ELSE bundle.rules[matching].allowed

(***************************************************************************)
(* validateTransportMetadata and normalizeConnectionProperties.  A bundle  *)
(* without transport metadata has NoTransport.                             *)
(***************************************************************************)
NoTransport == [payloadSchemaId |-> Blank, payloadType |-> Blank,
                transportMode |-> Blank, mergeHint |-> Blank]

TransportIsValid(t) ==
  /\ t.payloadType # Blank => t.payloadSchemaId # Blank
  /\ {t.payloadSchemaId, t.payloadType} \subseteq Identifiers \cup {Blank}
  /\ t.transportMode \in {Blank, "broadcast"}
  /\ t.mergeHint \in {Blank, "preserve-per-edge"}

AddedTo(properties, key, value) ==
  IF key = Blank \/ key \in DOMAIN properties THEN properties
  ELSE [k \in DOMAIN properties \cup {key} |-> IF k = key THEN value ELSE properties[k]]

NormalizedByBundle(bundle, raw) ==
  LET t      == bundle.transport
      valid  == TransportIsValid(t)
      KeyIf(key, value) == IF valid /\ value # Blank THEN key ELSE Blank
  IN  FoldLeft(LAMBDA acc, added : AddedTo(acc, added[1], added[2]), raw,
               << <<KeyIf("payloadSchemaId", t.payloadSchemaId), t.payloadSchemaId>>,
                  <<KeyIf("payloadType", t.payloadType), t.payloadType>>,
                  <<bundle.typeKey, bundle.typeValue>>,
                  <<"transportMode", "broadcast">>,
                  <<"mergeHint", "preserve-per-edge">> >>)

(***************************************************************************)
(* The bundles of the packs.                                               *)
(***************************************************************************)
PolicyRule(source, target, allowed) ==
  [source |-> source, target |-> target, allowed |-> allowed,
   minIncoming |-> Unset, maxIncoming |-> Unset, minOutgoing |-> Unset, maxOutgoing |-> Unset]

PackBundle(default, rules) ==
  [kind |-> "bundle", default |-> default, rules |-> rules, typeKey |-> "type", typeValue |-> "flow",
   transport |-> [NoTransport EXCEPT !.transportMode = "broadcast",
                                     !.mergeHint = "preserve-per-edge"]]

SamplePolicy ==
  PackBundle(FALSE, << PolicyRule(Blank, "start", FALSE), PolicyRule("stop", Blank, FALSE),
                       PolicyRule("start", "process", TRUE), PolicyRule("start", Blank, FALSE),
                       PolicyRule("process", "process", TRUE), PolicyRule("process", "stop", TRUE),
                       PolicyRule("process", Blank, FALSE) >>)

CustomizedPolicy ==
  PackBundle(TRUE, << PolicyRule(Blank, "start", FALSE), PolicyRule("stop", Blank, FALSE) >>)

(***************************************************************************)
(* RuleBackedConnectionPolicyProvider and TypeRegistry: every policy must  *)
(* allow; each adds to what the ones before it made of the properties.     *)
(***************************************************************************)
NormalizedByRules(rules, raw) ==
  LET type == IF "type" \in DOMAIN raw /\ raw["type"] # Blank THEN raw["type"] ELSE "flow"
  IN  NormalizedProperties(rules, "connection/" \o type, raw)

Allows(policy, x) ==
  IF policy.kind = "rules" THEN CanConnect(policy.rules, x.source, x.target)
  ELSE Evaluate(policy, x)

MayConnect(policies, x) == \A i \in DOMAIN policies : Allows(policies[i], x)

NormalizedConnectionProperties(policies, raw) ==
  FoldLeft(LAMBDA acc, policy : IF policy.kind = "rules" THEN NormalizedByRules(policy.rules, acc)
                                ELSE NormalizedByBundle(policy, acc),
           raw, policies)

\* A context without types is given the types it is asked about.
ContextFor(x, source, target) ==
  [x EXCEPT !.source = IF @ = Blank THEN source ELSE @,
            !.target = IF @ = Blank THEN target ELSE @]
=============================================================================
