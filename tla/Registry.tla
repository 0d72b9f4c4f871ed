------------------------------ MODULE Registry ------------------------------
(***************************************************************************)
(* The Rule Registry of rewrites.py (_rule_dict, rule(), the registration *)
(* in RuleMatcher.__init__, __reduce__) and the ways RuleMatchers come to *)
(* exist in a process: the two built-in singletons at import, one         *)
(* ParsedRuleMatcher per parse_rule_str, and one per rule of a file in    *)
(* parse_rules_from_file.  A parsed rule is abstracted to its name and    *)
(* whether it passes the checks ParsedRuleMatcher.__init__ makes on its   *)
(* types and free variables; a matcher is the rule it was made from.      *)
(* A constructor that fails an assertion raises: the caller sees an      *)
(* error and the process goes on with whatever was registered so far.     *)
(***************************************************************************)
EXTENDS Naturals, Sequences, SequencesExt, FiniteSets

CONSTANTS
  BuiltIns,  \* the singletons inline_var and delete_let, as rule records
  Strs,      \* rules a caller may pass to parse_rule_str
  Files      \* rule files, each a sequence of rules, for parse_rules_from_file

VARIABLES
  reg,       \* _rule_dict: name -> matcher
  held,      \* matchers referenced by Matches the caller holds
  outcome    \* "ok" or "error": how the last call returned (history)

vars == <<reg, held, outcome>>

(* Fault model: the duplicate-name assertion is missing.                 *)
RuleMatcherInitOverwrites(r, rg) == [ok |-> TRUE, reg |-> (r.name :> r) @@ rg]

(* RuleMatcher.__init__: a name already registered is an assertion        *)
(* failure; otherwise the matcher is registered under its name.           *)
RuleMatcherInit(r, rg) ==
  IF r.name \in DOMAIN rg THEN [ok |-> FALSE, reg |-> rg]
  ELSE [ok |-> TRUE, reg |-> (r.name :> r) @@ rg]

(* Fault model: super().__init__ is called before the rule is checked.   *)
ParsedRuleMatcherInitRegistersFirst(r, rg) ==
  LET s == RuleMatcherInit(r, rg)
  IN  IF ~r.valid THEN [ok |-> FALSE, reg |-> s.reg] ELSE s

(* Fault model: super().__init__() without the rule's name, so the class *)
(* name is used.                                                           *)
ParsedRuleMatcherInitDefaultName(r, rg) ==
  IF ~r.valid THEN [ok |-> FALSE, reg |-> rg]
  ELSE RuleMatcherInit([r EXCEPT !.name = "ParsedRuleMatcher"], rg)

(* ParsedRuleMatcher.__init__: the rule's checks come first, then         *)
(* super().__init__ registers it.                                          *)
ParsedRuleMatcherInit(r, rg) ==
  IF ~r.valid THEN [ok |-> FALSE, reg |-> rg] ELSE RuleMatcherInit(r, rg)

(* The list comprehension of parse_rules_from_file: rules are             *)
(* constructed in file order and the first failure propagates.            *)
RECURSIVE LoadRules(_, _, _)
LoadRules(rs, i, rg) ==
  IF i > Len(rs) THEN [ok |-> TRUE, reg |-> rg]
  ELSE LET s == ParsedRuleMatcherInit(rs[i], rg)
       IN  IF s.ok THEN LoadRules(rs, i + 1, s.reg) ELSE s

(* Importing rewrites.py instantiates the @singleton matchers.             *)
Init ==
  /\ reg = [n \in {b.name : b \in BuiltIns} |-> CHOOSE b \in BuiltIns : b.name = n]
  /\ held = {}
  /\ outcome = "ok"

(* parse_rule_str(ks_str, symtab): one ParsedRuleMatcher.                  *)
ParseRuleStr ==
  \E r \in Strs :
    LET s == ParsedRuleMatcherInit(r, reg)
    IN  /\ reg' = s.reg
        /\ outcome' = IF s.ok THEN "ok" ELSE "error"
        /\ UNCHANGED held

(* parse_rules_from_file(filename) *)
ParseRulesFromFile ==
  \E f \in Files :
    LET s == LoadRules(f, 1, reg)
    IN  /\ reg' = s.reg
        /\ outcome' = IF s.ok THEN "ok" ELSE "error"
        /\ UNCHANGED held

(* A traversal with a registered matcher yields a Match referring to it.  *)
MatchFound ==
  /\ \E n \in DOMAIN reg : held' = held \cup {reg[n]}
  /\ outcome' = "ok"
  /\ UNCHANGED reg

(* Pickling a Match: __reduce__ stores the matcher's name and unpickling  *)
(* calls rule(name), which raises KeyError for an unknown name.           *)
Resolve(m) == IF m.name \in DOMAIN reg THEN {reg[m.name]} ELSE {}

Next == ParseRuleStr \/ ParseRulesFromFile \/ MatchFound

Spec == Init /\ [][Next]_vars

-----------------------------------------------------------------------------
AllRules == BuiltIns \cup Strs \cup UNION {Range(f) : f \in Files}

(* Every registered matcher is one of the process's rules, under its own  *)
(* name.                                                                   *)
TypeOK ==
  /\ DOMAIN reg \subseteq {r.name : r \in AllRules}
  /\ \A n \in DOMAIN reg : reg[n] \in AllRules /\ reg[n].name = n
  /\ held \subseteq AllRules
  /\ outcome \in {"ok", "error"}

(* A Match survives pickling whatever was loaded after it was made:       *)
(* rule(name) in the same process gives back the very matcher that        *)
(* produced it, never a later rule that reused its name (spec 5).         *)
PickleRoundTrip == \A m \in held : Resolve(m) = {m}

(* A rule that fails ParsedRuleMatcher's checks is never registered, even *)
(* if a file containing it is loaded (spec 7: reject construction).       *)
OnlyValidRegistered == \A n \in DOMAIN reg : reg[n].valid

(* Spec 7: a malformed rule definition is fatal "(reject construction, no *)
(* partial registration)": a call that raises leaves the registry as it   *)
(* was.                                                                    *)
NoPartialRegistration == [][outcome' = "error" => reg' = reg]_vars
=============================================================================
