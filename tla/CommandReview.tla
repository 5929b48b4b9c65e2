---------------------------- MODULE CommandReview ----------------------------
(***************************************************************************)
(* What a tool call of the model goes through before its command runs: the *)
(* tool registry's check of the arguments, which are any JSON text, and    *)
(* the executor's review of the command by its security rules.  The review *)
(* of SecurityService, which nothing of the program calls, is modelled     *)
(* beside it.                                                              *)
(***************************************************************************)
EXTENDS Integers, Sequences, Loops

CONSTANTS
  Priorities, \* the priorities of rules, numbers
  MaxRules    \* bound: security rules of an executor

ASSUME ReviewAssumption == Priorities \subseteq Int /\ MaxRules \in Nat

VARIABLES
  rules,  \* BaseExecutor._security_rules, in the order they were added
  call,   \* the last call: its tool and arguments
  outcome \* what became of it

reviewVars == <<rules, call, outcome>>

Tools == {"run_bash", "run_python", "other"}
Fields == {"command", "code"}
FieldValues == {"absent", "empty", "text", "null", "number"}
Malformed == [json |-> "malformed"]
List      == [json |-> "list"]
Object(fields) == [json |-> "object", fields |-> fields]

\* _default_tool_schemas: each tool has one property, a string, which is required, and
\* nothing else may be given.
Required(tool) == IF tool = "run_bash" THEN "command" ELSE "code"

\* parse_and_validate_arguments
Accepts(tool, arguments) ==
  /\ tool # "other"
  /\ arguments.json = "object"
  /\ arguments.fields[Required(tool)] \notin {"absent", "null", "empty"}
  /\ \A f \in Fields \ {Required(tool)} : arguments.fields[f] = "absent"
  /\ arguments.fields[Required(tool)] # "number"

\* execute_tool_call, after that: str(payload.get(...) or "").
HasCommand(tool, arguments) == arguments.fields[Required(tool)] \in {"text", "number"}

\* A rule, and whether its pattern is found in the command.
Rule == [action : {"block", "warn", "allow"}, priority : Priorities, matches : BOOLEAN]

\* sorted(rules, key=priority, reverse=True), which is stable: by insertion, a rule goes
\* behind those whose priority is not lower.
ByPriority(list) ==
  LET sorted[n \in 0..Len(list)] ==
        IF n = 0 THEN <<>>
        ELSE LET others == sorted[n - 1]
                 before == {i \in 1..Len(others) : others[i].priority >= list[n].priority}
             IN  Append(Keeping(others, before), list[n])
                   \o Keeping(others, 1..Len(others) \ before)
  IN  sorted[Len(list)]

\* The action of the first rule that is found and has one of the actions.
First(list, actions) ==
  LET found == {i \in 1..Len(list) : list[i].matches /\ list[i].action \in actions}
  IN  IF found = {} THEN "none"
      ELSE list[CHOOSE i \in found : \A j \in found : i <= j].action

\* Mutant: an explicit permission ends the review, as it does in SecurityService.
Validate_AllowsFirst == First(ByPriority(rules), {"block", "warn", "allow"})
\* BaseExecutor.validate passes over a rule that allows.
Validate == First(ByPriority(rules), {"block", "warn"})

\* SecurityService.check_command stops at one.
CheckCommand == First(ByPriority(rules), {"block", "warn", "allow"})

ReviewInit ==
  /\ rules = <<>>
  /\ call = [tool |-> "other", arguments |-> Malformed] /\ outcome = "none"

AddSecurityRule(rule) ==
  /\ Len(rules) < MaxRules /\ outcome = "none"
  /\ rules' = Append(rules, rule)
  /\ UNCHANGED <<call, outcome>>

ExecuteToolCall(tool, arguments) ==
  /\ outcome = "none"
  /\ call' = [tool |-> tool, arguments |-> arguments]
  /\ outcome' = IF ~Accepts(tool, arguments) THEN "invalid"
                ELSE IF ~HasCommand(tool, arguments) THEN "missing"
                ELSE IF Validate = "block" THEN "blocked" ELSE "run"
  /\ UNCHANGED rules

NextCall ==
  /\ outcome # "none" /\ outcome' = "none"
  /\ call' = [tool |-> "other", arguments |-> Malformed]
  /\ UNCHANGED rules

ReviewNext ==
  \/ \E rule \in Rule : AddSecurityRule(rule)
  \/ \E tool \in Tools :
       \/ \E arguments \in {Malformed, List} : ExecuteToolCall(tool, arguments)
       \/ \E fields \in [Fields -> FieldValues] : ExecuteToolCall(tool, Object(fields))
  \/ NextCall

ReviewSpec == ReviewInit /\ [][ReviewNext]_reviewVars
-----------------------------------------------------------------------------
(* Properties                                                              *)

\* rules[i] blocks, and no warning comes before it.
Prevails(i) ==
  /\ rules[i].matches /\ rules[i].action = "block"
  /\ \A j \in 1..Len(rules) :
       rules[j].matches /\ rules[j].action = "warn" =>
         \/ rules[j].priority < rules[i].priority
         \/ rules[j].priority = rules[i].priority /\ i < j

\* Only a call of a known tool with a text for its one parameter comes to be reviewed; the
\* second check for a command, in execute_tool_call, never finds one missing.  It runs
\* unless a rule blocks it: only a warning of a higher priority, or of the same and added
\* earlier, overrides such a rule, and a rule that allows never does.  Where no rule
\* allows, both reviews decide alike.
CallsAreVetted ==
  /\ outcome \in {"blocked", "run"} =>
       /\ call.tool # "other"
       /\ call.arguments.fields[Required(call.tool)] = "text"
  /\ outcome # "missing"
  /\ outcome = "run" => \A i \in 1..Len(rules) : ~Prevails(i)
  /\ outcome = "blocked" => \E i \in 1..Len(rules) : Prevails(i)
  /\ (\A i \in 1..Len(rules) : rules[i].action # "allow") => Validate = CheckCommand
=============================================================================
