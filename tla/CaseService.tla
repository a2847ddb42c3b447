---------------------------- MODULE CaseService ----------------------------
(***************************************************************************)
(* What the engine promises the people who work cases, whatever the window *)
(* and suppression of alert_policy, the order of events and the severity   *)
(* of actions: a case holds evaluations of one situation, each of them in  *)
(* at most one case, and shows the worst; people are told of it when it is *)
(* opened and whenever it becomes worse, and only then; the customer is    *)
(* stepped up when it is opened or never; verdicts are added and never     *)
(* withdrawn.  AlertHygiene implements this.                               *)
(***************************************************************************)
EXTENDS Integers, Sequences

CONSTANTS
  Subject,     \* subjects of evaluation
  RuleSet,     \* the sets of rules that may have authority
  NoRules,     \* no rule has authority
  Score,       \* subject scores
  Verdict      \* what a case may be judged to be

VARIABLES
  evaluations, \* what was evaluated, in that order
  cases,       \* the cases, in the order they were opened; evidence, told
               \* and stepUps are indices of evaluations
  verdicts     \* what was said of cases

vars == <<evaluations, cases, verdicts>>

Evaluation == [subject : Subject, rules : RuleSet \cup {NoRules}, score : Score]

(* The evaluation that is being made.                                      *)
This == Len(evaluations) + 1

Belongs(e, c) == e.subject = cases[c].subject /\ e.rules = cases[c].rules

Judged(c) == \E v \in verdicts : v.case = c

----------------------------------------------------------------------------
(* A situation is seen for the first time, or its case is closed to it.    *)
Open(e) ==
  /\ e.rules # NoRules
  /\ \E stepUps \in SUBSET {This} :
       cases' = Append(cases,
         [subject |-> e.subject, rules |-> e.rules, score |-> e.score,
          evidence |-> {This}, told |-> {This}, stepUps |-> stepUps])

(* More of the same, no worse than what the case shows.                    *)
Absorb(e, c) ==
  /\ Belongs(e, c)
  /\ e.score <= cases[c].score
  /\ cases' = [cases EXCEPT ![c].evidence = @ \cup {This}]

(* Worse than what the case shows.                                         *)
Escalate(e, c) ==
  /\ Belongs(e, c)
  /\ e.score > cases[c].score
  /\ cases' = [cases EXCEPT ![c].score = e.score,
                            ![c].evidence = @ \cup {This},
                            ![c].told = @ \cup {This}]

(* No authority, or a case on the subject that nobody has judged yet.      *)
Ignore(e) ==
  /\ e.rules = NoRules \/ \E c \in DOMAIN cases : cases[c].subject = e.subject /\ ~Judged(c)
  /\ UNCHANGED cases

Evaluate(e) ==
  /\ evaluations' = Append(evaluations, e)
  /\ UNCHANGED verdicts
  /\ \/ Open(e)
     \/ \E c \in DOMAIN cases : Absorb(e, c) \/ Escalate(e, c)
     \/ Ignore(e)

Judge(c, verdict) ==
  /\ verdicts' = verdicts \cup {[case |-> c, verdict |-> verdict]}
  /\ UNCHANGED <<evaluations, cases>>

(* Every case that nobody has judged is, and no other.                     *)
Settle ==
  /\ UNCHANGED <<evaluations, cases>>
  /\ \E found \in [{c \in DOMAIN cases : ~Judged(c)} -> Verdict] :
       verdicts' = verdicts \cup {[case |-> c, verdict |-> found[c]] : c \in DOMAIN found}

----------------------------------------------------------------------------
Init == evaluations = <<>> /\ cases = <<>> /\ verdicts = {}

Next ==
  \/ \E e \in Evaluation : Evaluate(e)
  \/ \E c \in DOMAIN cases, verdict \in Verdict : Judge(c, verdict)
  \/ Settle

Spec == Init /\ [][Next]_vars
============================================================================
