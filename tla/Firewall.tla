------------------------------ MODULE Firewall ------------------------------
(* The firewall rules the program makes and the record it keeps of them       *)
(* (tui/firewall.rs), so that it removes its own rules and nobody else's.    *)
(* The terminal, the dashboard and the thread of the start-up each run        *)
(* `apply` to its end, beside each other: the record is read and written      *)
(* without a lock.                                                            *)
EXTENDS FiniteSets

CONSTANTS
    Ports,   \* TCP ports
    Actors   \* who calls apply

VARIABLES
    backend, \* "ufw" (firewalld is handled alike), "netsh" or "other"
    active,  \* ufw is switched on: only then does it list its rules, and block
    rules,   \* the rules of the system, [port, name]: on Windows "subscription", "proxy"
             \* (FIREWALL_RULE_NAME, FIREWALL_PROXY_RULE_NAME) or "user"
    users,   \* those the user made; the program's are the others
    record,  \* .v2raydar-firewall.json, which is there unless it is empty: [port, name]
    jobs,    \* jobs[a]: the call of apply actor a is in
    upset    \* history: see RulesAccounted

firewall == <<rules, users, record, jobs, upset>>
system == <<backend, active>>

\* ufw's rules have no name: the program's and the user's are the same rule.
RuleOf(entry) == IF backend = "netsh" THEN entry ELSE [port |-> entry.port, name |-> "none"]
UsersRule(port) == [port |-> port, name |-> IF backend = "netsh" THEN "user" ELSE "none"]
Job(step, entry) == [step |-> step, entry |-> entry, existed |-> FALSE, seen |-> {}]
NoJob == [step |-> "idle"]
Idle(a) == jobs[a].step = "idle"
Quiet == \A a \in Actors : Idle(a)
Busy(port) == \E a \in Actors : ~Idle(a) /\ jobs[a].entry.port = port

RuleFor(port) == \E r \in rules : r.port = port
Recorded(port) == \E e \in record : e.port = port
PortOpen(port) == backend = "other" \/ (backend = "ufw" /\ ~active) \/ RuleFor(port)

\* Mutant: the sheet is drawn whatever the firewall lets through.
AllowsAnything(port) == TRUE

\* allows_port: the record is trusted before the firewall is asked.
AllowsPort(port) ==
    \/ Recorded(port)
    \/ backend = "ufw" /\ active /\ RuleFor(port)
    \/ backend = "other"

FirewallInit(tool, on, opened) ==
    /\ backend = tool /\ active = on
    /\ users = {UsersRule(p) : p \in opened} /\ rules = users /\ record = {}
    /\ jobs = [a \in Actors |-> NoJob] /\ upset = FALSE
-----------------------------------------------------------------------------
(* One call of apply.                                                        *)

Begins(a, port, name, enabled) ==
    /\ Idle(a)
    /\ LET entry == [port |-> port, name |-> name]
       IN /\ jobs' = [jobs EXCEPT ![a] =
                CASE backend = "ufw" -> Job(IF enabled THEN "check" ELSE "lookup", entry)
                  [] backend = "netsh" -> Job(IF enabled THEN "allow" ELSE "unname", entry)
                  [] OTHER -> NoJob]
          /\ upset' = (upset \/ Busy(port))
    /\ UNCHANGED <<rules, users, record>>

At(a, step) == jobs[a].step = step
Goes(a, step) == jobs' = [jobs EXCEPT ![a].step = step]
Ends(a) == jobs' = [jobs EXCEPT ![a] = NoJob]
Entry(a) == jobs[a].entry

\* Mutant: every rule is taken for new.
ChecksNothing(a) ==
    /\ At(a, "check") /\ Goes(a, "allow") /\ UNCHANGED <<rules, users, record, upset>>

\* ufw_allows_port
Checks(a) ==
    /\ At(a, "check")
    /\ jobs' = [jobs EXCEPT ![a].step = "allow", ![a].existed = active /\ RuleFor(Entry(a).port)]
    /\ UNCHANGED <<rules, users, record, upset>>

\* A rule that was there stays the user's.
Allows(a) ==
    /\ At(a, "allow")
    /\ rules' = rules \cup {RuleOf(Entry(a))}
    /\ IF jobs[a].existed THEN Ends(a) ELSE Goes(a, "record")
    /\ UNCHANGED <<users, record, upset>>

\* record_rule: one entry per port.
ReadsRecord(a) ==
    /\ At(a, "record")
    /\ jobs' = [jobs EXCEPT ![a].step = "write", ![a].seen = record]
    /\ UNCHANGED <<rules, users, record, upset>>
WritesRecord(a) ==
    /\ At(a, "write") /\ Ends(a)
    /\ LET there == {e \in jobs[a].seen : e.port = Entry(a).port}
       IN /\ record' = IF there = {} THEN jobs[a].seen \cup {Entry(a)} ELSE jobs[a].seen
          /\ upset' = (upset \/ jobs[a].seen # record
                        \/ (backend = "netsh" /\ there # {} /\ Entry(a) \notin there))
    /\ UNCHANGED <<rules, users>>

\* remove_windows_rule: every rule of the name, whatever its port.
Unnamed(name) == {r \in rules : r.name # name}
Unnames(a) ==
    /\ At(a, "unname") /\ Goes(a, "lookup")
    /\ rules' = Unnamed(Entry(a).name)
    /\ UNCHANGED <<users, record, upset>>

\* remove_recorded_rule_by_port
LooksUp(a) ==
    /\ At(a, "lookup")
    /\ \/ \E e \in record :
             /\ e.port = Entry(a).port
             /\ jobs' = [jobs EXCEPT ![a] = [Job("delete", e) EXCEPT !.seen = record]]
       \/ ~Recorded(Entry(a).port) /\ Ends(a)
    /\ UNCHANGED <<rules, users, record, upset>>

\* remove_owned_rule
Without(entry) == IF backend = "netsh" THEN Unnamed(entry.name) ELSE rules \ {RuleOf(entry)}
DeletesRule(a) ==
    /\ At(a, "delete") /\ Goes(a, "erase")
    /\ rules' = Without(Entry(a))
    /\ UNCHANGED <<users, record, upset>>
ErasesEntry(a) ==
    /\ At(a, "erase") /\ Ends(a)
    /\ record' = {e \in jobs[a].seen : e.port # Entry(a).port}
    /\ upset' = (upset \/ jobs[a].seen # record)
    /\ UNCHANGED <<rules, users>>

\* A command fails, for want of rights as a rule; or the record cannot be
\* written and the rule that was just made or deleted is not on it.
CommandFails(a) ==
    /\ jobs[a].step \in {"check", "allow", "unname", "delete", "write", "erase"}
    /\ Ends(a)
    /\ upset' = (upset \/ jobs[a].step \in {"write", "erase"})
    /\ UNCHANGED <<rules, users, record>>

ApplyStep(a) ==
    \/ Checks(a) \/ Allows(a) \/ ReadsRecord(a) \/ WritesRecord(a) \/ Unnames(a)
    \/ LooksUp(a) \/ DeletesRule(a) \/ ErasesEntry(a) \/ CommandFails(a)

\* The process is gone in the middle of its calls.
Interrupted ==
    /\ jobs' = [a \in Actors |-> NoJob]
    /\ upset' = (upset \/ \E a \in Actors : jobs[a].step \in {"record", "write", "erase"})
    /\ UNCHANGED <<rules, users, record>>

\* The user opens a port; at an unlucky moment the program takes the rule for
\* its own.
UserOpens(port) ==
    /\ backend # "other" /\ UsersRule(port) \notin rules
    /\ rules' = rules \cup {UsersRule(port)} /\ users' = users \cup {UsersRule(port)}
    /\ upset' = (upset \/ Busy(port))
    /\ UNCHANGED <<record, jobs>>

\* remove_owned_rules, of the uninstaller: the entries whose rule could not be
\* removed stay.
RemovesOwned(failing) ==
    /\ rules' = {r \in rules : ~\E e \in record \ failing :
                                  IF backend = "netsh" THEN r.name = e.name ELSE r = RuleOf(e)}
    /\ record' = failing
    /\ UNCHANGED <<users, jobs, upset>>
=============================================================================
