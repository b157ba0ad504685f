---------------------------- MODULE SharingProofs ----------------------------
(* What the machine offers to the local network, for any ports, preferences, *)
(* networks, firewalls and files there may be: the account of the firewall   *)
(* rules, the uninstaller, the layout of the QR sheet and the links that are *)
(* answered.  All four rest on one inductive invariant of the calls to the   *)
(* firewall, AccountInv, whose preservation is proved for each step of a     *)
(* call.                                                                     *)
EXTENDS Sharing, FiniteSetTheorems, SequenceTheorems, WellFoundedInduction, TLAPS

Entries == [port: Ports, name: {"subscription", "proxy"}]
Steps == {"check", "allow", "record", "write", "unname", "lookup", "delete", "erase"}
Jobs == {NoJob} \cup [step: Steps, entry: Entries, existed: BOOLEAN, seen: SUBSET Entries]

\* Every rule that is not the user's is one an entry could name; which steps a
\* call takes depends on the firewall.
Typed ==
    /\ backend \in {"ufw", "netsh", "other"}
    /\ record \subseteq Entries /\ users \subseteq {UsersRule(p) : p \in Ports}
    /\ rules \subseteq users \cup {RuleOf(e) : e \in Entries}
    /\ jobs \in [Actors -> Jobs]
    /\ \A a \in Actors :
          /\ backend = "other" => Idle(a)
          /\ At(a, "check") => backend = "ufw"
          /\ At(a, "unname") => backend = "netsh"
          /\ At(a, "allow") /\ backend = "netsh" => ~jobs[a].existed
    /\ backend = "other" => record = {}

\* Without the service no call is under way, and the uninstaller leaves no entry.
Service ==
    /\ config \in ConfigType /\ net \in Nets /\ todo \in Seq(Entries)
    /\ ~running => Quiet /\ todo = <<>>
    /\ leaving # "no" => ~running /\ record = {}

Ok == ~upset /\ (backend = "ufw" => active)
Owed == {RuleOf(e) : e \in record} \cup {RuleOf(Entry(a)) : a \in {b \in Actors : At(b, "record") \/ At(b, "write")}}

\* The calls under way are for ports of their own.
Apart ==
    /\ \A d, e \in record : d.port = e.port => d = e
    /\ \A a, b \in Actors : ~Idle(a) /\ ~Idle(b) /\ a # b => Entry(a).port # Entry(b).port

\* What a call may still rely on of what it has looked up.
Certain(a) ==
    /\ At(a, "delete") \/ At(a, "erase") => \A e \in record : e.port = Entry(a).port => e = Entry(a)
    /\ At(a, "erase") => RuleOf(Entry(a)) \notin rules
    /\ backend = "ufw" =>
          /\ At(a, "record") \/ At(a, "write") => RuleOf(Entry(a)) \in rules
          /\ At(a, "allow") /\ jobs[a].existed => RuleOf(Entry(a)) \in rules
          /\ (At(a, "allow") /\ ~jobs[a].existed) \/ At(a, "record") \/ At(a, "write") \/ At(a, "delete")
                => RuleOf(Entry(a)) \notin users

\* An entry stands for a rule of the program, or its removal is under way.
Backing ==
    backend = "ufw" =>
      \A e \in record : /\ RuleOf(e) \notin users
                        /\ RuleOf(e) \in rules \/ \E a \in Actors : At(a, "erase") /\ Entry(a).port = e.port

Accounted == users \subseteq rules /\ rules \ users \subseteq Owed
Account == Ok => Accounted /\ Apart /\ Backing /\ \A a \in Actors : Certain(a)

AccountInv == Typed /\ Service /\ Account

\* Rules of ufw have no name, so a port has one.
LEMMA RuleOfPort ==
    ASSUME Typed, backend = "ufw", NEW p \in Ports
    PROVE  RuleFor(p) <=> [port |-> p, name |-> "none"] \in rules
<1>1. \A r \in rules : r = [port |-> r.port, name |-> "none"]
  BY DEF Typed, UsersRule, RuleOf
<1> QED
  BY <1>1 DEF RuleFor

\* A call under way for a port no other is busy with.
LEMMA JobIsTyped ==
    ASSUME Typed, NEW a \in Actors, ~Idle(a)
    PROVE  /\ jobs[a] \in [step: Steps, entry: Entries, existed: BOOLEAN, seen: SUBSET Entries]
           /\ Entry(a) \in Entries /\ Entry(a).port \in Ports
           /\ Entry(a) = [port |-> Entry(a).port, name |-> Entry(a).name]
BY DEF Typed, Jobs, NoJob, Idle, Entry, Entries

\* What the entries stand for, while no removal ends.
LEMMA BackingStays ==
    ASSUME Backing, UNCHANGED <<backend, rules, users, record>>,
           \A b \in Actors : jobs[b].step = "erase" => jobs'[b] = jobs[b]
    PROVE  Backing'
<1> SUFFICES ASSUME backend = "ufw", NEW e \in record
             PROVE  /\ RuleOf(e) \notin users
                    /\ RuleOf(e) \in rules \/ \E b \in Actors : jobs'[b].step = "erase" /\ jobs'[b].entry.port = e.port
  BY DEF Backing, At, Entry, RuleOf
<1>1. /\ RuleOf(e) \notin users
      /\ RuleOf(e) \in rules \/ \E b \in Actors : jobs[b].step = "erase" /\ jobs[b].entry.port = e.port
  BY DEF Backing, At, Entry
<1> QED
  BY <1>1

\* What the check has found stays so until the call is at its end.
LEMMA ChecksAccounted ==
    ASSUME Typed, Account, UNCHANGED system, NEW a \in Actors, Checks(a)
    PROVE  Account'
<1> SUFFICES ASSUME Ok' PROVE (Accounted /\ Apart /\ Backing /\ \A b \in Actors : Certain(b))'
  BY DEF Account
<1> USE DEF system
<1>1. Ok /\ UNCHANGED <<rules, users, record>>
  BY DEF Checks, Ok
<1>2. \A b \in Actors : b # a => jobs'[b] = jobs[b]
  BY DEF Checks, Typed
<1>3. /\ jobs[a].step = "check" /\ jobs'[a].step = "allow" /\ jobs'[a].entry = jobs[a].entry
      /\ jobs'[a].existed = (active /\ RuleFor(jobs[a].entry.port))
  BY DEF Checks, Typed, At, Jobs, NoJob, Entry, RuleFor
<1>4. Accounted'
  BY <1>1, <1>2, <1>3 DEF Account, Accounted, Owed, At, Entry, RuleOf
<1>5. Apart'
  BY <1>1, <1>2, <1>3 DEF Account, Apart, Idle, Entry
<1>6. Backing'
  BY <1>1, <1>2, <1>3, BackingStays DEF Account
<1>7. ASSUME NEW b \in Actors PROVE Certain(b)'
  <2>1. CASE b = a
    <3>1. jobs[a].entry.port \in Ports
      BY <1>3, JobIsTyped DEF Idle, Entry
    <3>2. backend = "ufw" =>
            (RuleFor(jobs[a].entry.port) <=> [port |-> jobs[a].entry.port, name |-> "none"] \in rules)
      BY <3>1, RuleOfPort
    <3>3. users \subseteq rules
      BY <1>1 DEF Account, Accounted
    <3> QED
      BY <1>1, <1>3, <2>1, <3>2, <3>3 DEF Certain, At, Entry, RuleOf, Ok
  <2>2. CASE b # a
    BY <1>1, <1>2, <2>2 DEF Account, Certain, At, Entry, RuleOf
  <2> QED
    BY <2>1, <2>2
<1> QED
  BY <1>4, <1>5, <1>6, <1>7

\* A rule that is new is owed an entry by the call that made it.
LEMMA AllowsAccounted ==
    ASSUME Typed, Account, UNCHANGED system, NEW a \in Actors, Allows(a)
    PROVE  Account'
<1> SUFFICES ASSUME Ok' PROVE (Accounted /\ Apart /\ Backing /\ \A b \in Actors : Certain(b))'
  BY DEF Account
<1> USE DEF system
<1>1. Ok /\ UNCHANGED <<users, record>> /\ rules' = rules \cup {RuleOf(jobs[a].entry)}
  BY DEF Allows, Ok, Entry
<1>2. \A b \in Actors : b # a => jobs'[b] = jobs[b]
  BY DEF Allows, Typed, Ends, Goes
<1>3. jobs[a].step = "allow" /\ ~Idle(a)
  BY DEF Allows, At, Idle
<1>4. \/ jobs[a].existed /\ jobs'[a] = [step |-> "idle"]
      \/ ~jobs[a].existed /\ jobs'[a].step = "record" /\ jobs'[a].entry = jobs[a].entry
  <2>1. CASE jobs[a].existed
    BY <2>1 DEF Allows, Ends, NoJob, Typed
  <2>2. CASE ~jobs[a].existed
    BY <1>3, <2>2, JobIsTyped DEF Allows, Goes, Typed
  <2> QED
    BY <2>1, <2>2
<1>5. backend = "ufw" /\ jobs[a].existed => RuleOf(jobs[a].entry) \in rules
  BY <1>1, <1>3 DEF Account, Certain, At, Entry
<1>6. backend # "ufw" => ~jobs[a].existed
  BY <1>3 DEF Typed, At, Idle
<1>7. Accounted'
  <2>1. users' \subseteq rules'
    BY <1>1 DEF Account, Accounted
  <2>2. ASSUME NEW r \in rules', r \notin users' PROVE r \in Owed'
    <3>1. CASE r \in rules
      <4>1. r \in Owed
        BY <1>1, <2>2, <3>1 DEF Account, Accounted
      <4> QED
        BY <1>1, <1>2, <1>3, <4>1 DEF Owed, At, Entry, RuleOf
    <3>2. CASE r \notin rules
      <4>1. r = RuleOf(jobs[a].entry) /\ ~jobs[a].existed
        BY <1>1, <1>5, <1>6, <2>2, <3>2
      <4> QED
        BY <1>4, <4>1 DEF Owed, At, Entry, RuleOf
    <3> QED
      BY <3>1, <3>2
  <2> QED
    BY <2>1, <2>2 DEF Accounted
<1>8. Apart'
  BY <1>1, <1>2, <1>3, <1>4 DEF Account, Apart, Idle, Entry
<1>9. Backing'
  BY <1>1, <1>2, <1>3, <1>4 DEF Account, Backing, At, Entry, RuleOf
<1>10. ASSUME NEW b \in Actors PROVE Certain(b)'
  <2>1. CASE b = a
    BY <1>1, <1>3, <1>4, <2>1 DEF Account, Certain, At, Entry, RuleOf
  <2>2. CASE b # a
    <3>1. Certain(b)
      BY <1>1 DEF Account
    <3>2. jobs[b].step = "erase" => RuleOf(jobs[b].entry) \notin rules'
      <4>1. SUFFICES ASSUME jobs[b].step = "erase" PROVE RuleOf(jobs[b].entry) # RuleOf(jobs[a].entry)
        BY <1>1, <3>1 DEF Certain, At, Entry
      <4>2. jobs[b].entry.port # jobs[a].entry.port
        BY <1>1, <1>3, <2>2, <4>1 DEF Account, Apart, Idle, Entry
      <4> QED
        BY <4>2 DEF RuleOf
    <3> QED
      BY <1>1, <1>2, <2>2, <3>1, <3>2 DEF Certain, At, Entry, RuleOf
  <2> QED
    BY <2>1, <2>2
<1> QED
  BY <1>7, <1>8, <1>9, <1>10

LEMMA ReadsAccounted ==
    ASSUME Typed, Account, UNCHANGED system, NEW a \in Actors, ReadsRecord(a)
    PROVE  Account'
<1> SUFFICES ASSUME Ok' PROVE (Accounted /\ Apart /\ Backing /\ \A b \in Actors : Certain(b))'
  BY DEF Account
<1> USE DEF system
<1>1. Ok /\ UNCHANGED <<rules, users, record>>
  BY DEF ReadsRecord, Ok
<1>2. \A b \in Actors : b # a => jobs'[b] = jobs[b]
  BY DEF ReadsRecord, Typed
<1>3. jobs[a].step = "record" /\ ~Idle(a)
  BY DEF ReadsRecord, At, Idle
<1>4. jobs'[a].step = "write" /\ jobs'[a].entry = jobs[a].entry
  BY <1>3, JobIsTyped DEF ReadsRecord, Typed
<1>5. Accounted'
  BY <1>1, <1>2, <1>3, <1>4 DEF Account, Accounted, Owed, At, Entry, RuleOf
<1>6. Apart'
  BY <1>1, <1>2, <1>3, <1>4 DEF Account, Apart, Idle, Entry
<1>7. Backing'
  BY <1>1, <1>2, <1>3, BackingStays DEF Account
<1>8. ASSUME NEW b \in Actors PROVE Certain(b)'
  BY <1>1, <1>2, <1>3, <1>4 DEF Account, Certain, At, Entry, RuleOf
<1> QED
  BY <1>5, <1>6, <1>7, <1>8

\* The entry is written for the rule that was made.
LEMMA WritesAccounted ==
    ASSUME Typed, Account, UNCHANGED system, NEW a \in Actors, WritesRecord(a)
    PROVE  Account'
<1> SUFFICES ASSUME Ok' PROVE (Accounted /\ Apart /\ Backing /\ \A b \in Actors : Certain(b))'
  BY DEF Account
<1> USE DEF system
<1> DEFINE new == jobs[a].entry
           there == {e \in record : e.port = new.port}
<1>1. Ok /\ UNCHANGED <<rules, users>> /\ jobs[a].seen = record
  BY DEF WritesRecord, Ok
<1>2. \A b \in Actors : b # a => jobs'[b] = jobs[b]
  BY DEF WritesRecord, Typed, Ends
<1>3. jobs[a].step = "write" /\ ~Idle(a) /\ jobs'[a] = [step |-> "idle"]
  BY DEF WritesRecord, At, Idle, Ends, NoJob, Typed
<1>4. new \in Entries
  BY <1>3, JobIsTyped DEF Entry
<1>5. \/ there = {} /\ record' = record \cup {new}
      \/ there # {} /\ record' = record /\ (backend = "netsh" => new \in record)
  BY <1>1 DEF WritesRecord, Entry, Ok
<1>6. Accounted /\ Apart /\ Backing /\ \A b \in Actors : Certain(b)
  BY <1>1 DEF Account
<1>7. \E e \in record' : RuleOf(e) = RuleOf(new)
  BY <1>5 DEF RuleOf
<1>8. backend = "ufw" => RuleOf(new) \in rules /\ RuleOf(new) \notin users
  BY <1>3, <1>6 DEF Certain, At, Entry
<1>9. Accounted'
  <2>1. users' \subseteq rules'
    BY <1>1, <1>6 DEF Accounted
  <2>2. ASSUME NEW r \in rules', r \notin users' PROVE r \in Owed'
    <3>1. r \in Owed
      BY <1>1, <1>6, <2>2 DEF Accounted
    <3>2. \/ \E e \in record : r = RuleOf(e)
          \/ r = RuleOf(new)
          \/ \E b \in Actors : b # a /\ (At(b, "record") \/ At(b, "write")) /\ r = RuleOf(Entry(b))
      BY <3>1 DEF Owed, Entry
    <3> QED
      BY <1>2, <1>5, <1>7, <3>2 DEF Owed, At, Entry, RuleOf
  <2> QED
    BY <2>1, <2>2 DEF Accounted
<1>10. Apart'
  <2>1. \A d, e \in record' : d.port = e.port => d = e
    BY <1>5, <1>6 DEF Apart
  <2>2. \A b, c \in Actors : jobs'[b].step # "idle" /\ jobs'[c].step # "idle" /\ b # c
          => jobs'[b].entry.port # jobs'[c].entry.port
    BY <1>2, <1>3, <1>6 DEF Apart, Idle, Entry
  <2> QED
    BY <2>1, <2>2 DEF Apart, Idle, Entry
<1>11. Backing'
  <2> SUFFICES ASSUME backend = "ufw", NEW e \in record'
               PROVE  /\ RuleOf(e) \notin users
                      /\ RuleOf(e) \in rules \/ \E b \in Actors : jobs'[b].step = "erase" /\ jobs'[b].entry.port = e.port
    BY <1>1 DEF Backing, At, Entry, RuleOf
  <2>1. CASE e \in record
    <3>1. /\ RuleOf(e) \notin users
          /\ RuleOf(e) \in rules \/ \E b \in Actors : jobs[b].step = "erase" /\ jobs[b].entry.port = e.port
      BY <1>6, <2>1 DEF Backing, At, Entry
    <3> QED
      BY <1>2, <1>3, <3>1
  <2>2. CASE e = new
    BY <1>8, <2>2
  <2> QED
    BY <1>5, <2>1, <2>2
<1>12. ASSUME NEW b \in Actors PROVE Certain(b)'
  <2>1. CASE b = a
    BY <1>3, <2>1 DEF Certain, At
  <2>2. CASE b # a
    <3>1. jobs[b].step # "idle" => jobs[b].entry.port # new.port
      BY <1>3, <1>6, <2>2 DEF Apart, Idle, Entry
    <3> QED
      BY <1>1, <1>2, <1>5, <1>6, <2>2, <3>1 DEF Certain, At, Entry, RuleOf
  <2> QED
    BY <2>1, <2>2
<1> QED
  BY <1>9, <1>10, <1>11, <1>12

\* netsh removes every rule of the name, none of which is the user's.
LEMMA UnnamesAccounted ==
    ASSUME Typed, Account, UNCHANGED system, NEW a \in Actors, Unnames(a)
    PROVE  Account'
<1> SUFFICES ASSUME Ok' PROVE (Accounted /\ Apart /\ Backing /\ \A b \in Actors : Certain(b))'
  BY DEF Account
<1> USE DEF system
<1>1. /\ Ok /\ UNCHANGED <<users, record>> /\ rules' = {r \in rules : r.name # jobs[a].entry.name}
  BY DEF Unnames, Ok, Unnamed, Entry
<1>2. \A b \in Actors : b # a => jobs'[b] = jobs[b]
  BY DEF Unnames, Typed, Goes
<1>3. jobs[a].step = "unname" /\ ~Idle(a) /\ backend = "netsh"
  BY DEF Unnames, At, Idle, Typed
<1>4. jobs'[a].step = "lookup" /\ jobs'[a].entry = jobs[a].entry
  BY <1>3, JobIsTyped DEF Unnames, Typed, Goes
<1>5. jobs[a].entry.name # "user"
  BY <1>3, JobIsTyped DEF Entry, Entries
<1>6. Accounted'
  <2>1. users' \subseteq rules'
    BY <1>1, <1>3, <1>5 DEF Account, Accounted, Typed, UsersRule
  <2>2. ASSUME NEW r \in rules', r \notin users' PROVE r \in Owed'
    <3>1. r \in Owed
      BY <1>1, <2>2 DEF Account, Accounted
    <3> QED
      BY <1>1, <1>2, <1>3, <3>1 DEF Owed, At, Entry, RuleOf
  <2> QED
    BY <2>1, <2>2 DEF Accounted
<1>7. Apart'
  BY <1>1, <1>2, <1>3, <1>4 DEF Account, Apart, Idle, Entry
<1>8. Backing'
  BY <1>3 DEF Backing
<1>9. ASSUME NEW b \in Actors PROVE Certain(b)'
  BY <1>1, <1>2, <1>3, <1>4 DEF Account, Certain, At, Entry, RuleOf
<1> QED
  BY <1>6, <1>7, <1>8, <1>9

\* The entry that is looked up is the only one of its port.
LEMMA LooksUpAccounted ==
    ASSUME Typed, Account, UNCHANGED system, NEW a \in Actors, LooksUp(a)
    PROVE  Account'
<1> SUFFICES ASSUME Ok' PROVE (Accounted /\ Apart /\ Backing /\ \A b \in Actors : Certain(b))'
  BY DEF Account
<1> USE DEF system
<1>1. Ok /\ UNCHANGED <<rules, users, record>>
  BY DEF LooksUp, Ok
<1>2. \A b \in Actors : b # a => jobs'[b] = jobs[b]
  BY DEF LooksUp, Typed, Ends
<1>3. jobs[a].step = "lookup" /\ ~Idle(a)
  BY DEF LooksUp, At, Idle
<1>4. \/ jobs'[a] = [step |-> "idle"]
      \/ /\ jobs'[a].step = "delete" /\ jobs'[a].entry \in record
         /\ jobs'[a].entry.port = jobs[a].entry.port
  BY DEF LooksUp, Typed, Ends, NoJob, Job, Entry
<1>5. Accounted /\ Apart /\ Backing /\ \A b \in Actors : Certain(b)
  BY <1>1 DEF Account
<1>6. Accounted'
  BY <1>1, <1>2, <1>3, <1>5 DEF Accounted, Owed, At, Entry, RuleOf
<1>7. Apart'
  BY <1>1, <1>2, <1>3, <1>4, <1>5 DEF Apart, Idle, Entry
<1>8. Backing'
  BY <1>1, <1>2, <1>3, <1>5, BackingStays
<1>9. ASSUME NEW b \in Actors PROVE Certain(b)'
  <2>1. CASE b = a
    BY <1>1, <1>4, <1>5, <2>1 DEF Certain, At, Entry, RuleOf, Apart, Backing
  <2>2. CASE b # a
    BY <1>1, <1>2, <1>5, <2>2 DEF Certain, At, Entry, RuleOf
  <2> QED
    BY <2>1, <2>2
<1> QED
  BY <1>6, <1>7, <1>8, <1>9

\* The rule that is deleted is the one the entry stands for.
LEMMA DeletesAccounted ==
    ASSUME Typed, Account, UNCHANGED system, NEW a \in Actors, DeletesRule(a)
    PROVE  Account'
<1> SUFFICES ASSUME Ok' PROVE (Accounted /\ Apart /\ Backing /\ \A b \in Actors : Certain(b))'
  BY DEF Account
<1> USE DEF system
<1>1. /\ Ok /\ UNCHANGED <<users, record>>
      /\ rules' = IF backend = "netsh" THEN {r \in rules : r.name # jobs[a].entry.name}
                  ELSE rules \ {RuleOf(jobs[a].entry)}
  BY DEF DeletesRule, Ok, Without, Unnamed, Entry
<1>2. \A b \in Actors : b # a => jobs'[b] = jobs[b]
  BY DEF DeletesRule, Typed, Goes
<1>3. jobs[a].step = "delete" /\ ~Idle(a) /\ backend \in {"ufw", "netsh"}
  BY DEF DeletesRule, At, Idle, Typed
<1>4. jobs'[a].step = "erase" /\ jobs'[a].entry = jobs[a].entry
  BY <1>3, JobIsTyped DEF DeletesRule, Typed, Goes
<1>5. jobs[a].entry.name # "user" /\ jobs[a].entry = [port |-> jobs[a].entry.port, name |-> jobs[a].entry.name]
  BY <1>3, JobIsTyped DEF Entry, Entries
<1>6. Accounted /\ Apart /\ Backing /\ \A b \in Actors : Certain(b)
  BY <1>1 DEF Account
<1>7. Accounted'
  <2>1. users' \subseteq rules'
    <3>1. CASE backend = "netsh"
      BY <1>1, <1>5, <1>6, <3>1 DEF Accounted, Typed, UsersRule
    <3>2. CASE backend = "ufw"
      <4>1. RuleOf(jobs[a].entry) \notin users
        BY <1>3, <1>6, <3>2 DEF Certain, At, Entry
      <4> QED
        BY <1>1, <1>6, <3>2, <4>1 DEF Accounted
    <3> QED
      BY <1>3, <3>1, <3>2
  <2>2. ASSUME NEW r \in rules', r \notin users' PROVE r \in Owed'
    <3>1. r \in Owed
      BY <1>1, <1>6, <2>2 DEF Accounted
    <3> QED
      BY <1>1, <1>2, <1>3, <3>1 DEF Owed, At, Entry, RuleOf
  <2> QED
    BY <2>1, <2>2 DEF Accounted
<1>8. Apart'
  BY <1>1, <1>2, <1>3, <1>4, <1>6 DEF Apart, Idle, Entry
<1>9. Backing'
  <2> SUFFICES ASSUME backend = "ufw", NEW e \in record
               PROVE  /\ RuleOf(e) \notin users
                      /\ RuleOf(e) \in rules' \/ \E b \in Actors : jobs'[b].step = "erase" /\ jobs'[b].entry.port = e.port
    BY <1>1 DEF Backing, At, Entry, RuleOf
  <2>1. /\ RuleOf(e) \notin users
        /\ RuleOf(e) \in rules \/ \E b \in Actors : jobs[b].step = "erase" /\ jobs[b].entry.port = e.port
    BY <1>6 DEF Backing, At, Entry
  <2>2. CASE RuleOf(e) = RuleOf(jobs[a].entry)
    <3>1. jobs[a].entry.port = e.port
      BY <2>2 DEF RuleOf
    <3> QED
      BY <1>4, <2>1, <3>1
  <2>3. CASE RuleOf(e) # RuleOf(jobs[a].entry)
    BY <1>1, <1>2, <1>3, <2>1, <2>3
  <2> QED
    BY <2>2, <2>3
<1>10. ASSUME NEW b \in Actors PROVE Certain(b)'
  <2>1. Certain(b)
    BY <1>6
  <2>2. CASE b = a
    <3>1. RuleOf(jobs[a].entry) \notin rules'
      BY <1>1, <1>5 DEF RuleOf
    <3> QED
      BY <1>1, <1>3, <1>4, <2>1, <2>2, <3>1 DEF Certain, At, Entry, RuleOf
  <2>3. CASE b # a
    <3>1. jobs[b].step # "idle" => jobs[b].entry.port # jobs[a].entry.port
      BY <1>3, <1>6, <2>3 DEF Apart, Idle, Entry
    <3>2. rules' \subseteq rules
      BY <1>1
    <3>3. jobs[b].step # "idle" => RuleOf(jobs[b].entry) # RuleOf(jobs[a].entry)
      BY <3>1 DEF RuleOf
    <3>4. backend = "ufw" => rules' = rules \ {RuleOf(jobs[a].entry)}
      BY <1>1
    <3> QED
      BY <1>1, <1>2, <2>1, <2>3, <3>2, <3>3, <3>4 DEF Certain, At, Entry, RuleOf
  <2> QED
    BY <2>2, <2>3
<1> QED
  BY <1>7, <1>8, <1>9, <1>10

\* The entry that is erased has lost its rule before.
LEMMA ErasesAccounted ==
    ASSUME Typed, Account, UNCHANGED system, NEW a \in Actors, ErasesEntry(a)
    PROVE  Account'
<1> SUFFICES ASSUME Ok' PROVE (Accounted /\ Apart /\ Backing /\ \A b \in Actors : Certain(b))'
  BY DEF Account
<1> USE DEF system
<1>1. /\ Ok /\ UNCHANGED <<rules, users>>
      /\ record' = {e \in record : e.port # jobs[a].entry.port}
  BY DEF ErasesEntry, Ok, Entry
<1>2. \A b \in Actors : b # a => jobs'[b] = jobs[b]
  BY DEF ErasesEntry, Typed, Ends
<1>3. jobs[a].step = "erase" /\ ~Idle(a) /\ jobs'[a] = [step |-> "idle"]
  BY DEF ErasesEntry, At, Idle, Ends, NoJob, Typed
<1>4. Accounted /\ Apart /\ Backing /\ \A b \in Actors : Certain(b)
  BY <1>1 DEF Account
<1>5. /\ \A e \in record : e.port = jobs[a].entry.port => e = jobs[a].entry
      /\ RuleOf(jobs[a].entry) \notin rules
  BY <1>3, <1>4 DEF Certain, At, Entry
<1>6. Accounted'
  <2>1. users' \subseteq rules'
    BY <1>1, <1>4 DEF Accounted
  <2>2. ASSUME NEW r \in rules', r \notin users' PROVE r \in Owed'
    <3>1. r \in Owed /\ r # RuleOf(jobs[a].entry)
      BY <1>1, <1>4, <1>5, <2>2 DEF Accounted
    <3>2. \/ \E e \in record : r = RuleOf(e) /\ e.port # jobs[a].entry.port
          \/ \E b \in Actors : b # a /\ (At(b, "record") \/ At(b, "write")) /\ r = RuleOf(Entry(b))
      BY <1>3, <1>5, <3>1 DEF Owed, At
    <3> QED
      BY <1>1, <1>2, <3>2 DEF Owed, At, Entry, RuleOf
  <2> QED
    BY <2>1, <2>2 DEF Accounted
<1>7. Apart'
  <2>1. \A d, e \in record' : d.port = e.port => d = e
    BY <1>1, <1>4 DEF Apart
  <2>2. \A b, c \in Actors : jobs'[b].step # "idle" /\ jobs'[c].step # "idle" /\ b # c
          => jobs'[b].entry.port # jobs'[c].entry.port
    BY <1>2, <1>3, <1>4 DEF Apart, Idle, Entry
  <2> QED
    BY <2>1, <2>2 DEF Apart, Idle, Entry
<1>8. Backing'
  <2> SUFFICES ASSUME backend = "ufw", NEW e \in record, e.port # jobs[a].entry.port
               PROVE  /\ RuleOf(e) \notin users
                      /\ RuleOf(e) \in rules \/ \E b \in Actors : jobs'[b].step = "erase" /\ jobs'[b].entry.port = e.port
    BY <1>1 DEF Backing, At, Entry, RuleOf
  <2>1. /\ RuleOf(e) \notin users
        /\ RuleOf(e) \in rules \/ \E b \in Actors : jobs[b].step = "erase" /\ jobs[b].entry.port = e.port
    BY <1>4 DEF Backing, At, Entry
  <2> QED
    BY <1>2, <2>1
<1>9. ASSUME NEW b \in Actors PROVE Certain(b)'
  <2>1. CASE b = a
    BY <1>3, <2>1 DEF Certain, At
  <2>2. CASE b # a
    BY <1>1, <1>2, <1>4, <2>2 DEF Certain, At, Entry, RuleOf
  <2> QED
    BY <2>1, <2>2
<1> QED
  BY <1>6, <1>7, <1>8, <1>9

\* A failing command leaves a rule and its entry together.
LEMMA FailsAccounted ==
    ASSUME Typed, Account, UNCHANGED system, NEW a \in Actors, CommandFails(a)
    PROVE  Account'
<1> SUFFICES ASSUME Ok' PROVE (Accounted /\ Apart /\ Backing /\ \A b \in Actors : Certain(b))'
  BY DEF Account
<1> USE DEF system
<1>1. Ok /\ UNCHANGED <<rules, users, record>>
  BY DEF CommandFails, Ok
<1>2. \A b \in Actors : b # a => jobs'[b] = jobs[b]
  BY DEF CommandFails, Typed, Ends
<1>3. jobs[a].step \in {"check", "allow", "unname", "delete"} /\ jobs'[a] = [step |-> "idle"]
  BY DEF CommandFails, Ends, NoJob, Typed, Ok
<1>4. Accounted /\ Apart /\ Backing /\ \A b \in Actors : Certain(b)
  BY <1>1 DEF Account
<1>5. Accounted'
  BY <1>1, <1>2, <1>3, <1>4 DEF Accounted, Owed, At, Entry, RuleOf
<1>6. Apart'
  BY <1>1, <1>2, <1>3, <1>4 DEF Apart, Idle, Entry
<1>7. Backing'
  BY <1>1, <1>2, <1>3, <1>4, BackingStays
<1>8. ASSUME NEW b \in Actors PROVE Certain(b)'
  BY <1>1, <1>2, <1>3, <1>4 DEF Certain, At, Entry, RuleOf
<1> QED
  BY <1>5, <1>6, <1>7, <1>8

\* A call that begins while none is busy with its port.
LEMMA BeginsAccounted ==
    ASSUME Typed, Account, UNCHANGED system, NEW a \in Actors, NEW port, NEW name, NEW enabled,
           Begins(a, port, name, enabled)
    PROVE  Account'
<1> SUFFICES ASSUME Ok' PROVE (Accounted /\ Apart /\ Backing /\ \A b \in Actors : Certain(b))'
  BY DEF Account
<1> USE DEF system
<1>1. Ok /\ ~Busy(port) /\ UNCHANGED <<rules, users, record>>
  BY DEF Begins, Ok
<1>2. \A b \in Actors : b # a => jobs'[b] = jobs[b]
  BY DEF Begins, Typed
<1>3. jobs[a].step = "idle"
  BY DEF Begins, Idle
<1>4. \/ jobs'[a] = [step |-> "idle"]
      \/ /\ jobs'[a].step \in {"check", "lookup", "unname"} \/ (jobs'[a].step = "allow" /\ backend = "netsh")
         /\ jobs'[a].entry.port = port
  BY DEF Begins, Typed, Job, NoJob
<1>5. Accounted /\ Apart /\ Backing /\ \A b \in Actors : Certain(b)
  BY <1>1 DEF Account
<1>6. Accounted'
  BY <1>1, <1>2, <1>3, <1>5 DEF Accounted, Owed, At, Entry, RuleOf
<1>7. Apart'
  <2>1. \A b \in Actors : b # a /\ jobs[b].step # "idle" => jobs[b].entry.port # port
    BY <1>1 DEF Busy, Idle
  <2> QED
    BY <1>1, <1>2, <1>4, <1>5, <2>1 DEF Apart, Idle, Entry
<1>8. Backing'
  BY <1>1, <1>2, <1>3, <1>5, BackingStays
<1>9. ASSUME NEW b \in Actors PROVE Certain(b)'
  <2>1. CASE b = a
    BY <1>4, <2>1 DEF Certain, At
  <2>2. CASE b # a
    BY <1>1, <1>2, <1>5, <2>2 DEF Certain, At, Entry, RuleOf
  <2> QED
    BY <2>1, <2>2
<1> QED
  BY <1>6, <1>7, <1>8, <1>9

\* The crash of the process cuts every call off.
LEMMA InterruptedAccounted ==
    ASSUME Typed, Account, UNCHANGED system, Interrupted
    PROVE  Account'
<1> SUFFICES ASSUME Ok' PROVE (Accounted /\ Apart /\ Backing /\ \A b \in Actors : Certain(b))'
  BY DEF Account
<1> USE DEF system
<1>1. Ok /\ UNCHANGED <<rules, users, record>>
  BY DEF Interrupted, Ok
<1>2. \A b \in Actors : jobs[b].step \notin {"record", "write", "erase"} /\ jobs'[b].step = "idle"
  BY DEF Interrupted, NoJob, Ok
<1>3. Accounted /\ Apart /\ Backing
  BY <1>1 DEF Account
<1> QED
  BY <1>1, <1>2, <1>3 DEF Accounted, Owed, Apart, Backing, Certain, At, Entry, RuleOf, Idle

\* The user opens a port no call is busy with.
LEMMA UserOpensAccounted ==
    ASSUME Typed, Account, UNCHANGED system, NEW p \in Ports, UserOpens(p)
    PROVE  Account'
<1> SUFFICES ASSUME Ok' PROVE (Accounted /\ Apart /\ Backing /\ \A b \in Actors : Certain(b))'
  BY DEF Account
<1> USE DEF system
<1>1. /\ Ok /\ ~Busy(p) /\ UNCHANGED <<record, jobs>> /\ UsersRule(p) \notin rules
      /\ rules' = rules \cup {UsersRule(p)} /\ users' = users \cup {UsersRule(p)}
  BY DEF UserOpens, Ok
<1>2. Accounted /\ Apart /\ Backing /\ \A b \in Actors : Certain(b)
  BY <1>1 DEF Account
<1>3. \A b \in Actors : jobs[b].step # "idle" => jobs[b].entry.port # p
  BY <1>1 DEF Busy, Idle
<1>4. UsersRule(p).port = p
  BY DEF UsersRule
<1>5. \A b \in Actors : jobs[b].step # "idle" => RuleOf(jobs[b].entry) # UsersRule(p)
  BY <1>3, <1>4 DEF RuleOf
<1>6. Accounted'
  BY <1>1, <1>2 DEF Accounted, Owed, At, Entry, RuleOf
<1>7. Apart'
  BY <1>1, <1>2 DEF Apart, Idle, Entry
<1>8. Backing'
  <2> SUFFICES ASSUME backend = "ufw", NEW e \in record
               PROVE  /\ RuleOf(e) \notin users'
                      /\ RuleOf(e) \in rules' \/ \E b \in Actors : jobs[b].step = "erase" /\ jobs[b].entry.port = e.port
    BY <1>1 DEF Backing, At, Entry, RuleOf
  <2>1. /\ RuleOf(e) \notin users
        /\ RuleOf(e) \in rules \/ \E b \in Actors : jobs[b].step = "erase" /\ jobs[b].entry.port = e.port
    BY <1>2 DEF Backing, At, Entry
  <2>2. RuleOf(e) # UsersRule(p)
    <3> SUFFICES ASSUME RuleOf(e) = UsersRule(p) PROVE FALSE
      OBVIOUS
    <3>1. e.port = p
      BY <1>4 DEF RuleOf
    <3> QED
      BY <1>1, <1>3, <2>1, <3>1
  <2> QED
    BY <1>1, <2>1, <2>2
<1>9. ASSUME NEW b \in Actors PROVE Certain(b)'
  BY <1>1, <1>2, <1>5 DEF Certain, At, Entry, RuleOf
<1> QED
  BY <1>6, <1>7, <1>8, <1>9

\* The uninstaller, when no call is under way.
LEMMA RemovesAccounted ==
    ASSUME Typed, Account, UNCHANGED system, Quiet, NEW failing \in SUBSET record, RemovesOwned(failing)
    PROVE  Account'
<1> SUFFICES ASSUME Ok' PROVE (Accounted /\ Apart /\ Backing /\ \A b \in Actors : Certain(b))'
  BY DEF Account
<1> USE DEF system
<1>1. /\ Ok /\ UNCHANGED <<users, jobs>> /\ record' = failing
      /\ rules' = {r \in rules : ~\E e \in record \ failing :
                                    IF backend = "netsh" THEN r.name = e.name ELSE r = RuleOf(e)}
  BY DEF RemovesOwned, Ok
<1>2. Accounted /\ Apart /\ Backing
  BY <1>1 DEF Account
<1>3. \A b \in Actors : jobs[b].step = "idle"
  BY DEF Quiet, Idle
<1>4. rules \ users \subseteq {RuleOf(e) : e \in record}
  BY <1>2, <1>3 DEF Accounted, Owed, At
<1>5. \A e \in record : e.name # "user"
  BY DEF Typed, Entries
<1>6. users' \subseteq rules'
  <2> SUFFICES ASSUME NEW r \in users, NEW e \in record \ failing
               PROVE  ~(IF backend = "netsh" THEN r.name = e.name ELSE r = RuleOf(e))
    BY <1>1, <1>2 DEF Accounted
  <2>1. CASE backend = "netsh"
    BY <1>5, <2>1 DEF Typed, UsersRule
  <2>2. CASE backend # "netsh"
    BY <1>2, <2>2 DEF Typed, Backing
  <2> QED
    BY <2>1, <2>2
<1>7. ASSUME NEW r \in rules', r \notin users' PROVE \E e \in failing : r = RuleOf(e)
  <2>1. PICK e \in record : r = RuleOf(e)
    BY <1>1, <1>4, <1>7
  <2>2. backend = "netsh" => r.name = e.name
    BY <2>1 DEF RuleOf
  <2> QED
    BY <1>1, <2>1, <2>2
<1>8. Accounted'
  BY <1>1, <1>6, <1>7 DEF Accounted, Owed, RuleOf
<1>9. Apart'
  BY <1>1, <1>2, <1>3 DEF Apart, Idle
<1>10. Backing'
  <2> SUFFICES ASSUME backend = "ufw", NEW d \in failing
               PROVE  RuleOf(d) \notin users /\ RuleOf(d) \in rules'
    BY <1>1 DEF Backing, RuleOf
  <2>1. RuleOf(d) \notin users /\ RuleOf(d) \in rules
    BY <1>2, <1>3 DEF Backing, At
  <2>2. \A e \in record \ failing : RuleOf(e) # RuleOf(d)
    BY <1>2 DEF Apart, RuleOf
  <2> QED
    BY <1>1, <2>1, <2>2
<1>11. ASSUME NEW b \in Actors PROVE Certain(b)'
  BY <1>1, <1>3 DEF Certain, At
<1> QED
  BY <1>8, <1>9, <1>10, <1>11

\* The account is of the firewall, and of nothing else of the state.
LEMMA AccountStays ==
    ASSUME Account, UNCHANGED <<system, firewall>>
    PROVE  Account'
<1> USE DEF system, firewall
<1>1. (Ok' => Ok) /\ (Accounted => Accounted') /\ (Apart => Apart') /\ (Backing => Backing')
  BY DEF Ok, Accounted, Owed, Apart, Backing, At, Entry, RuleOf, Idle
<1>2. \A b \in Actors : Certain(b) => Certain(b)'
  BY DEF Certain, At, Entry, RuleOf
<1> QED
  BY <1>1, <1>2 DEF Account

-----------------------------------------------------------------------------
\* A call that takes a step is under way.
LEMMA StepIsBusy ==
    ASSUME NEW a \in Actors, ApplyStep(a)
    PROVE  ~Idle(a)
BY DEF ApplyStep, Idle, At, Checks, Allows, ReadsRecord, WritesRecord, Unnames, LooksUp,
       DeletesRule, ErasesEntry, CommandFails

\* What a step does to the rules and the record, and to its own call.
LEMMA StepTyped ==
    ASSUME Typed, UNCHANGED system, NEW a \in Actors, ApplyStep(a)
    PROVE  Typed'
<1> USE DEF system
<1>1. /\ jobs[a] \in [step: Steps, entry: Entries, existed: BOOLEAN, seen: SUBSET Entries]
      /\ jobs[a].entry \in Entries
  BY StepIsBusy, JobIsTyped DEF Entry
<1>2. backend \in {"ufw", "netsh"}
  BY StepIsBusy DEF Typed
<1>3. /\ record' \subseteq Entries /\ users' = users
      /\ rules' \subseteq rules \cup {RuleOf(e) : e \in Entries}
  <2>1. CASE Checks(a) \/ ReadsRecord(a) \/ LooksUp(a) \/ CommandFails(a)
    BY <2>1 DEF Checks, ReadsRecord, LooksUp, CommandFails, Typed
  <2>2. CASE Allows(a)
    BY <1>1, <2>2 DEF Allows, Typed, Entry
  <2>3. CASE WritesRecord(a)
    BY <1>1, <2>3 DEF WritesRecord, Typed, Entry
  <2>4. CASE ErasesEntry(a)
    BY <1>1, <2>4 DEF ErasesEntry, Typed, Entry
  <2>5. CASE Unnames(a) \/ DeletesRule(a)
    BY <2>5 DEF Unnames, DeletesRule, Typed, Without, Unnamed
  <2> QED
    BY <2>1, <2>2, <2>3, <2>4, <2>5 DEF ApplyStep
<1>4. \E j \in Jobs : /\ jobs' = [jobs EXCEPT ![a] = j]
                      /\ j.step # "check" /\ j.step # "unname"
                      /\ j.step = "allow" => backend = "ufw"
  <2>0. CASE Ends(a)
    <3>1. jobs' = [jobs EXCEPT ![a] = NoJob]
      BY <2>0 DEF Ends
    <3>2. NoJob \in Jobs /\ NoJob.step = "idle"
      BY DEF Jobs, NoJob
    <3> QED
      BY <3>1, <3>2
  <2>1. CASE WritesRecord(a) \/ ErasesEntry(a) \/ CommandFails(a)
    BY <2>0, <2>1 DEF WritesRecord, ErasesEntry, CommandFails
  <2>2. CASE Checks(a)
    <3> DEFINE j == [jobs[a] EXCEPT !.step = "allow", !.existed = active /\ RuleFor(Entry(a).port)]
    <3>1. jobs' = [jobs EXCEPT ![a] = j]
      BY <2>2 DEF Checks, Typed
    <3>2. j \in Jobs /\ j.step = "allow"
      BY <1>1 DEF Jobs, Steps
    <3>3. backend = "ufw"
      BY <2>2 DEF Checks, Typed
    <3> QED
      BY <3>1, <3>2, <3>3
  <2>3. CASE Allows(a)
    <3>1. CASE jobs[a].existed
      BY <2>0, <2>3, <3>1 DEF Allows
    <3>2. CASE ~jobs[a].existed
      <4> DEFINE j == [jobs[a] EXCEPT !.step = "record"]
      <4>1. jobs' = [jobs EXCEPT ![a] = j]
        BY <2>3, <3>2 DEF Allows, Goes, Typed
      <4>2. j \in Jobs /\ j.step = "record"
        BY <1>1 DEF Jobs, Steps
      <4> QED
        BY <4>1, <4>2
    <3> QED
      BY <3>1, <3>2
  <2>4. CASE ReadsRecord(a)
    <3> DEFINE j == [jobs[a] EXCEPT !.step = "write", !.seen = record]
    <3>1. jobs' = [jobs EXCEPT ![a] = j]
      BY <2>4 DEF ReadsRecord, Typed
    <3>2. j \in Jobs /\ j.step = "write"
      BY <1>1 DEF Jobs, Steps, Typed
    <3> QED
      BY <3>1, <3>2
  <2>5. CASE Unnames(a)
    <3> DEFINE j == [jobs[a] EXCEPT !.step = "lookup"]
    <3>1. jobs' = [jobs EXCEPT ![a] = j]
      BY <2>5 DEF Unnames, Goes, Typed
    <3>2. j \in Jobs /\ j.step = "lookup"
      BY <1>1 DEF Jobs, Steps
    <3> QED
      BY <3>1, <3>2
  <2>6. CASE DeletesRule(a)
    <3> DEFINE j == [jobs[a] EXCEPT !.step = "erase"]
    <3>1. jobs' = [jobs EXCEPT ![a] = j]
      BY <2>6 DEF DeletesRule, Goes, Typed
    <3>2. j \in Jobs /\ j.step = "erase"
      BY <1>1 DEF Jobs, Steps
    <3> QED
      BY <3>1, <3>2
  <2>7. CASE LooksUp(a)
    <3>2. CASE \E e \in record : jobs' = [jobs EXCEPT ![a] = [Job("delete", e) EXCEPT !.seen = record]]
      <4>1. PICK e \in record : jobs' = [jobs EXCEPT ![a] = [Job("delete", e) EXCEPT !.seen = record]]
        BY <3>2
      <4> DEFINE j == [Job("delete", e) EXCEPT !.seen = record]
      <4>2. j \in Jobs /\ j.step = "delete"
        BY DEF Job, Jobs, Steps, Typed
      <4> QED
        BY <4>1, <4>2
    <3> QED
      BY <2>0, <2>7, <3>2 DEF LooksUp
  <2> QED
    BY <2>1, <2>2, <2>3, <2>4, <2>5, <2>6, <2>7 DEF ApplyStep
<1>5. PICK j \in Jobs : /\ jobs' = [jobs EXCEPT ![a] = j]
                        /\ j.step # "check" /\ j.step # "unname"
                        /\ j.step = "allow" => backend = "ufw"
  BY <1>4
<1>6. jobs' \in [Actors -> Jobs]
  BY <1>5 DEF Typed
<1>7. \A b \in Actors :
        /\ jobs'[b].step = "check" => backend = "ufw"
        /\ jobs'[b].step = "unname" => backend = "netsh"
        /\ jobs'[b].step = "allow" /\ backend = "netsh" => ~jobs'[b].existed
  BY <1>5 DEF Typed, At
<1>8. rules' \subseteq users' \cup {RuleOf(e) : e \in Entries}
  BY <1>3 DEF Typed
<1> QED
  BY <1>2, <1>3, <1>6, <1>7, <1>8 DEF Typed, UsersRule, RuleOf, At, Idle

\* A call begins with the first step of its firewall.
LEMMA BeginsTyped ==
    ASSUME Typed, UNCHANGED system, NEW a \in Actors, NEW port \in Ports, NEW name \in {"subscription", "proxy"},
           NEW enabled, Begins(a, port, name, enabled)
    PROVE  Typed'
<1> USE DEF system
<1> DEFINE entry == [port |-> port, name |-> name]
           j == CASE backend = "ufw" -> Job(IF enabled THEN "check" ELSE "lookup", entry)
                  [] backend = "netsh" -> Job(IF enabled THEN "allow" ELSE "unname", entry)
                  [] OTHER -> NoJob
<1>1. jobs' = [jobs EXCEPT ![a] = j] /\ UNCHANGED <<rules, users, record>>
  BY DEF Begins
<1>2. /\ j \in Jobs
      /\ backend = "other" => j.step = "idle"
      /\ j.step = "check" => backend = "ufw"
      /\ j.step = "unname" => backend = "netsh"
      /\ j.step = "allow" => ~j.existed
  <2>1. entry \in Entries
    BY DEF Entries
  <2>2. CASE backend = "ufw"
    <3>1. j = Job("check", entry) \/ j = Job("lookup", entry)
      BY <2>2
    <3> QED
      BY <2>1, <2>2, <3>1 DEF Job, Jobs, Steps
  <2>3. CASE backend = "netsh"
    <3>1. j = Job("allow", entry) \/ j = Job("unname", entry)
      BY <2>3
    <3> QED
      BY <2>1, <2>3, <3>1 DEF Job, Jobs, Steps
  <2>4. CASE backend = "other"
    BY <2>4 DEF NoJob, Jobs
  <2> QED
    BY <2>2, <2>3, <2>4 DEF Typed
<1> HIDE DEF j
<1>3. jobs' \in [Actors -> Jobs]
  BY <1>1, <1>2 DEF Typed
<1>4. \A b \in Actors :
        /\ backend = "other" => jobs'[b].step = "idle"
        /\ jobs'[b].step = "check" => backend = "ufw"
        /\ jobs'[b].step = "unname" => backend = "netsh"
        /\ jobs'[b].step = "allow" /\ backend = "netsh" => ~jobs'[b].existed
  BY <1>1, <1>2 DEF Typed, At, Idle
<1> QED
  BY <1>1, <1>3, <1>4 DEF Typed, UsersRule, RuleOf, At, Idle

\* The other changes of the rules, the record and the calls.
LEMMA OtherwiseTyped ==
    ASSUME Typed, UNCHANGED system,
           \/ UNCHANGED firewall
           \/ Interrupted
           \/ \E p \in Ports : UserOpens(p)
           \/ \E failing \in SUBSET record : RemovesOwned(failing)
    PROVE  Typed'
<1> USE DEF system
<1>1. CASE UNCHANGED firewall
  BY <1>1 DEF firewall, Typed, UsersRule, RuleOf, At, Idle
<1>2. CASE Interrupted
  <2>1. NoJob \in Jobs /\ NoJob.step = "idle"
    BY DEF Jobs, NoJob
  <2>2. UNCHANGED <<rules, users, record>> /\ jobs' = [b \in Actors |-> NoJob]
    BY <1>2 DEF Interrupted
  <2> QED
    BY <2>1, <2>2 DEF Typed, UsersRule, RuleOf, At, Idle
<1>3. ASSUME NEW p \in Ports, UserOpens(p) PROVE Typed'
  BY <1>3 DEF UserOpens, Typed, UsersRule, RuleOf, At, Idle
<1>4. ASSUME NEW failing \in SUBSET record, RemovesOwned(failing) PROVE Typed'
  BY <1>4 DEF RemovesOwned, Typed, UsersRule, RuleOf, At, Idle
<1> QED
  BY <1>1, <1>2, <1>3, <1>4

-----------------------------------------------------------------------------
\* What a step of the system does to the firewall: nothing, a step of one call
\* or the beginning of one, a crash, the user's rule, the uninstaller.
FirewallSteps ==
    \/ UNCHANGED firewall
    \/ \E a \in Actors : ApplyStep(a)
    \/ \E a \in Actors, port \in Ports, name \in {"subscription", "proxy"}, enabled \in BOOLEAN :
          Begins(a, port, name, enabled)
    \/ Interrupted
    \/ \E p \in Ports : UserOpens(p)
    \/ Quiet /\ \E failing \in SUBSET record : RemovesOwned(failing)

\* The steps of the system as the firewall sees them.
LEMMA NextOnFirewall ==
    ASSUME Service, Next
    PROVE  UNCHANGED system /\ FirewallSteps
<1>1. CASE Starts \/ Stops \/ Edits \/ LanTick \/ ListsInterfaces \/ NetChanges \/ UninstallsFiles \/ HandsOut
  BY <1>1 DEF Starts, Stops, Edits, LanTick, ListsInterfaces, NetChanges, UninstallsFiles, HandsOut, Draws, Copies, Passes, FirewallSteps
<1>2. CASE StartupApplies
  <2>1. todo[1] \in Entries /\ "startup" \in Actors
    BY <1>2, ActorsKnown DEF StartupApplies, Service
  <2> QED
    BY <1>2, <2>1 DEF StartupApplies, Passes, FirewallSteps, Entries
<1>3. ASSUME NEW a \in {"tui", "web"}, SwitchesSharing(a) \/ SwitchesProxy(a)
      PROVE  UNCHANGED system /\ FirewallSteps
  <2>1. a \in Actors /\ config.port \in Ports /\ config.proxyPort \in Ports /\ config.sharing \in BOOLEAN
    BY ActorsKnown DEF Service, ConfigType
  <2>2. CASE SwitchesSharing(a)
    <3>1. PICK on \in IF a = "web" THEN {~config.sharing} ELSE BOOLEAN : Begins(a, config.port, "subscription", on)
      BY <2>2 DEF SwitchesSharing
    <3>2. on \in BOOLEAN
      BY <2>1, <3>1
    <3> QED
      BY <2>1, <2>2, <3>1, <3>2 DEF SwitchesSharing, Passes, FirewallSteps
  <2>3. CASE SwitchesProxy(a)
    <3>1. PICK mode \in {"off", "local", "lan"} : Begins(a, config.proxyPort, "proxy", mode = "lan")
      BY <2>3 DEF SwitchesProxy
    <3>2. (mode = "lan") \in BOOLEAN
      OBVIOUS
    <3> QED
      BY <2>1, <2>3, <3>1, <3>2 DEF SwitchesProxy, Passes, FirewallSteps
  <2> QED
    BY <1>3, <2>2, <2>3
<1>4. CASE Crashes
  BY <1>4 DEF Crashes, Passes, FirewallSteps
<1>5. CASE UserActs
  BY <1>5 DEF UserActs, Passes, FirewallSteps
<1>6. CASE Applies
  BY <1>6 DEF Applies, Passes, FirewallSteps
<1>7. CASE UninstallsRules
  BY <1>7 DEF UninstallsRules, Service, Passes, FirewallSteps
<1> QED
  BY <1>1, <1>2, <1>3, <1>4, <1>5, <1>6, <1>7 DEF Next, Happens

\* Every step of the system keeps the account.
LEMMA NextAccounted ==
    ASSUME Typed, Service, Account, Next
    PROVE  Typed' /\ Account'
<1>1. UNCHANGED system /\ FirewallSteps
  BY NextOnFirewall
<1>2. CASE UNCHANGED firewall
  BY <1>1, <1>2, OtherwiseTyped, AccountStays
<1>3. ASSUME NEW a \in Actors, ApplyStep(a) PROVE Typed' /\ Account'
  BY <1>1, <1>3, StepTyped, ChecksAccounted, AllowsAccounted, ReadsAccounted, WritesAccounted,
     UnnamesAccounted, LooksUpAccounted, DeletesAccounted, ErasesAccounted, FailsAccounted DEF ApplyStep
<1>4. ASSUME NEW a \in Actors, NEW port \in Ports, NEW name \in {"subscription", "proxy"},
             NEW enabled \in BOOLEAN, Begins(a, port, name, enabled)
      PROVE  Typed' /\ Account'
  BY <1>1, <1>4, BeginsTyped, BeginsAccounted
<1>5. CASE Interrupted
  BY <1>1, <1>5, OtherwiseTyped, InterruptedAccounted
<1>6. ASSUME NEW p \in Ports, UserOpens(p) PROVE Typed' /\ Account'
  BY <1>1, <1>6, OtherwiseTyped, UserOpensAccounted
<1>7. ASSUME Quiet, NEW failing \in SUBSET record, RemovesOwned(failing) PROVE Typed' /\ Account'
  BY <1>1, <1>7, OtherwiseTyped, RemovesAccounted
<1> QED
  BY <1>1, <1>2, <1>3, <1>4, <1>5, <1>6, <1>7 DEF FirewallSteps

\* A change of a preference leaves the others.
LEMMA PreferencesStay ==
    ASSUME config \in ConfigType
    PROVE  /\ \A on \in BOOLEAN : [config EXCEPT !.sharing = on] \in ConfigType
           /\ \A mode \in {"off", "local", "lan"} : [config EXCEPT !.proxy = mode] \in ConfigType
           /\ [config EXCEPT !.sharing = ~@] \in ConfigType
           /\ \A c \in Configs : Edited(c) \in ConfigType
BY ConfigsKnown DEF ConfigType, Edited

\* No call is under way without the service, and no entry is made after the
\* uninstaller has begun.
LEMMA NextServed ==
    ASSUME Typed, Service, Next
    PROVE  Service'
<1>1. CASE Starts
  <2>1. PICK on \in BOOLEAN :
           /\ config' = [config EXCEPT !.sharing = on]
           /\ todo' = (IF on THEN <<SubscriptionRule(config)>> ELSE <<>>)
                      \o (IF config.proxy = "lan" THEN <<ProxyRule(config)>> ELSE <<>>)
    BY <1>1 DEF Starts
  <2>2. SubscriptionRule(config) \in Entries /\ ProxyRule(config) \in Entries
    BY DEF Service, ConfigType, Entries, SubscriptionRule, ProxyRule
  <2>3. todo' \in Seq(Entries)
    BY <2>1, <2>2
  <2> QED
    BY <1>1, <2>1, <2>3, PreferencesStay DEF Starts, Service
<1>2. CASE StartupApplies
  <2>1. /\ todo # <<>> /\ todo' = Tail(todo)
        /\ UNCHANGED <<running, config, net, leaving, record>>
    BY <1>2 DEF StartupApplies, Begins, disk
  <2>2. todo' \in Seq(Entries)
    BY <2>1 DEF Service
  <2>3. running
    BY <2>1 DEF Service
  <2> QED
    BY <2>1, <2>2, <2>3 DEF Service
<1>3. CASE Stops
  BY <1>3 DEF Stops, Down, Service, firewall, Quiet, Idle
<1>4. CASE Crashes
  <2>1. NoJob.step = "idle"
    BY DEF NoJob
  <2> QED
    BY <1>4, <2>1 DEF Crashes, Down, Interrupted, Service, disk, Quiet, Idle
<1>5. ASSUME NEW a \in {"tui", "web"}, SwitchesSharing(a) \/ SwitchesProxy(a) PROVE Service'
  <2>1. running /\ UNCHANGED <<running, net, todo, leaving, record>>
    BY <1>5 DEF SwitchesSharing, SwitchesProxy, disk, Begins
  <2>2. config' \in ConfigType
    <3>1. CASE SwitchesSharing(a)
      <4>1. PICK on \in IF a = "web" THEN {~config.sharing} ELSE BOOLEAN : config' = [config EXCEPT !.sharing = on]
        BY <3>1 DEF SwitchesSharing
      <4>2. on \in BOOLEAN
        BY <4>1 DEF Service, ConfigType
      <4> QED
        BY <4>1, <4>2, PreferencesStay DEF Service
    <3>2. CASE SwitchesProxy(a)
      BY <3>2, PreferencesStay DEF SwitchesProxy, Service
    <3> QED
      BY <1>5, <3>1, <3>2
  <2> QED
    BY <2>1, <2>2 DEF Service
<1>6. CASE Edits
  <2>1. running /\ UNCHANGED <<running, net, todo, leaving, record>>
    BY <1>6 DEF Edits, firewall, disk
  <2>2. config' \in ConfigType
    BY <1>6, PreferencesStay DEF Edits, Service
  <2> QED
    BY <2>1, <2>2 DEF Service
<1>7. CASE LanTick \/ ListsInterfaces \/ NetChanges
  BY <1>7 DEF LanTick, ListsInterfaces, NetChanges, Service, firewall, disk, Quiet, Idle
<1>8. CASE UserActs
  BY <1>8 DEF UserActs, UserOpens, offer, disk, Service, Quiet, Idle
<1>9. CASE Applies
  <2>1. running /\ UNCHANGED <<running, config, net, todo, leaving>>
    BY <1>9, StepIsBusy DEF Applies, Service, Quiet, offer, disk
  <2> QED
    BY <2>1 DEF Service
<1>10. CASE UninstallsRules
  BY <1>10 DEF UninstallsRules, RemovesOwned, Service, offer, Quiet, Idle
<1>11. CASE UninstallsFiles
  BY <1>11 DEF UninstallsFiles, Service, firewall, offer, Quiet, Idle
<1>12. CASE HandsOut
  BY <1>12 DEF HandsOut, Draws, Copies, Service, firewall, offer, disk, Quiet, Idle
<1> QED
  BY <1>1, <1>2, <1>3, <1>4, <1>5, <1>6, <1>7, <1>8, <1>9, <1>10, <1>11, <1>12 DEF Next, Happens

\* The rules there are at first are the user's.
LEMMA InitAccounted ==
    ASSUME Init
    PROVE  AccountInv
<1>1. PICK w \in Worlds : FirewallInit(w.backend, w.active, w.opened) /\ config = w.config /\ net = w.net
  BY DEF Init
<1>2. /\ w.config \in ConfigType /\ w.net \in Nets
      /\ w.backend \in {"ufw", "netsh", "other"} /\ w.opened \subseteq Ports
  BY WorldsKnown
<1>3. /\ backend = w.backend /\ users = {UsersRule(p) : p \in w.opened} /\ rules = users /\ record = {}
      /\ jobs = [a \in Actors |-> NoJob]
  BY <1>1 DEF FirewallInit
<1>4. NoJob \in Jobs /\ NoJob.step = "idle"
  BY DEF Jobs, NoJob
<1>5. \A a \in Actors : jobs[a].step = "idle"
  BY <1>3, <1>4
<1>6. Typed
  <2>1. jobs \in [Actors -> Jobs]
    BY <1>3, <1>4
  <2>2. users \subseteq {UsersRule(p) : p \in Ports}
    BY <1>2, <1>3
  <2>3. backend \in {"ufw", "netsh", "other"} /\ record \subseteq Entries /\ record = {}
    BY <1>2, <1>3
  <2>4. rules \subseteq users \cup {RuleOf(e) : e \in Entries}
    BY <1>3
  <2> QED
    BY <1>5, <2>1, <2>2, <2>3, <2>4 DEF Typed, At, Idle
<1>7. Service
  BY <1>1, <1>2, <1>3, <1>5 DEF Service, Quiet, Idle, Init
<1>8. Account
  BY <1>3, <1>5 DEF Account, Accounted, Apart, Backing, Certain, At, Idle
<1> QED
  BY <1>6, <1>7, <1>8 DEF AccountInv

\* The account is kept from the start on.
LEMMA AccountHolds == Spec => []AccountInv
<1>1. Init => AccountInv
  BY InitAccounted
<1>2. AccountInv /\ [Next]_vars => AccountInv'
  <2> SUFFICES ASSUME AccountInv, [Next]_vars PROVE AccountInv'
    OBVIOUS
  <2>1. CASE Next
    BY <2>1, NextAccounted, NextServed DEF AccountInv
  <2>2. CASE UNCHANGED vars
    <3>1. UNCHANGED system /\ UNCHANGED firewall
      BY <2>2 DEF vars
    <3>2. Typed' /\ Account'
      BY <3>1, OtherwiseTyped, AccountStays DEF AccountInv
    <3>3. Service'
      BY <2>2 DEF AccountInv, Service, vars, firewall, offer, disk, Quiet, Idle
    <3> QED
      BY <3>2, <3>3 DEF AccountInv
  <2> QED
    BY <2>1, <2>2
<1> QED
  BY <1>1, <1>2, PTL DEF Spec

\* The program knows its own rules and only those (RulesAccounted), however
\* the calls of the terminal, the dashboard and the start-up fall between each
\* other, fail or are cut off (tui/firewall.rs, main.rs:352-390).
THEOREM RulesAreKnown == Spec => []RulesAccounted
<1>1. AccountInv => RulesAccounted
  <2> SUFFICES ASSUME AccountInv, Ok PROVE
         /\ users \subseteq rules
         /\ Quiet /\ leaving = "no" => rules \ users \subseteq {RuleOf(e) : e \in record}
         /\ Quiet /\ backend = "ufw" => {RuleOf(e) : e \in record} \cap users = {}
                                         /\ {RuleOf(e) : e \in record} \subseteq rules
    BY DEF RulesAccounted, Ok
  <2>1. Accounted /\ Backing
    BY DEF AccountInv, Account
  <2>2. Quiet => Owed = {RuleOf(e) : e \in record}
    BY DEF Quiet, Idle, Owed, At
  <2>3. Quiet /\ backend = "ufw" => \A e \in record : RuleOf(e) \notin users /\ RuleOf(e) \in rules
    BY <2>1 DEF Backing, Quiet, Idle, At
  <2> QED
    BY <2>1, <2>2, <2>3 DEF Accounted
<1> QED
  BY <1>1, AccountHolds, PTL

-----------------------------------------------------------------------------
(* The uninstaller.                                                          *)

\* What of the files the uninstaller will take, as long as they stay.
Doomed ==
    IF Root \subseteq KnownEntries THEN Root \cup (IF "exe" \in files THEN {} ELSE files \cap {"appdir"})
    ELSE Root \cap {"config", "db", "cache/db"}

LeftBehind ==
    files \ strange \subseteq
       (IF strange \cap {"foreign", "cache/foreign"} # {} \/ "QRCodes" \in files
          THEN {"wal", "geoip", "QRCodes", "appdir"} ELSE {})
       \cup (IF "exe" \in strange THEN {"appdir"} ELSE {})

\* The targets were named before the rules went, and are still what they were.
DiskInv ==
    /\ files \subseteq Artifacts /\ strange = files \cap {"foreign", "cache/foreign", "exe"}
    /\ leaving = "files" => targets \ {"record", "root"} = Doomed
    /\ leaving \in {"done", "error"} => LeftBehind

\* The targets are of the program's making, but for the record and the root.
LEMMA TargetsAreDoomed ==
    ASSUME files \subseteq Artifacts
    PROVE  UninstallTargets \ {"record", "root"} = Doomed
<1>1. "record" \notin files /\ "root" \notin files
  BY DEF Artifacts
<1> QED
  BY <1>1 DEF UninstallTargets, Doomed, Root

\* The removal leaves what it should.
LEMMA RemovalIsExact ==
    ASSUME DiskInv, leaving = "files", files' = files \ targets, strange' = strange,
           leaving' \in {"done", "error"}
    PROVE  DiskInv'
<1>1. files \subseteq Artifacts /\ "record" \notin files /\ "root" \notin files
  BY DEF DiskInv, Artifacts
<1>2. files' = files \ Doomed
  BY <1>1 DEF DiskInv
<1>3. strange \cap Doomed = {} /\ strange = files \cap {"foreign", "cache/foreign", "exe"}
  BY DEF DiskInv, Doomed, Root, KnownEntries
<1>4. LeftBehind'
  <2>1. CASE Root \subseteq KnownEntries
    <3>1. files' \ strange \subseteq IF "exe" \in strange THEN {"appdir"} ELSE {}
      BY <1>2, <1>3, <2>1 DEF Doomed, Root, KnownEntries
    <3> QED
      BY <3>1 DEF LeftBehind
  <2>2. CASE ~(Root \subseteq KnownEntries)
    <3>1. files' = files \ {"config", "db", "cache/db"}
      BY <1>2, <2>2 DEF Doomed, Root
    <3>2. strange \cap {"foreign", "cache/foreign"} # {} \/ "QRCodes" \in files'
      BY <1>1, <1>3, <2>2, <3>1 DEF Root, KnownEntries, Artifacts
    <3>3. files' \ strange \subseteq {"wal", "geoip", "QRCodes", "appdir"}
      BY <1>1, <1>3, <3>1 DEF Artifacts
    <3> QED
      BY <3>2, <3>3 DEF LeftBehind
  <2> QED
    BY <2>1, <2>2
<1> QED
  BY <1>1, <1>2, <1>3, <1>4 DEF DiskInv

\* What was found beside the program is never among the targets.
LEMMA DiskHolds == Spec => []DiskInv
<1>1. Init => DiskInv
  <2> SUFFICES ASSUME Init PROVE DiskInv
    OBVIOUS
  <2>1. files \subseteq Artifacts
    BY WorldsKnown DEF Init
  <2> QED
    BY <2>1 DEF Init, DiskInv
<1>2. AccountInv /\ DiskInv /\ [Next]_vars => DiskInv'
  <2> SUFFICES ASSUME AccountInv, DiskInv, [Next]_vars PROVE DiskInv'
    OBVIOUS
  <2>1. leaving # "no" => ~running
    BY DEF AccountInv, Service
  <2>2. CASE UNCHANGED disk
    BY <2>2 DEF disk, DiskInv, Doomed, Root, LeftBehind
  <2>3. CASE Starts
    <3>1. files' = files \cup {"db", "wal"} /\ strange' = strange /\ leaving = "no" /\ leaving' = "no"
      BY <2>3 DEF Starts
    <3> QED
      BY <3>1 DEF DiskInv, Artifacts
  <2>4. CASE Stops
    <3>1. files' \in {files, files \ {"wal"}} /\ strange' = strange /\ leaving = "no" /\ leaving' = "no"
      BY <2>1, <2>4 DEF Stops, DiskInv
    <3> QED
      BY <3>1 DEF DiskInv
  <2>5. CASE Draws
    <3>1. files' = files \cup {"QRCodes"} /\ strange' = strange /\ leaving = "no" /\ leaving' = "no"
      BY <2>5 DEF Draws
    <3> QED
      BY <3>1 DEF DiskInv, Artifacts
  <2>6. CASE UninstallsRules
    <3>1. /\ UNCHANGED <<files, strange>> /\ leaving = "no"
          /\ (leaving' = "files" /\ targets' = UninstallTargets) \/ leaving' = "no"
      BY <2>6 DEF UninstallsRules
    <3> QED
      BY <3>1, TargetsAreDoomed DEF DiskInv, Doomed, Root
  <2>7. CASE UninstallsFiles
    BY <2>7, RemovalIsExact DEF UninstallsFiles
  <2>8. CASE \/ StartupApplies \/ Crashes \/ Edits \/ LanTick \/ ListsInterfaces
             \/ NetChanges \/ UserActs \/ Applies \/ Copies
             \/ \E a \in {"tui", "web"} : SwitchesSharing(a) \/ SwitchesProxy(a)
    BY <2>2, <2>8 DEF StartupApplies, Crashes, Edits, LanTick, ListsInterfaces, NetChanges, UserActs, Applies, Copies,
                      SwitchesSharing, SwitchesProxy
  <2>9. CASE UNCHANGED vars
    BY <2>2, <2>9 DEF vars
  <2> QED
    BY <2>3, <2>4, <2>5, <2>6, <2>7, <2>8, <2>9 DEF Next, Happens, HandsOut
<1> QED
  BY <1>1, <1>2, AccountHolds, PTL DEF Spec

\* The uninstaller takes what is the program's and nothing else
\* (UninstallIsExact), whatever was in the directory and whenever the service
\* stopped or crashed before (main.rs:500-755).
THEOREM UninstallTakesItsOwn == Spec => []UninstallIsExact
<1>1. AccountInv /\ DiskInv => UninstallIsExact
  <2> SUFFICES ASSUME AccountInv, DiskInv, leaving \in {"done", "error"}
               PROVE  strange \subseteq files /\ LeftBehind /\ (Ok => rules = users)
    BY DEF UninstallIsExact, LeftBehind, Ok
  <2>1. ~running /\ record = {} /\ Quiet
    BY DEF AccountInv, Service
  <2>2. Owed = {}
    BY <2>1 DEF Owed, Quiet, Idle, At
  <2> QED
    BY <2>2 DEF AccountInv, Account, Accounted, DiskInv
<1> QED
  BY <1>1, AccountHolds, DiskHolds, PTL

-----------------------------------------------------------------------------
(* The QR sheet.                                                             *)

\* A code of as many modules as fit into the zone stays inside it.
LEMMA ModulesFit ==
    ASSUME NEW zone \in Nat, NEW span \in Nat \ {0}, NEW size \in Nat, size <= span
    PROVE  size * (zone \div span) \in Nat /\ size * (zone \div span) <= zone
<1> DEFINE px == zone \div span
<1>1. px \in Nat /\ span * px <= zone
  OBVIOUS
<1> HIDE DEF px
<1>2. size * px <= span * px
  BY <1>1
<1> QED
  BY <1>1, <1>2

\* The side of a code on a sheet whose largest has so many modules.
SideOn(most, code) == (code + 8) * (616 \div (most + 8))

LEMMA CodeFits ==
    ASSUME NEW most \in 21..177, NEW code \in 21..177, code <= most
    PROVE  SideOn(most, code) \in Nat /\ SideOn(most, code) <= 616
<1>1. most + 8 \in Nat \ {0} /\ code + 8 \in Nat /\ code + 8 <= most + 8 /\ 616 \in Nat
  OBVIOUS
<1> QED
  BY <1>1, ModulesFit DEF SideOn

\* The sizes of the sheet, in pixels: the same for one card and for two.
LEMMA Layout ==
    ASSUME NEW n \in {1, 2}
    PROVE  /\ CardW(n) = 844 /\ ZoneW(n) = 740 /\ ZoneH = 616
           /\ CardY = 204 /\ CardH = 804 /\ CaptionY = 872
<1>1. Larger(n, 2) = 2
  BY DEF Larger
<1>2. CardW(n) = 844
  BY <1>1 DEF CardW, SheetWidth, CardGap
<1>3. CardY = 204
  BY DEF CardY, TextHeight
<1>4. CardH = 804
  BY <1>3 DEF CardH, SheetHeight
<1>5. CaptionHeight = 84
  BY DEF CaptionHeight, CaptionGap, TextHeight
<1>6. ZoneW(n) = 740
  BY <1>2 DEF ZoneW, Border, Pad
<1>7. ZoneH = 616
  BY <1>4, <1>5 DEF ZoneH, Border, Pad
<1>8. CaptionY = 872
  BY <1>3, <1>4, <1>5 DEF CaptionY, Border, Pad
<1> QED
  BY <1>2, <1>3, <1>4, <1>6, <1>7, <1>8

\* The largest of one code, or of two.
Largest(codes) == Max({codes[i] : i \in DOMAIN codes})

LEMMA LargestCode ==
    ASSUME NEW codes, NEW n \in {1, 2}, DOMAIN codes = 1..n, \A i \in 1..n : codes[i] \in 21..177
    PROVE  Largest(codes) \in 21..177 /\ \A i \in 1..n : codes[i] <= Largest(codes)
<1> DEFINE S == {codes[i] : i \in DOMAIN codes}
<1>1. S \subseteq 21..177 /\ \A i \in DOMAIN codes : codes[i] \in S
  OBVIOUS
<1>2. \E x \in S : \A y \in S : x >= y
  <2>1. CASE n = 1
    <3>1. S = {codes[1]} /\ codes[1] \in Int
      BY <2>1
    <3> HIDE DEF S
    <3> QED
      BY <3>1
  <2>2. CASE n = 2
    <3>1. S = {codes[1], codes[2]} /\ codes[1] \in Int /\ codes[2] \in Int
      BY <2>2
    <3> HIDE DEF S
    <3>2. CASE codes[1] >= codes[2]
      BY <3>1, <3>2
    <3>3. CASE codes[2] >= codes[1]
      BY <3>1, <3>3
    <3> QED
      BY <3>1, <3>2, <3>3
  <2> QED
    BY <2>1, <2>2
<1>3. Max(S) \in S /\ \A y \in S : Max(S) >= y
  <2> DEFINE P(x) == x \in S /\ \A y \in S : x >= y
  <2>1. \E x : P(x)
    BY <1>2
  <2>2. P(CHOOSE x : P(x))
    BY <2>1
  <2>3. Max(S) = CHOOSE x \in S : \A y \in S : x >= y
    BY DEF Max
  <2> QED
    BY <1>2, <2>3
<1> HIDE DEF S
<1>4. Max(S) \in 21..177
  BY <1>1, <1>3
<1>5. \A i \in DOMAIN codes : codes[i] <= Max(S)
  BY <1>1, <1>3, <1>4
<1> QED
  BY <1>4, <1>5 DEF S, Largest

\* A code and its captions stand inside their card.
LEMMA CodesStand ==
    ASSUME NEW codes \in Seq(CodeSizes), NEW n \in {1, 2}, n = Len(codes), NEW i \in DOMAIN codes
    PROVE  LET x == CardX(codes, i) + Border IN
           /\ CodeX(codes, i) >= x
           /\ CodeX(codes, i) + CodeSide(codes, i) <= x + CardW(Len(codes)) - 2 * Border
           /\ CodeY(codes, i) >= CardY + Border
           /\ CodeY(codes, i) + CodeSide(codes, i) <= CaptionY
           /\ \A width \in {571, 500} :
                 /\ CaptionX(codes, i, width) >= x
                 /\ CaptionX(codes, i, width) + width <= x + CardW(Len(codes)) - 2 * Border
           /\ CardX(codes, i) + CardW(Len(codes)) <= SheetWidth
           /\ i < Len(codes) => CardX(codes, i) + CardW(Len(codes)) < CardX(codes, i + 1)
<1> DEFINE side == CodeSide(codes, i)
<1>1. DOMAIN codes = 1..n /\ n \in {1, 2} /\ \A j \in 1..n : codes[j] \in 21..177
  <2>1. DOMAIN codes = 1..n /\ \A j \in 1..n : codes[j] \in CodeSizes
    OBVIOUS
  <2> QED
    BY <2>1, SizesKnown
<1>2. /\ CardW(n) = 844 /\ ZoneW(n) = 740 /\ ZoneH = 616
      /\ CardY = 204 /\ CardH = 804 /\ CaptionY = 872
  BY Layout
<1>3. PICK m, c \in 21..177 : m = Largest(codes) /\ c = codes[i] /\ c <= m
  BY <1>1, LargestCode
<1>4. ModulePx(codes) = 616 \div (m + 8)
  BY <1>2, <1>3 DEF ModulePx, QuietModules, Largest
<1>5. side = SideOn(m, c)
  BY <1>3, <1>4 DEF CodeSide, QuietModules, SideOn
<1>6. side \in Nat /\ side <= 616
  <2>1. m \in 21..177 /\ c \in 21..177
    OBVIOUS
  <2>2. c <= m
    BY <1>3
  <2>3. SideOn(m, c) \in Nat /\ SideOn(m, c) <= 616
    BY <2>1, <2>2, CodeFits
  <2> QED
    BY <1>5, <2>3
<1>7. /\ CardX(codes, i) \in Nat
      /\ CardX(codes, i) + 844 <= 1920
      /\ i < n => CardX(codes, i) + 844 < CardX(codes, i + 1)
  <2>1. CASE n = 1
    <3>1. i = 1
      BY <1>1, <2>1
    <3>2. CardX(codes, i) = 538
      BY <1>2, <2>1, <3>1 DEF CardX, SheetWidth, CardGap
    <3> QED
      BY <2>1, <3>1, <3>2
  <2>2. CASE n = 2
    <3>1. i \in {1, 2}
      BY <1>1, <2>2
    <3>2. CardX(codes, 1) = 80 /\ CardX(codes, 2) = 996
      BY <1>2, <2>2 DEF CardX, SheetWidth, CardGap
    <3>3. CASE i = 1
      BY <2>2, <3>2, <3>3
    <3>4. CASE i = 2
      BY <2>2, <3>2, <3>4
    <3> QED
      BY <3>1, <3>3, <3>4
  <2> QED
    BY <2>1, <2>2
<1> DEFINE at == CardX(codes, i)
<1>8. CodeX(codes, i) = at + 52 + ((740 - side) \div 2)
  <2>1. Centred(740, side) = (740 - side) \div 2
    BY <1>6 DEF Centred
  <2> HIDE DEF side
  <2> QED
    BY <1>2, <1>7, <2>1 DEF CodeX, side, Border, Pad
<1>9. CodeY(codes, i) = 256 + ((616 - side) \div 2)
  <2>1. Centred(616, side) = (616 - side) \div 2
    <3> HIDE DEF side
    <3>1. CASE side < 616
      BY <3>1 DEF Centred
    <3>2. CASE side = 616
      BY <3>2 DEF Centred
    <3> QED
      BY <1>6, <3>1, <3>2
  <2> QED
    BY <1>2, <2>1 DEF CodeY, Border, Pad
<1>10. CaptionX(codes, i, 571) = at + 136 /\ CaptionX(codes, i, 500) = at + 172
  BY <1>2, <1>7 DEF CaptionX, Centred
<1> HIDE DEF at, side
<1>11. /\ CodeX(codes, i) >= at + 8 /\ CodeX(codes, i) + side <= at + 8 + 844 - 16
       /\ CodeY(codes, i) >= 204 + 8 /\ CodeY(codes, i) + side <= 872
  BY <1>6, <1>7, <1>8, <1>9 DEF at
<1>12. \A width \in {571, 500} :
          CaptionX(codes, i, width) >= at + 8 /\ CaptionX(codes, i, width) + width <= at + 8 + 844 - 16
  BY <1>7, <1>10 DEF at
<1>13. \A width \in {571, 500} :
          /\ CaptionX(codes, i, width) >= at + Border
          /\ CaptionX(codes, i, width) + width <= at + Border + CardW(n) - 2 * Border
  BY <1>2, <1>7, <1>12 DEF at, Border
<1>14. /\ CodeX(codes, i) >= at + Border /\ CodeX(codes, i) + side <= at + Border + CardW(n) - 2 * Border
       /\ CodeY(codes, i) >= CardY + Border /\ CodeY(codes, i) + side <= CaptionY
  BY <1>2, <1>7, <1>11 DEF at, Border
<1>15. /\ at + CardW(n) <= SheetWidth
       /\ i < n => at + CardW(n) < CardX(codes, i + 1)
  BY <1>2, <1>7 DEF at, SheetWidth
<1> QED
  BY <1>13, <1>14, <1>15 DEF at, side

\* The widths of the captions, and the cards of a sheet.
LEMMA SheetStands ==
    ASSUME sheet.codes \in Seq(CodeSizes), Len(sheet.codes) \in {1, 2}
    PROVE  SheetFits
<1> DEFINE codes == sheet.codes
<1>1. \A i \in DOMAIN codes :
          LET x == CardX(codes, i) + Border IN
          /\ CodeX(codes, i) >= x
          /\ CodeX(codes, i) + CodeSide(codes, i) <= x + CardW(Len(codes)) - 2 * Border
          /\ CodeY(codes, i) >= CardY + Border
          /\ CodeY(codes, i) + CodeSide(codes, i) <= CaptionY
          /\ \A width \in {571, 500} :
                /\ CaptionX(codes, i, width) >= x
                /\ CaptionX(codes, i, width) + width <= x + CardW(Len(codes)) - 2 * Border
          /\ CardX(codes, i) + CardW(Len(codes)) <= SheetWidth
          /\ i < Len(codes) => CardX(codes, i) + CardW(Len(codes)) < CardX(codes, i + 1)
  BY CodesStand
<1> QED
  BY <1>1 DEF SheetFits, TextWidth

\* A sheet is the plan of the moment, as is a copied link, with a code for
\* each of its cards; one made with an old list of the interfaces may be
\* neither.
SheetInv ==
    /\ sheet.codes = <<>> \/ (sheet.codes \in Seq(CodeSizes) /\ Len(sheet.codes) \in {1, 2})
    /\ \/ sheet.cards = <<>> \/ ~sheet.fresh
       \/ Fresh /\ sheet.cards = Plan
       \/ Fresh /\ config.sharing /\ Host(config) # "none" /\ sheet.cards = <<Card("link", Host(config), config.port)>>

\* One card for the subscription and one for the proxy.
LEMMA PlanIsShort == \E n \in {0, 1, 2} : DOMAIN Plan = 1..n
<1> DEFINE s == Card("subscription", Host(config), config.port)
           p(host) == Card("proxy", host, config.proxyPort)
<1>1. PlanSubscription = <<>> \/ PlanSubscription = <<s>>
  BY DEF PlanSubscription
<1>2. PlanProxy = <<>> \/ \E host : PlanProxy = <<p(host)>>
  BY DEF PlanProxy
<1> HIDE DEF s, p
<1>3. CASE PlanSubscription = <<>> /\ PlanProxy = <<>>
  BY <1>3 DEF Plan
<1>4. CASE PlanSubscription = <<s>> /\ PlanProxy = <<>>
  BY <1>4 DEF Plan
<1>5. ASSUME NEW host, PlanSubscription = <<>>, PlanProxy = <<p(host)>> PROVE DOMAIN Plan = 1..1
  BY <1>5 DEF Plan
<1>6. ASSUME NEW host, PlanSubscription = <<s>>, PlanProxy = <<p(host)>> PROVE DOMAIN Plan = 1..2
  BY <1>6 DEF Plan
<1> QED
  BY <1>1, <1>2, <1>3, <1>4, <1>5, <1>6

\* One code for each card.
LEMMA CodesAreFew ==
    ASSUME NEW codes \in [DOMAIN Plan -> CodeSizes], codes # <<>>
    PROVE  codes \in Seq(CodeSizes) /\ Len(codes) \in {1, 2}
<1>1. PICK n \in {0, 1, 2} : codes \in [1..n -> CodeSizes]
  BY PlanIsShort
<1>2. n # 0
  BY <1>1
<1>3. n \in Nat
  BY <1>1
<1> QED
  BY <1>1, <1>2, <1>3

\* Whatever happens lets a sheet pass or takes it back.
LEMMA HappensPasses ==
    ASSUME Happens
    PROVE  Passes
BY DEF Happens, Starts, StartupApplies, Stops, Crashes, SwitchesSharing, SwitchesProxy, Edits, LanTick,
       ListsInterfaces, NetChanges, UserActs, Applies, UninstallsRules, UninstallsFiles

\* What the plan is made of.
LEMMA PlanStays ==
    ASSUME UNCHANGED <<system, config, net, listed, rules, record>>
    PROVE  Plan' = Plan /\ Host(config)' = Host(config) /\ Fresh' = Fresh
BY DEF system, Plan, PlanSubscription, PlanProxy, Host, Card, AllowsPort, Recorded, RuleFor, Fresh

\* The interfaces are listed only when the list is not the one of the moment.
LEMMA ListedOnce ==
    ASSUME Happens, UNCHANGED <<running, net>>, listed' # listed
    PROVE  ~Fresh
<1>1. CASE Starts
  BY <1>1 DEF Starts
<1>2. CASE ListsInterfaces
  BY <1>2 DEF ListsInterfaces, Fresh
<1>3. CASE ~Starts /\ ~ListsInterfaces
  BY <1>3 DEF Happens, StartupApplies, Stops, Crashes, SwitchesSharing, SwitchesProxy, Edits, LanTick,
              NetChanges, UserActs, Applies, UninstallsRules, UninstallsFiles, offer
<1> QED
  BY <1>1, <1>2, <1>3

\* A sheet lasts no longer than what it was drawn from.
LEMMA SheetHolds == Spec => []SheetInv
<1>1. Init => SheetInv
  <2>1. Init => sheet.codes = <<>> /\ sheet.cards = <<>>
    BY DEF Init, NoSheet
  <2> QED
    BY <2>1, Zenon DEF SheetInv
<1>2. SheetInv /\ [Next]_vars => SheetInv'
  <2> SUFFICES ASSUME SheetInv, [Next]_vars PROVE SheetInv'
    OBVIOUS
  <2>1. ASSUME UNCHANGED <<system, sheet, config, net, listed, rules, record>> PROVE SheetInv'
    <3>1. Plan' = Plan /\ Host(config)' = Host(config) /\ Fresh' = Fresh /\ UNCHANGED <<sheet, config>>
      BY <2>1, PlanStays
    <3> QED
      BY <3>1 DEF SheetInv, Card
  <2>2. CASE Happens
    <3>1. Passes
      BY <2>2, HappensPasses
    <3>2. CASE sheet' = NoSheet
      <4>1. sheet'.codes = <<>> /\ sheet'.cards = <<>>
        BY <3>2 DEF NoSheet
      <4> QED
        BY <4>1, Zenon DEF SheetInv
    <3>3. CASE sheet' = sheet /\ UNCHANGED <<running, config, listen, net, rules, record>>
      <4>1. CASE listed' = listed
        BY <2>1, <3>1, <3>3, <4>1 DEF Passes
      <4>2. CASE listed' # listed
        <5>1. ~Fresh
          BY <2>2, <3>3, <4>2, ListedOnce
        <5>2. sheet.cards = <<>> \/ ~sheet.fresh
          BY <5>1 DEF SheetInv
        <5> QED
          BY <3>3, <5>2 DEF SheetInv
      <4> QED
        BY <4>1, <4>2
    <3> QED
      BY <3>1, <3>2, <3>3 DEF Passes
  <2>3. CASE Draws
    <3>1. PICK codes \in [DOMAIN Plan -> CodeSizes] : Fits(codes) /\ sheet' = [cards |-> Plan, codes |-> codes, fresh |-> Fresh]
      BY <2>3 DEF Draws
    <3>2. codes \in Seq(CodeSizes) /\ Len(codes) \in {1, 2}
      BY <3>1, CodesAreFew DEF Fits
    <3>3. Plan' = Plan /\ Fresh' = Fresh
      BY <2>3, PlanStays DEF Draws, firewall, offer
    <3> QED
      BY <3>1, <3>2, <3>3 DEF SheetInv
  <2>4. CASE Copies
    <3>1. Host(config)' = Host(config) /\ config' = config /\ Fresh' = Fresh
      BY <2>4, PlanStays DEF Copies, firewall, offer
    <3>2. /\ sheet' = [cards |-> <<Card("link", Host(config), config.port)>>, codes |-> <<>>, fresh |-> Fresh]
          /\ config.sharing /\ Host(config) # "none"
      BY <2>4 DEF Copies
    <3> DEFINE link == Card("link", Host(config), config.port)
    <3>3. link' = link
      BY <3>1 DEF Card
    <3> HIDE DEF link
    <3>4. sheet'.codes = <<>> /\ sheet'.cards = <<link>> /\ sheet'.fresh = Fresh
      BY <3>2 DEF link
    <3>5. sheet'.cards = <<link'>> /\ config'.sharing /\ Host(config)' # "none" /\ sheet'.fresh = Fresh'
      BY <3>1, <3>2, <3>3, <3>4
    <3> QED
      BY <3>4, <3>5 DEF SheetInv, link
  <2>5. CASE UNCHANGED vars
    BY <2>1, <2>5 DEF vars, firewall, offer
  <2> QED
    BY <2>2, <2>3, <2>4, <2>5 DEF Next, HandsOut
<1> QED
  BY <1>1, <1>2, PTL DEF Spec

\* A sheet that was drawn can be scanned (SheetFits), for QR codes of every
\* size there is (qr.rs:297-438).
THEOREM CodesFitTheSheet == Spec => []SheetFits
<1>1. SheetInv => SheetFits
  <2> SUFFICES ASSUME SheetInv PROVE SheetFits
    OBVIOUS
  <2>1. CASE sheet.codes = <<>>
    BY <2>1 DEF SheetFits
  <2>2. CASE sheet.codes \in Seq(CodeSizes) /\ Len(sheet.codes) \in {1, 2}
    BY <2>2, SheetStands
  <2> QED
    BY <2>1, <2>2 DEF SheetInv
<1> QED
  BY <1>1, SheetHolds, PTL

-----------------------------------------------------------------------------
(* What is handed out is answered.                                           *)

\* The first address a list has is one of the list.
LEMMA FirstOfList ==
    ASSUME NEW I \in SUBSET Nat, I # {}
    PROVE  Min(I) \in I
<1>1. \E n \in I : \A m \in I : n <= m
  <2>1. IsWellFoundedOn(OpToRel(<, Nat), Nat)
    BY NatLessThanWellFounded
  <2>2. PICK n \in I : \A m \in I : ~(<<m, n>> \in OpToRel(<, Nat))
    BY <2>1, WFMin
  <2>3. \A m \in I : ~(m < n)
    BY <2>2 DEF OpToRel
  <2>4. n \in Nat /\ \A m \in I : m \in Nat
    OBVIOUS
  <2> QED
    BY <2>3, <2>4
<1> QED
  BY <1>1 DEF Min

\* The address that is chosen is one of the list, and of the local network.
LEMMA FirstLanIpIsListed ==
    ASSUME NEW ips, NEW k \in Nat, DOMAIN ips = 1..k, Len(ips) = k, FirstLanIp(ips) # "none"
    PROVE  \E i \in DOMAIN ips : FirstLanIp(ips) = ips[i] /\ LanReachable(ips[i])
<1> DEFINE I == {i \in 1..Len(ips) : LanReachable(ips[i])}
<1>1. FirstLanIp(ips) = IF I # {} THEN (IF Min(I) = 0 THEN "none" ELSE ips[Min(I)]) ELSE "none"
  BY DEF FirstLanIp, SelectInSeq
<1>2. I # {} /\ I \subseteq 1..k
  BY <1>1
<1>3. Min(I) \in I
  BY <1>2, FirstOfList
<1>4. Min(I) # 0
  BY <1>2, <1>3
<1> QED
  BY <1>1, <1>2, <1>3, <1>4

\* The same of the route probes.
LEMMA RouteIsListed ==
    ASSUME NEW n \in NetType, RouteLocalIp(n) # "none"
    PROVE  \E i \in DOMAIN n.route : RouteLocalIp(n) = n.route[i]
<1> DEFINE I == {i \in 1..Len(n.route) : n.route[i] # "none"}
<1>1. RouteLocalIp(n) = IF I # {} THEN (IF Min(I) = 0 THEN "none" ELSE n.route[Min(I)]) ELSE "none"
  BY DEF RouteLocalIp, SelectInSeq
<1>2. I # {} /\ I \subseteq DOMAIN n.route /\ I \subseteq Nat
  BY <1>1 DEF NetType
<1>3. Min(I) \in I
  BY <1>2, FirstOfList
<1>4. Min(I) # 0
  BY <1>3
<1> QED
  BY <1>1, <1>2, <1>3, <1>4

\* The address of the route, unless it is a tunnel's, is on the network.
LEMMA RouteReachesTheLan ==
    ASSUME NEW n \in Nets, LanReachable(RouteLocalIp(n)), RouteLocalIp(n) # "tun"
    PROVE  RouteLocalIp(n) \in OnTheLan(n)
<1>1. RouteLocalIp(n) # "none" /\ n \in NetType
  BY NetsKnown DEF LanReachable
<1>2. PICK i \in DOMAIN n.route : RouteLocalIp(n) = n.route[i]
  BY <1>1, RouteIsListed
<1> QED
  BY <1>2, NetsKnown

\* An interface that is not virtual has the address that is chosen of all,
\* unless `hostname -I` is asked.
LEMMA InterfaceReachesTheLan ==
    ASSUME NEW n \in NetType, InterfaceLanIp(n) # "none", ~AsksHostname(n)
    PROVE  InterfaceLanIp(n) \in OnTheLan(n)
<1> DEFINE own(i) == IF i \in Physical(n) THEN FirstLanIp(n.nics[i].ips) ELSE "none"
           list == [i \in DOMAIN n.nics |-> own(i)]
<1>1. DOMAIN n.nics = 1..Len(n.nics) /\ Len(n.nics) \in Nat
  BY DEF NetType
<1>2. DOMAIN list = 1..Len(n.nics) /\ Len(list) = Len(n.nics)
  BY <1>1
<1>3. InterfaceLanIp(n) = FirstLanIp(list)
  BY DEF InterfaceLanIp
<1>4. PICK i \in DOMAIN n.nics : InterfaceLanIp(n) = own(i) /\ LanReachable(own(i))
  <2> HIDE DEF list, own
  <2>1. PICK i \in DOMAIN list : FirstLanIp(list) = list[i] /\ LanReachable(list[i])
    BY <1>1, <1>2, <1>3, FirstLanIpIsListed
  <2> QED
    BY <1>1, <1>2, <1>3, <2>1 DEF list
<1>5. own(i) # "none" /\ ~n.nics[i].virtual /\ own(i) = FirstLanIp(n.nics[i].ips)
  BY <1>4 DEF LanReachable, Physical
<1> DEFINE ips == n.nics[i].ips
<1>6. ips \in Seq(Addresses) /\ Len(ips) \in Nat /\ DOMAIN ips = 1..Len(ips)
  <2>1. n.nics \in Seq([virtual: BOOLEAN, ips: Seq(Addresses)])
    BY DEF NetType
  <2>2. n.nics[i] \in [virtual: BOOLEAN, ips: Seq(Addresses)]
    BY <1>1, <2>1, ElementOfSeq
  <2>3. ips \in Seq(Addresses)
    BY <2>2
  <2> QED
    BY <2>3
<1> HIDE DEF own
<1>7. PICK j \in 1..Len(ips) : own(i) = ips[j] /\ LanReachable(ips[j])
  BY <1>5, <1>6, FirstLanIpIsListed
<1>8. own(i) \in Addresses /\ LanReachable(own(i)) /\ Contains(n.nics[i].ips, own(i))
  BY <1>6, <1>7 DEF Contains
<1> QED
  BY <1>4, <1>5, <1>8 DEF OnTheLan

\* So is every address that is handed out, with a list of the moment.
LEMMA PrimaryReachesTheLan ==
    ASSUME net \in Nets, ~Virtual, Fresh
    PROVE  /\ PrimaryLanIp(net, listed) # "none" => PrimaryLanIp(net, listed) \in OnTheLan(net)
           /\ DetectedLanIp(net, listed) # "none" => DetectedLanIp(net, listed) \in OnTheLan(net)
<1>1. net \in NetType
  BY NetsKnown
<1>2. LanReachable(RouteLocalIp(net)) => RouteLocalIp(net) \in OnTheLan(net)
  BY RouteReachesTheLan DEF Virtual
<1>3. listed # "none" => listed \in OnTheLan(net)
  BY <1>1, InterfaceReachesTheLan DEF Virtual, Fresh
<1> QED
  BY <1>2, <1>3 DEF PrimaryLanIp, DetectedLanIp

\* The host of a link can be reached.
LEMMA HostReachesTheLan ==
    ASSUME Service, Anchored, ~Virtual, Fresh, Host(config) # "none"
    PROVE  Host(config) \in OnTheLan(net)
<1>1. /\ PrimaryLanIp(net, listed) # "none" => PrimaryLanIp(net, listed) \in OnTheLan(net)
      /\ DetectedLanIp(net, listed) # "none" => DetectedLanIp(net, listed) \in OnTheLan(net)
  BY PrimaryReachesTheLan DEF Service
<1>2. config.bind \in {"loop", "any"} \cup OnTheLan(net)
  BY DEF Anchored
<1>3. CASE LanReachable(config.bind)
  BY <1>2, <1>3 DEF Host, DiscoverableHost, LanReachable
<1>4. CASE config.bind = "loop"
  BY <1>1, <1>4 DEF Host, DiscoverableHost, LanReachable
<1>5. CASE config.bind = "any"
  BY <1>1, <1>5 DEF Host, DiscoverableHost, LanReachable
<1>6. CASE ~LanReachable(config.bind) /\ config.bind \notin {"loop", "any"}
  BY <1>6 DEF Host, DiscoverableHost
<1> QED
  BY <1>3, <1>4, <1>5, <1>6

\* One of the two listeners is on the address that was handed out.
LEMMA HostIsListened ==
    ASSUME Anchored, config.sharing, Host(config) # "none", lan = Desired
    PROVE  listen.host \in {Host(config), "any"} \/ lan = Host(config)
<1>1. listen.host = config.bind
  BY DEF Anchored
<1>2. CASE LanReachable(config.bind)
  BY <1>1, <1>2 DEF Host, DiscoverableHost, LanReachable
<1>3. CASE config.bind = "loop"
  BY <1>1, <1>3 DEF Host, DiscoverableHost, LanReachable, Desired, DesiredLanHost
<1>4. CASE config.bind = "any"
  BY <1>1, <1>4
<1>5. CASE ~LanReachable(config.bind) /\ config.bind \notin {"loop", "any"}
  BY <1>5 DEF Host, DiscoverableHost
<1> QED
  BY <1>2, <1>3, <1>4, <1>5

\* An entry stands for a rule, so what is let through on its word is.
LEMMA AllowedIsOpen ==
    ASSUME Typed, Account, Backed, NEW p, AllowsPort(p)
    PROVE  PortOpen(p)
<1>1. CASE backend = "other" \/ (backend = "ufw" /\ ~active) \/ RuleFor(p)
  BY <1>1 DEF PortOpen
<1>2. CASE backend = "netsh" /\ Recorded(p)
  BY <1>2 DEF Backed, Recorded, PortOpen, RuleFor
<1>3. CASE backend = "ufw" /\ active /\ Recorded(p)
  <2>1. PICK e \in record : e.port = p
    BY <1>3 DEF Recorded
  <2>2. Quiet /\ Backing
    BY <1>3 DEF Backed, Account, Ok
  <2>3. RuleOf(e) \in rules
    BY <1>3, <2>2 DEF Backing, Quiet, Idle, At
  <2>4. RuleOf(e).port = p
    BY <2>1 DEF RuleOf
  <2> QED
    BY <2>3, <2>4 DEF PortOpen, RuleFor
<1> QED
  BY <1>1, <1>2, <1>3 DEF AllowsPort, Typed

\* What was handed out is answered until something changes (CardsAnswer), for
\* any network, address to listen on and firewall (qr.rs, network.rs, server.rs).
THEOREM CardsAreAnswered == Spec => []CardsAnswer
<1>1. AccountInv /\ SheetInv => CardsAnswer
  <2> SUFFICES ASSUME AccountInv, SheetInv, running, lan = Desired, Anchored, Backed, ~Virtual,
                      sheet.fresh, NEW i \in DOMAIN sheet.cards
               PROVE  Answered(sheet.cards[i])
    BY DEF CardsAnswer
  <2> DEFINE subscription == Card("subscription", Host(config), config.port)
             link == Card("link", Host(config), config.port)
             proxy(host) == Card("proxy", host, config.proxyPort)
  <2>1. Typed /\ Service /\ Account
    BY DEF AccountInv
  <2>2. config.protect /\ config.token # "reserved" => Received(config.token) = config.token
    BY DEF Received
  <2>3. listen.port = config.port
    BY DEF Anchored
  <2>4. ASSUME Fresh, config.sharing, Host(config) # "none", AllowsPort(config.port)
        PROVE  Answered(subscription)
    <3>1. Host(config) \in OnTheLan(net) /\ (listen.host \in {Host(config), "any"} \/ lan = Host(config))
      BY <2>1, <2>4, HostReachesTheLan, HostIsListened
    <3>2. PortOpen(config.port)
      BY <2>1, <2>4, AllowedIsOpen
    <3> QED
      BY <2>2, <2>3, <2>4, <3>1, <3>2 DEF Answered, Card
  <2>5. ASSUME Fresh, config.sharing, Host(config) # "none" PROVE Answered(link)
    <3>1. Host(config) \in OnTheLan(net) /\ (listen.host \in {Host(config), "any"} \/ lan = Host(config))
      BY <2>1, <2>5, HostReachesTheLan, HostIsListened
    <3> QED
      BY <2>2, <2>3, <2>5, <3>1 DEF Answered, Card
  <2>6. ASSUME Fresh, NEW host, host # "none", AllowsPort(config.proxyPort),
               host = IF Host(config) # "none" THEN Host(config) ELSE PrimaryLanIp(net, listed)
        PROVE  Answered(proxy(host))
    <3>1. host \in OnTheLan(net)
      BY <2>1, <2>6, HostReachesTheLan, PrimaryReachesTheLan DEF Service
    <3>2. PortOpen(config.proxyPort)
      BY <2>1, <2>6, AllowedIsOpen
    <3> QED
      BY <3>1, <3>2 DEF Answered, Card
  <2>7. Fresh => PlanSubscription = <<>>
        \/ (PlanSubscription = <<subscription>> /\ Answered(subscription))
    BY <2>4 DEF PlanSubscription
  <2>8. Fresh => PlanProxy = <<>> \/ \E host : PlanProxy = <<proxy(host)>> /\ Answered(proxy(host))
    BY <2>6 DEF PlanProxy
  <2> HIDE DEF subscription, link, proxy
  <2>9. CASE sheet.cards = <<>>
    BY <2>9
  <2>10. CASE Fresh /\ config.sharing /\ Host(config) # "none" /\ sheet.cards = <<link>>
    <3>1. sheet.cards[i] = link
      BY <2>10
    <3> QED
      BY <2>5, <2>10, <3>1
  <2>11. CASE Fresh /\ sheet.cards = Plan
    <3>1. CASE PlanProxy = <<>>
      BY <2>7, <2>11, <3>1 DEF Plan
    <3>2. ASSUME NEW host, PlanProxy = <<proxy(host)>>, Answered(proxy(host)) PROVE Answered(sheet.cards[i])
      BY <2>7, <2>11, <3>2 DEF Plan
    <3> QED
      BY <2>8, <2>11, <3>1, <3>2
  <2> QED
    BY <2>9, <2>10, <2>11 DEF SheetInv, link
<1> QED
  BY <1>1, AccountHolds, SheetHolds, PTL
=============================================================================
