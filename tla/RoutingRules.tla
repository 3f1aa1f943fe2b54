---------------------------- MODULE RoutingRules ----------------------------
(***************************************************************************)
(* The table of routing rules (ShortCodeRoutingRuleManagement.java,        *)
(* ScRoutingRule.java): an administrator creates, modifies and deletes     *)
(* rules, each command stores the table in a file, and the PULL service    *)
(* looks dialled codes up meanwhile.  A command changes the table in       *)
(* several steps, none of them guarded by a lock, so a look-up sees every  *)
(* state in between; the process may crash there too.                      *)
(***************************************************************************)
EXTENDS Naturals, Sequences

CONSTANTS
  Codes,      \* short codes, configured or dialled
  Begins,     \* << p, c >>: c.startsWith(p)
  Networks,   \* network ids
  Addresses,  \* what an administrator gives for URL or SIP proxy
  Null,       \* no address
  MaxRules    \* bound: rules in the table

ASSUME NullAssumption == Null \notin Addresses
ASSUME BeginsAssumption ==
  Begins \subseteq Codes \X Codes /\ \A c \in Codes : << c, c >> \in Begins

Types == {"HTTP", "SIP"}

Fields == {"type", "url", "proxy", "exact"}

Rule == [ code : Codes, net : Networks, type : Types,
          url : Addresses \cup {Null}, proxy : Addresses \cup {Null},
          exact : BOOLEAN ]

Wish == [ type : Types, address : Addresses, exact : BOOLEAN ]

\* Outside of modifyScRoutingRule.
NoWish == [ type |-> "HTTP", address |-> Null, exact |-> TRUE ]

VARIABLES
  rules,      \* scRoutingRuleList
  pc,         \* where the command of the administrator is
  target,     \* the rule that modifyScRoutingRule found
  todo,       \* the setters it has still to call
  wish,       \* with these values
  file,       \* the rules load() finds; none in a missing or truncated file
  up,         \* the process runs
  unsaved,    \* history: the last store() failed
  widened     \* history: an exact rule was made a prefix rule

vars == << rules, pc, target, todo, wish, file, up, unsaved, widened >>

command == << pc, target, todo, wish >>
history == << unsaved, widened >>

-----------------------------------------------------------------------------
Matches(r, c, n) ==
  /\ r.net = n
  /\ IF r.exact THEN r.code = c ELSE << r.code, c >> \in Begins

\* getScRoutingRule: the position of the first match, 0 without one.
Lookup(table, c, n) ==
  LET hits == {i \in DOMAIN table : Matches(table[i], c, n)}
  IN  IF hits = {} THEN 0 ELSE CHOOSE i \in hits : \A j \in hits : i <= j

\* equals of two rules.
SameRule(r, s) == r.code = s.code /\ r.net = s.net

NewRule(c, n, w) ==
  [ code |-> c, net |-> n, type |-> w.type, exact |-> w.exact,
    url |-> IF w.type = "HTTP" THEN w.address ELSE Null,
    proxy |-> IF w.type = "SIP" THEN w.address ELSE Null ]

\* Faulty variant: the address of an HTTP rule is left as it was.
SettersNoUrl(type) ==
  IF type = "HTTP" THEN << "type", "exact" >> ELSE << "proxy", "exact", "type" >>

\* The order in which modifyScRoutingRule calls the setters.
Setters(type) ==
  IF type = "HTTP" THEN << "type", "url", "exact" >> ELSE << "proxy", "exact", "type" >>

Assign(r, f, w) ==
  CASE f = "type" -> [r EXCEPT !.type = w.type]
    [] f = "url" -> [r EXCEPT !.url = w.address]
    [] f = "proxy" -> [r EXCEPT !.proxy = w.address]
    [] f = "exact" -> [r EXCEPT !.exact = w.exact]

\* FastList.remove: the list without its element i.
Without(table, i) ==
  [j \in 1 .. Len(table) - 1 |-> IF j < i THEN table[j] ELSE table[j + 1]]

-----------------------------------------------------------------------------
Init == /\ rules = << >> /\ file = << >>
        /\ pc = "idle" /\ target = 0 /\ todo = << >>
        /\ wish = NoWish
        /\ up = TRUE
        /\ unsaved = FALSE /\ widened = FALSE

Idle == up /\ pc = "idle"

Store == pc' = "open" /\ UNCHANGED << target, todo, wish >>

\* Faulty variants: no look-up; a look-up of the pair instead of a match.
CreateAnyway(c, n, w) ==
  /\ Idle /\ Len(rules) < MaxRules
  /\ rules' = Append(rules, NewRule(c, n, w)) /\ Store
  /\ UNCHANGED << file, up, history >>
CreateOfPair(c, n, w) ==
  /\ Idle /\ Len(rules) < MaxRules
  /\ \A i \in DOMAIN rules : rules[i].code # c \/ rules[i].net # n
  /\ rules' = Append(rules, NewRule(c, n, w)) /\ Store
  /\ UNCHANGED << file, up, history >>

\* createScRoutingRule, refused when any rule matches the new code.
Create(c, n, w) ==
  /\ Idle /\ Len(rules) < MaxRules
  /\ Lookup(rules, c, n) = 0
  /\ rules' = Append(rules, NewRule(c, n, w)) /\ Store
  /\ UNCHANGED << file, up, history >>

\* Faulty variant: a rule that was not found is modified.
ModifyAnyway(c, n, w) ==
  /\ Idle
  /\ target' = Lookup(rules, c, n) /\ todo' = Setters(w.type) /\ wish' = w
  /\ pc' = "setting"
  /\ UNCHANGED << rules, file, up, history >>

\* modifyScRoutingRule, up to its first setter.
Modify(c, n, w) ==
  /\ Idle
  /\ Lookup(rules, c, n) # 0
  /\ target' = Lookup(rules, c, n) /\ todo' = Setters(w.type) /\ wish' = w
  /\ pc' = "setting"
  /\ UNCHANGED << rules, file, up, history >>

\* One setter on the rule, which stands in the table already.
Set ==
  LET old == rules[target]
      new == Assign(old, Head(todo), wish)
  IN  /\ up /\ pc = "setting"
      /\ rules' = [rules EXCEPT ![target] = new]
      /\ widened' = (widened \/ (old.exact /\ ~new.exact))
      /\ todo' = Tail(todo)
      /\ IF todo' = << >>
         THEN pc' = "open" /\ target' = 0 /\ wish' = NoWish
         ELSE UNCHANGED << pc, target, wish >>
      /\ UNCHANGED << file, up, unsaved >>

\* Faulty variant: the command ends without a store().
DeleteUnsaved(c, n) ==
  /\ Idle
  /\ \E i \in DOMAIN rules :
       i = Lookup(rules, c, n) /\ rules' = Without(rules, i)
  /\ UNCHANGED << command, file, up, history >>

\* deleteScRoutingRule: the first rule that equals the one which matched.
Delete(c, n) ==
  /\ Idle
  /\ Lookup(rules, c, n) # 0
  /\ \E i \in DOMAIN rules :
       /\ SameRule(rules[i], rules[Lookup(rules, c, n)])
       /\ \A j \in 1 .. i - 1 : ~SameRule(rules[j], rules[i])
       /\ rules' = Without(rules, i)
  /\ Store
  /\ UNCHANGED << file, up, history >>

\* removeAllResourses.
RemoveAll ==
  /\ Idle
  /\ rules' = << >> /\ Store
  /\ UNCHANGED << file, up, history >>

-----------------------------------------------------------------------------
(***************************************************************************)
(* store(): the stream truncates the file, then the list is written.       *)
(***************************************************************************)
OpenFile ==
  /\ up /\ pc = "open"
  /\ file' = << >> /\ pc' = "write"
  /\ UNCHANGED << rules, target, todo, wish, up, history >>

WriteFile ==
  /\ up /\ pc = "write"
  /\ file' = rules /\ pc' = "idle" /\ unsaved' = FALSE
  /\ UNCHANGED << rules, target, todo, wish, up, widened >>

\* The exception is logged; the command reports success.
StoreFails ==
  /\ up /\ pc \in {"open", "write"}
  /\ pc' = "idle" /\ unsaved' = TRUE
  /\ UNCHANGED << rules, target, todo, wish, file, up, widened >>

Crash ==
  /\ up
  /\ up' = FALSE /\ rules' = << >>
  /\ pc' = "idle" /\ target' = 0 /\ todo' = << >> /\ wish' = NoWish
  /\ UNCHANGED << file, history >>

\* start() in a new process: load() leaves the list empty when there is no file
\* or the file has no complete document.
Start ==
  /\ ~up
  /\ up' = TRUE /\ rules' = file /\ unsaved' = FALSE
  /\ UNCHANGED << command, file, widened >>

Next ==
  \/ \E c \in Codes, n \in Networks :
       \/ \E w \in Wish : Create(c, n, w) \/ Modify(c, n, w)
       \/ Delete(c, n)
  \/ Set \/ RemoveAll \/ OpenFile \/ WriteFile \/ StoreFails \/ Crash \/ Start

Spec == Init /\ [][Next]_vars

-----------------------------------------------------------------------------
(***************************************************************************)
(* Properties.                                                             *)
(***************************************************************************)
TypeOK ==
  /\ rules \in Seq(Rule) /\ file \in Seq(Rule)
  /\ pc \in {"idle", "setting", "open", "write"}
  /\ target \in Nat /\ todo \in Seq(Fields) /\ wish \in Wish \cup {NoWish}
  /\ up \in BOOLEAN /\ unsaved \in BOOLEAN /\ widened \in BOOLEAN
  /\ pc = "setting" => target \in DOMAIN rules /\ wish \in Wish /\ todo # << >>

Unique(table) ==
  \A i, j \in DOMAIN table : SameRule(table[i], table[j]) => i = j

\* A code and a network identify at most one rule, after any sequence of commands,
\* crashes and loads, although create looks for a match and not for the pair.
UniqueIds == Unique(rules)

\* No earlier rule takes the dialled codes of a later one: whoever dials the very
\* code of a rule is routed by it.  Only widening a rule with modify breaks this,
\* since create refuses a code that is taken and the list keeps its order.
RulesReachable ==
  ~widened =>
    \A i \in DOMAIN rules : Lookup(rules, rules[i].code, rules[i].net) = i

Addressed(r) == IF r.type = "HTTP" THEN r.url # Null ELSE r.proxy # Null

\* Between two commands every rule has the address that its type needs, whichever
\* types it had before and wherever a crash cut modify short.
AddressOfType ==
  /\ pc # "setting" => \A i \in DOMAIN rules : Addressed(rules[i])
  /\ \A i \in DOMAIN file : Addressed(file[i])

\* Between two commands the file holds the table by which calls are routed, unless
\* the last store() failed: no command forgets to store.
Persisted == Idle /\ ~unsaved => file = rules

\* A rule that a look-up may find has the address that its type needs, at any time.
\* The guide says it of the rules; between two setters of modify it does not hold.
LookupFindsAddress == \A i \in DOMAIN rules : Addressed(rules[i])

\* The guide: code and network identify the rule that a command is about.
DeleteIsOfPair ==
  [][\A c \in Codes, n \in Networks :
       Delete(c, n) =>
         \A i \in DOMAIN rules :
           SameRule(rules[i], [code |-> c, net |-> n])
             \/ \E j \in DOMAIN rules' : rules'[j] = rules[i]]_vars
=============================================================================
