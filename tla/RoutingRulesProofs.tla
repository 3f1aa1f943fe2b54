------------------------- MODULE RoutingRulesProofs -------------------------
(***************************************************************************)
(* Proofs about RoutingRules, for any codes, networks, addresses and       *)
(* number of rules.                                                        *)
(***************************************************************************)
EXTENDS RoutingRules, TLAPS, WellFoundedInduction

-----------------------------------------------------------------------------
(***************************************************************************)
(* The list operations.                                                    *)
(***************************************************************************)
\* No rule takes the code of a later one.
Ordered(table) ==
  \A i, j \in DOMAIN table : i < j => ~Matches(table[i], table[j].code, table[j].net)

AllAddressed(table) == \A i \in DOMAIN table : Addressed(table[i])

\* A table that routes: what holds of rules between commands, and of the file.
Good(table) == Unique(table) /\ (~widened => Ordered(table))

\* A rule matches its own code.
LEMMA OwnMatch == ASSUME NEW r \in Rule PROVE Matches(r, r.code, r.net)
  BY BeginsAssumption DEF Matches, Rule

\* Removing an element keeps the others, in their order.
LEMMA WithoutElements ==
  ASSUME NEW table \in Seq(Rule), NEW i \in DOMAIN table
  PROVE  /\ Without(table, i) \in Seq(Rule)
         /\ DOMAIN Without(table, i) = 1 .. Len(table) - 1
         /\ \A j \in 1 .. Len(table) - 1 :
              /\ j < i => j \in DOMAIN table /\ Without(table, i)[j] = table[j]
              /\ j >= i => j + 1 \in DOMAIN table /\ Without(table, i)[j] = table[j + 1]
<1>1. Len(table) \in Nat /\ i \in 1 .. Len(table) /\ DOMAIN table = 1 .. Len(table)
  OBVIOUS
<1>2. Len(table) - 1 \in Nat
  BY <1>1
<1>3. \A j \in 1 .. Len(table) - 1 :
        /\ j \in DOMAIN table /\ j + 1 \in DOMAIN table
        /\ table[j] \in Rule /\ table[j + 1] \in Rule
  BY <1>1
<1>4. Without(table, i) \in [1 .. Len(table) - 1 -> Rule]
  BY <1>3 DEF Without
<1> QED  BY <1>1, <1>2, <1>3, <1>4 DEF Without

LEMMA WithoutGood ==
  ASSUME NEW table \in Seq(Rule), NEW i \in DOMAIN table
  PROVE  /\ Unique(table) => Unique(Without(table, i))
         /\ Ordered(table) => Ordered(Without(table, i))
         /\ AllAddressed(table) => AllAddressed(Without(table, i))
<1> DEFINE rest == Without(table, i)
           old(j) == IF j < i THEN j ELSE j + 1
<1>1. /\ DOMAIN rest = 1 .. Len(table) - 1 /\ i \in Nat
      /\ \A j \in 1 .. Len(table) - 1 : /\ j < i => rest[j] = table[j] /\ j \in DOMAIN table
                                        /\ j >= i => rest[j] = table[j + 1] /\ j + 1 \in DOMAIN table
  BY WithoutElements
<1>2. \A j, k \in DOMAIN rest : /\ old(j) = old(k) => j = k
                                /\ j < k => old(j) < old(k)
  BY <1>1
<1>6. \A j \in DOMAIN rest : old(j) \in DOMAIN table /\ rest[j] = table[old(j)]
  <2> HIDE DEF rest
  <2> QED  BY <1>1
<1> HIDE DEF rest, old
<1>3. Unique(table) => Unique(rest)
  BY <1>2, <1>6 DEF Unique
<1>4. Ordered(table) => Ordered(rest)
  BY <1>2, <1>6 DEF Ordered
<1>5. AllAddressed(table) => AllAddressed(rest)
  BY <1>6 DEF AllAddressed
<1> QED  BY <1>3, <1>4, <1>5 DEF rest

\* A set of natural numbers has a least element.
LEMMA LeastElement ==
  ASSUME NEW S \in SUBSET Nat, S # {}
  PROVE  \E i \in S : \A j \in S : i <= j
<1> DEFINE Less == {p \in Nat \X Nat : p[1] < p[2]}
<1>1. IsWellFoundedOn(Less, Nat)
  BY NatLessThanWellFounded DEF OpToRel
<1>2. PICK i \in S : \A j \in S : << j, i >> \notin Less
  BY <1>1, WFMin
<1>3. \A j \in S : i \in Nat /\ j \in Nat /\ ~(j < i)
  BY <1>2
<1> QED  BY <1>3

\* What a look-up returns.
LEMMA LookupFinds ==
  ASSUME NEW table \in Seq(Rule), NEW c, NEW n, Lookup(table, c, n) # 0
  PROVE  /\ Lookup(table, c, n) \in DOMAIN table
         /\ Matches(table[Lookup(table, c, n)], c, n)
<1> DEFINE hits == {i \in DOMAIN table : Matches(table[i], c, n)}
<1>1. hits # {} /\ hits \in SUBSET Nat
  BY DEF Lookup
<1>2. \E i \in hits : \A j \in hits : i <= j
  BY <1>1, LeastElement
<1> QED  BY <1>1, <1>2 DEF Lookup

LEMMA NoMatch ==
  ASSUME NEW table \in Seq(Rule), NEW c, NEW n, Lookup(table, c, n) = 0
  PROVE  \A i \in DOMAIN table : ~Matches(table[i], c, n)
<1> DEFINE hits == {i \in DOMAIN table : Matches(table[i], c, n)}
<1>1. hits \in SUBSET (1 .. Len(table)) /\ hits \in SUBSET Nat
  OBVIOUS
<1>2. ASSUME hits # {} PROVE FALSE
  <2>1. \E i \in hits : \A j \in hits : i <= j
    BY <1>1, <1>2, LeastElement
  <2> QED  BY <1>1, <1>2, <2>1 DEF Lookup
<1> QED  BY <1>2

\* A rule whose code nothing matches may be added.
LEMMA AppendGood ==
  ASSUME NEW table \in Seq(Rule), NEW r \in Rule, Lookup(table, r.code, r.net) = 0
  PROVE  /\ Append(table, r) \in Seq(Rule)
         /\ Unique(table) => Unique(Append(table, r))
         /\ Ordered(table) => Ordered(Append(table, r))
         /\ AllAddressed(table) /\ Addressed(r) => AllAddressed(Append(table, r))
<1> DEFINE new == Append(table, r)
           n == Len(table)
<1>1. /\ n \in Nat /\ new \in Seq(Rule) /\ DOMAIN table = 1 .. n
      /\ DOMAIN new = 1 .. n + 1 /\ new[n + 1] = r
      /\ \A i \in 1 .. n : new[i] = table[i] /\ table[i] \in Rule
  OBVIOUS
<1>2. \A i \in 1 .. n : ~Matches(table[i], r.code, r.net)
  BY <1>1, NoMatch
<1> HIDE DEF new, n
<1>3. Unique(table) => Unique(new)
  BY <1>1, <1>2, OwnMatch DEF Unique, SameRule
<1>4. Ordered(table) => Ordered(new)
  BY <1>1, <1>2 DEF Ordered
<1>5. AllAddressed(table) /\ Addressed(r) => AllAddressed(new)
  BY <1>1 DEF AllAddressed
<1> QED  BY <1>1, <1>3, <1>4, <1>5 DEF new

-----------------------------------------------------------------------------
(***************************************************************************)
(* The setters of modifyScRoutingRule.                                     *)
(***************************************************************************)
\* What the setters left lead to: a rule with the address of its type.
Underway(r) ==
  CASE wish.type = "HTTP" ->
         \/ todo = << "type", "url", "exact" >>
         \/ todo = << "url", "exact" >> /\ r.type = "HTTP"
         \/ todo = << "exact" >> /\ r.type = "HTTP" /\ r.url # Null
    [] wish.type = "SIP" ->
         \/ todo = << "proxy", "exact", "type" >>
         \/ todo = << "exact", "type" >> /\ r.proxy # Null
         \/ todo = << "type" >> /\ r.proxy # Null

\* A setter keeps the identity of the rule, and what it matches unless it widens.
LEMMA AssignRule ==
  ASSUME NEW r \in Rule, NEW f \in Fields, NEW w \in Wish
  PROVE  /\ Assign(r, f, w) \in Rule
         /\ SameRule(Assign(r, f, w), r)
         /\ Assign(r, f, w).exact \/ ~r.exact =>
              \A c, n : Matches(Assign(r, f, w), c, n) => Matches(r, c, n)
<1>1. /\ Assign(r, f, w) \in Rule
      /\ SameRule(Assign(r, f, w), r)
      /\ Assign(r, f, w).code = r.code /\ Assign(r, f, w).net = r.net
  BY DEF Assign, Fields, Rule, Wish, SameRule
<1> QED  BY <1>1, BeginsAssumption DEF Matches, Rule

LEMMA NewRuleType ==
  ASSUME NEW c \in Codes, NEW n \in Networks, NEW w \in Wish
  PROVE  /\ NewRule(c, n, w) \in Rule /\ Addressed(NewRule(c, n, w))
         /\ NewRule(c, n, w).code = c /\ NewRule(c, n, w).net = n
  BY NullAssumption DEF NewRule, Rule, Wish, Types, Addressed

-----------------------------------------------------------------------------
(***************************************************************************)
(* The invariant: tables in memory and on disk are good at all times,      *)
(* addresses are there between commands, and modify gets there.            *)
(***************************************************************************)
Inv ==
  /\ TypeOK
  /\ ~up => pc = "idle"
  /\ Good(rules) /\ Good(file)
  /\ AllAddressed(file)
  /\ pc # "setting" => AllAddressed(rules)
  /\ pc = "setting" =>
       /\ \A i \in DOMAIN rules \ {target} : Addressed(rules[i])
       /\ Underway(rules[target])
  /\ Persisted

LEMMA Initially == Init => Inv
<1> SUFFICES ASSUME Init PROVE Inv
  OBVIOUS
<1>1. DOMAIN rules = {} /\ DOMAIN file = {}
  BY DEF Init
<1>2. TypeOK
  <2>1. << >> \in Seq(Rule) /\ << >> \in Seq(Fields)
    OBVIOUS
  <2> QED  BY <2>1 DEF Init, TypeOK
<1> QED  BY <1>1, <1>2 DEF Init, Inv, Good, Unique, Ordered, AllAddressed, Persisted

LEMMA CreateStep ==
  ASSUME Inv, NEW c \in Codes, NEW n \in Networks, NEW w \in Wish, Create(c, n, w)
  PROVE  Inv'
<1> DEFINE r == NewRule(c, n, w)
<1>1. r \in Rule /\ Addressed(r) /\ r.code = c /\ r.net = n
  BY NewRuleType
<1>2. /\ up /\ pc = "idle" /\ pc' = "open" /\ rules' = Append(rules, r) /\ file' = file
      /\ Lookup(rules, r.code, r.net) = 0 /\ UNCHANGED << target, todo, wish, up, history >>
  BY <1>1 DEF Create, Idle, Store
<1> HIDE DEF r
<1>3. /\ Append(rules, r) \in Seq(Rule)
      /\ Unique(rules) => Unique(Append(rules, r))
      /\ Ordered(rules) => Ordered(Append(rules, r))
      /\ AllAddressed(rules) => AllAddressed(Append(rules, r))
  BY <1>1, <1>2, AppendGood DEF Inv, TypeOK
<1>4. TypeOK'
  BY <1>2, <1>3 DEF Inv, TypeOK, history
<1> QED  BY <1>2, <1>3, <1>4 DEF Inv, Good, history, Persisted, Idle, AllAddressed

LEMMA ModifyStep ==
  ASSUME Inv, NEW c \in Codes, NEW n \in Networks, NEW w \in Wish, Modify(c, n, w)
  PROVE  Inv'
<1>1. target' \in DOMAIN rules /\ target' \in Nat
  BY LookupFinds DEF Modify, Inv, TypeOK
<1>2. Setters(w.type) \in Seq(Fields) /\ Setters(w.type) # << >>
  <2>1. "type" \in Fields /\ "url" \in Fields /\ "proxy" \in Fields /\ "exact" \in Fields
    BY DEF Fields
  <2>2. \A f, g, h \in Fields : << f, g, h >> \in Seq(Fields) /\ << f, g, h >> # << >>
    OBVIOUS
  <2> QED  BY <2>1, <2>2, Zenon DEF Setters
<1>3. TypeOK'
  BY <1>1, <1>2 DEF Modify, Idle, Inv, TypeOK, history
<1>4. Underway(rules[target])'
  BY DEF Modify, Setters, Underway, Wish, Types
<1> QED  BY <1>1, <1>3, <1>4 DEF Modify, Idle, Inv, Good, history, Persisted, AllAddressed

LEMMA DeleteStep ==
  ASSUME Inv, NEW c \in Codes, NEW n \in Networks, Delete(c, n)
  PROVE  Inv'
<1>1. PICK i \in DOMAIN rules : rules' = Without(rules, i)
  BY DEF Delete
<1>2. /\ up /\ pc = "idle" /\ pc' = "open" /\ file' = file
      /\ UNCHANGED << target, todo, wish, up, history >>
  BY DEF Delete, Idle, Store
<1>3. /\ rules' \in Seq(Rule)
      /\ Unique(rules) => Unique(rules')
      /\ Ordered(rules) => Ordered(rules')
      /\ AllAddressed(rules) => AllAddressed(rules')
  BY <1>1, WithoutElements, WithoutGood DEF Inv, TypeOK
<1>4. TypeOK'
  BY <1>2, <1>3 DEF Inv, TypeOK, history
<1> QED  BY <1>2, <1>3, <1>4 DEF Inv, Good, history, Persisted, Idle, AllAddressed

LEMMA SetStep ==
  ASSUME Inv, Set
  PROVE  Inv'
<1> DEFINE old == rules[target]
           new == Assign(old, Head(todo), wish)
<1>1. /\ pc = "setting" /\ target \in DOMAIN rules /\ wish \in Wish /\ todo # << >>
      /\ rules' = [rules EXCEPT ![target] = new] /\ todo' = Tail(todo)
      /\ widened' = (widened \/ (old.exact /\ ~new.exact))
      /\ IF todo' = << >> THEN pc' = "open" /\ target' = 0 /\ wish' = NoWish
                          ELSE UNCHANGED << pc, target, wish >>
      /\ UNCHANGED << file, up, unsaved >>
  BY DEF Set, Inv, TypeOK
<1>2. old \in Rule /\ Head(todo) \in Fields /\ Tail(todo) \in Seq(Fields)
  BY <1>1 DEF Inv, TypeOK
<1>3. /\ new \in Rule /\ SameRule(new, old)
      /\ ~widened' => \A c, n : Matches(new, c, n) => Matches(old, c, n)
  BY <1>1, <1>2, AssignRule
<1>4. /\ DOMAIN rules' = DOMAIN rules /\ rules' \in Seq(Rule) /\ rules'[target] = new
      /\ \A i \in DOMAIN rules : i # target => rules'[i] = rules[i]
  BY <1>1, <1>3 DEF Inv, TypeOK
<1>5. /\ Underway(old)
      /\ \A i \in DOMAIN rules \ {target} : Addressed(rules[i])
  BY <1>1 DEF Inv
<1>6. /\ todo' = << >> => Addressed(new)
      /\ todo' # << >> => Underway(rules[target])'
  <2>1. CASE wish.type = "HTTP"
    <3>1. CASE todo = << "type", "url", "exact" >>
      <4>1. Head(todo) = "type" /\ Tail(todo) = << "url", "exact" >> /\ Tail(todo) # << >>
        BY <3>1
      <4>2. wish' = wish /\ todo' = << "url", "exact" >> /\ todo' # << >>
        BY <1>1, <4>1
      <4> HIDE DEF new
      <4>3. new = Assign(old, "type", wish)
        BY <4>1 DEF new
      <4> QED  BY <1>2, <1>4, <4>2, <4>3, <2>1, <3>1, NullAssumption, <1>1 DEF Underway, Assign, Rule, Wish
    <3>2. CASE todo = << "url", "exact" >> /\ old.type = "HTTP"
      <4>1. Head(todo) = "url" /\ Tail(todo) = << "exact" >> /\ Tail(todo) # << >>
        BY <3>2
      <4>2. wish' = wish /\ todo' = << "exact" >> /\ todo' # << >>
        BY <1>1, <4>1
      <4> HIDE DEF new
      <4>3. new = Assign(old, "url", wish)
        BY <4>1 DEF new
      <4> QED  BY <1>2, <1>4, <4>2, <4>3, <2>1, <3>2, NullAssumption, <1>1 DEF Underway, Assign, Rule, Wish
    <3>3. CASE todo = << "exact" >> /\ old.type = "HTTP" /\ old.url # Null
      BY <1>1, <1>2, <1>4, <2>1, <3>3 DEF Addressed, Assign, Rule
    <3> QED  BY <1>5, <2>1, <3>1, <3>2, <3>3 DEF Underway
  <2>2. CASE wish.type = "SIP"
    <3>1. CASE todo = << "proxy", "exact", "type" >>
      <4>1. Head(todo) = "proxy" /\ Tail(todo) = << "exact", "type" >> /\ Tail(todo) # << >>
        BY <3>1
      <4>2. wish' = wish /\ todo' = << "exact", "type" >> /\ todo' # << >>
        BY <1>1, <4>1
      <4> HIDE DEF new
      <4>3. new = Assign(old, "proxy", wish)
        BY <4>1 DEF new
      <4> QED  BY <1>2, <1>4, <4>2, <4>3, <2>2, <3>1, NullAssumption, <1>1 DEF Underway, Assign, Rule, Wish
    <3>2. CASE todo = << "exact", "type" >> /\ old.proxy # Null
      <4>1. Head(todo) = "exact" /\ Tail(todo) = << "type" >> /\ Tail(todo) # << >>
        BY <3>2
      <4>2. wish' = wish /\ todo' = << "type" >> /\ todo' # << >>
        BY <1>1, <4>1
      <4> HIDE DEF new
      <4>3. new = Assign(old, "exact", wish)
        BY <4>1 DEF new
      <4> QED  BY <1>2, <1>4, <4>2, <4>3, <2>2, <3>2, NullAssumption, <1>1 DEF Underway, Assign, Rule, Wish
    <3>3. CASE todo = << "type" >> /\ old.proxy # Null
      BY <1>1, <1>2, <1>4, <2>2, <3>3 DEF Addressed, Assign, Rule
    <3> QED  BY <1>5, <2>2, <3>1, <3>2, <3>3 DEF Underway
  <2> QED  BY <1>1, <2>1, <2>2 DEF Wish, Types
<1> HIDE DEF old, new
<1>7. Unique(rules) => Unique(rules')
  BY <1>3, <1>4 DEF Unique, SameRule, old
<1>8. ~widened' => (Ordered(rules) => Ordered(rules'))
  BY <1>3, <1>4 DEF Ordered, SameRule, old
<1>9. ~widened' => ~widened
  BY <1>1
<1>10. TypeOK'
  BY <1>1, <1>2, <1>3, <1>4 DEF Inv, TypeOK, NoWish, Wish, Rule, old
<1> QED  BY <1>1, <1>4, <1>5, <1>6, <1>7, <1>8, <1>9, <1>10
          DEF Inv, Good, Persisted, Idle, AllAddressed

LEMMA FileStep ==
  ASSUME Inv, OpenFile \/ WriteFile \/ StoreFails \/ RemoveAll \/ Crash \/ Start
  PROVE  Inv'
<1>1. TypeOK'
  <2>1. << >> \in Seq(Rule) /\ << >> \in Seq(Fields) /\ TypeOK
    BY DEF Inv
  <2>2. CASE OpenFile
    BY <2>1, <2>2 DEF TypeOK, OpenFile, history
  <2>3. CASE WriteFile
    BY <2>1, <2>3 DEF TypeOK, WriteFile
  <2>4. CASE StoreFails
    BY <2>1, <2>4 DEF TypeOK, StoreFails
  <2>5. CASE RemoveAll
    BY <2>1, <2>5 DEF TypeOK, RemoveAll, Store, Idle, history
  <2>6. CASE Crash
    BY <2>1, <2>6 DEF TypeOK, Crash, history
  <2>7. CASE Start
    BY <2>1, <2>7 DEF Inv, TypeOK, Start, command
  <2> QED  BY <2>2, <2>3, <2>4, <2>5, <2>6, <2>7
<1>2. \A table : table = << >> => DOMAIN table = {}
  OBVIOUS
<1>3. CASE OpenFile
  BY <1>1, <1>2, <1>3 DEF OpenFile, Inv, Good, Unique, Ordered, AllAddressed,
                          Persisted, Idle, history
<1>4. CASE WriteFile
  BY <1>1, <1>4 DEF WriteFile, Inv, Good, AllAddressed, Persisted
<1>5. CASE StoreFails
  BY <1>1, <1>5 DEF StoreFails, Inv, Good, AllAddressed, Persisted
<1>6. CASE RemoveAll
  BY <1>1, <1>2, <1>6 DEF RemoveAll, Inv, Good, Unique, Ordered, AllAddressed,
                          Persisted, Idle, Store, history
<1>7. CASE Crash
  BY <1>1, <1>2, <1>7 DEF Crash, Inv, Good, Unique, Ordered, AllAddressed,
                          Persisted, Idle, history
<1>8. CASE Start
  BY <1>1, <1>8 DEF Start, Inv, Good, AllAddressed, Persisted, command
<1> QED  BY <1>3, <1>4, <1>5, <1>6, <1>7, <1>8

\* The inductive invariant.
THEOREM Invariance == Spec => []Inv
<1>1. Inv /\ [Next]_vars => Inv'
  <2> SUFFICES ASSUME Inv, [Next]_vars PROVE Inv'
    OBVIOUS
  <2>1. CASE UNCHANGED vars
    BY <2>1 DEF vars, Inv, TypeOK, Good, Unique, Ordered, AllAddressed, Underway,
                Persisted, Idle
  <2> QED  BY <2>1, CreateStep, ModifyStep, DeleteStep, SetStep, FileStep DEF Next
<1> QED  BY <1>1, Initially, PTL DEF Spec

-----------------------------------------------------------------------------
(***************************************************************************)
(* The theorems.                                                           *)
(***************************************************************************)
\* The table, the file and the command under way have their types.
THEOREM TableTyped == Spec => []TypeOK
<1>1. Inv => TypeOK
  BY DEF Inv
<1> QED  BY <1>1, Invariance, PTL

\* Code and network identify at most one rule.
THEOREM IdsUnique == Spec => []UniqueIds
<1>1. Inv => UniqueIds
  BY DEF Inv, Good, UniqueIds
<1> QED  BY <1>1, Invariance, PTL

\* Unless a rule was widened, each rule is found under its own code.
THEOREM Reachable == Spec => []RulesReachable
<1>1. Inv => RulesReachable
  <2> SUFFICES ASSUME Inv, ~widened, NEW i \in DOMAIN rules
               PROVE  Lookup(rules, rules[i].code, rules[i].net) = i
    BY DEF RulesReachable
  <2> DEFINE hits == {k \in DOMAIN rules : Matches(rules[k], rules[i].code, rules[i].net)}
  <2>1. rules[i] \in Rule /\ DOMAIN rules \subseteq Nat
    BY DEF Inv, TypeOK
  <2>2. i \in hits
    BY <2>1, OwnMatch
  <2>3. \A k \in hits : ~(k < i)
    BY DEF Inv, Good, Ordered
  <2>4. \A k \in hits : i <= k
    BY <2>1, <2>2, <2>3
  <2>5. \A k \in hits : (\A j \in hits : k <= j) => k = i
    BY <2>1, <2>2, <2>4
  <2> QED  BY <2>2, <2>4, <2>5 DEF Lookup
<1> QED  BY <1>1, Invariance, PTL

\* Between commands, and in the file at all times, rules have their addresses.
THEOREM HaveAddresses == Spec => []AddressOfType
<1>1. Inv => AddressOfType
  BY DEF Inv, AddressOfType, AllAddressed
<1> QED  BY <1>1, Invariance, PTL

\* Between commands the file is the table, unless the last store failed.
THEOREM FileIsTable == Spec => []Persisted
<1>1. Inv => Persisted
  BY DEF Inv
<1> QED  BY <1>1, Invariance, PTL
=============================================================================
