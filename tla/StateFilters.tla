---------------------------- MODULE StateFilters -----------------------------
(***************************************************************************)
(* The filters and handlers of the state subscriptions (client/filters.py, *)
(* client/handlers.py), and the two filters that go with the user's own    *)
(* handler.                                                                 *)
(*                                                                         *)
(* A message gives some scopes a list of entries:                          *)
(*   [height |-> n or Missing, mode |-> its TMF flags, target |-> name,    *)
(*    states |-> a function from the scopes it has to lists of entries]    *)
(* An entry has a contract <<dapp, contract>>, a key and the names of the  *)
(* state it holds, each of them possibly Missing.                          *)
(***************************************************************************)
EXTENDS Naturals, Sequences, SequencesExt

CONSTANT Missing   \* a field the JSON object does not have

KeyedScopes ==
  {"KeyedScopeStates", "GlobalScatteredMaps",
   "ScatteredMapOnShard_CloneScale", "ScatteredMapOnShard_SplitScale"}
NonKeyedScopes == {"GlobalStates", "ShardStates"}
AllScopes == KeyedScopes \cup NonKeyedScopes

(* r.get(scope, [])                                                         *)
Entries(r, scope) ==
  IF scope \in DOMAIN r.states THEN r.states[scope] ELSE <<>>

OfDapp(e, dapp) == e.contract # Missing /\ e.contract[1] = dapp
OfContract(e, contract) == e.contract # Missing /\ e.contract = contract
OfKey(e, key) == e.key # Missing /\ e.key = key
HoldsState(e, name) == e.state # Missing /\ name \in e.state

-----------------------------------------------------------------------------
(* Filters: is any entry of the scopes looked at a match?                   *)

EntriesOf(r, scopes) == UNION {ToSet(Entries(r, scope)) : scope \in scopes}

dapp_filter(dapp, r) == \E e \in EntriesOf(r, AllScopes) : OfDapp(e, dapp)

contract_filter(contract, r) ==
  \E e \in EntriesOf(r, AllScopes) : OfContract(e, contract)

scopekey_filter(key, r) == \E e \in EntriesOf(r, KeyedScopes) : OfKey(e, key)

contract_and_scopekey_filter(contract, key, r) ==
  \E e \in EntriesOf(r, KeyedScopes) : OfKey(e, key) /\ OfContract(e, contract)

contract_and_statekey_filter(contract, name, r) ==
  \E e \in EntriesOf(r, AllScopes) : HoldsState(e, name) /\ OfContract(e, contract)

height_filter(start, end, r) ==
  r.height # Missing /\ start <= r.height /\ r.height < end

(* names is the set of the names asked for, or Missing for any name.       *)
external_relay_filter(names, r) ==
  /\ "TMF_EXTERNAL" \in r.mode
  /\ names # Missing => r.target \in names

-----------------------------------------------------------------------------
(* Handlers: a copy of the message whose lists are emptied, and refilled   *)
(* with the matches of the scopes looked at.                               *)

(* What the loop over a list has appended when it ends.                    *)
Kept(list, matches) ==
  LET kept[n \in 0 .. Len(list)] ==
        IF n = 0 THEN <<>>
        ELSE IF list[n] \in matches THEN Append(kept[n - 1], list[n])
        ELSE kept[n - 1]
  IN  kept[Len(list)]

Refilled(r, scopes, matches) ==
  [r EXCEPT !.states =
     [scope \in DOMAIN r.states |->
        IF scope \in scopes THEN Kept(r.states[scope], matches) ELSE <<>>]]

default_dapp_state_handler(dapp, r) ==
  Refilled(r, AllScopes, {e \in EntriesOf(r, AllScopes) : OfDapp(e, dapp)})

default_contract_state_handler(contract, r) ==
  Refilled(r, AllScopes, {e \in EntriesOf(r, AllScopes) : OfContract(e, contract)})

default_scopekey_state_handler(key, r) ==
  Refilled(r, KeyedScopes, {e \in EntriesOf(r, KeyedScopes) : OfKey(e, key)})

(* A scope is emptied in the second loop again, before it is refilled.     *)
default_contract_scopekey_state_handler(contract, key, r) ==
  Refilled(r, KeyedScopes,
           {e \in EntriesOf(r, KeyedScopes) : OfKey(e, key) /\ OfContract(e, contract)})

default_contract_statekey_state_handler(contract, name, r) ==
  Refilled(r, AllScopes,
           {e \in EntriesOf(r, AllScopes) : HoldsState(e, name) /\ OfContract(e, contract)})

-----------------------------------------------------------------------------
(* The wrappers of subscribe, each naming a filter and a handler.  A       *)
(* subscription is a record [by |-> the wrapper, ...its arguments].        *)

FaultyPasses(s, r) ==   \* one filter for all the wrappers with a contract
  CASE s.by = "dapp"              -> dapp_filter(s.dapp, r)
    [] s.by = "key"               -> scopekey_filter(s.key, r)
    [] s.by = "height"            -> height_filter(s.start, s.end, r)
    [] s.by = "external"          -> external_relay_filter(s.names, r)
    [] OTHER                      -> contract_filter(s.contract, r)

Passes(s, r) ==
  CASE s.by = "dapp"              -> dapp_filter(s.dapp, r)
    [] s.by = "contract"          -> contract_filter(s.contract, r)
    [] s.by = "key"               -> scopekey_filter(s.key, r)
    [] s.by = "contract_key"      -> contract_and_scopekey_filter(s.contract, s.key, r)
    [] s.by = "contract_state"    -> contract_and_statekey_filter(s.contract, s.name, r)
    [] s.by = "external"          -> external_relay_filter(s.names, r)
    [] s.by = "height"            -> height_filter(s.start, s.end, r)

Handled(s, r) ==
  CASE s.by = "dapp"              -> default_dapp_state_handler(s.dapp, r)
    [] s.by = "contract"          -> default_contract_state_handler(s.contract, r)
    [] s.by = "key"               -> default_scopekey_state_handler(s.key, r)
    [] s.by = "contract_key"      -> default_contract_scopekey_state_handler(s.contract, s.key, r)
    [] s.by = "contract_state"    -> default_contract_statekey_state_handler(s.contract, s.name, r)
    [] s.by \in {"external", "height"} -> r

=============================================================================
