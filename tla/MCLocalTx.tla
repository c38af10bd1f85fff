----------------------------- MODULE MCLocalTx -------------------------------
(***************************************************************************)
(* LocalTx on the calls of MCArgsCodec, and on round trips with each kind  *)
(* of contract and with the fields of a transaction at the edges of their  *)
(* widths.  A byte has 16 values, so an ISN ends at 65535, a ttl at 8.     *)
(***************************************************************************)
EXTENDS MCArgsCodec, LocalTx

Contract(core, sn, scope) == [core |-> core, sn |-> sn, scope |-> scope]

Plain == [id |-> Contract(FALSE, 1, 0), delegatee |-> NoDelegatee, isn |-> 7,
          ttl |-> 5, gas_price |-> 100, gas_limit |-> 500, no_args |-> FALSE]

Contracts ==
  { Contract(FALSE, 1, 0), Contract(FALSE, 1, 1),
    Contract(TRUE, CORE_CONTRACT_COIN, 0), Contract(TRUE, CORE_CONTRACT_COIN, 1),
    Contract(TRUE, CORE_CONTRACT_COIN + 2, 0) }

Coin == Contract(TRUE, CORE_CONTRACT_COIN, 1)   \* on an address

(* The longest name has two characters, and room for four bytes, as the    *)
(* eight characters of a DApp's have room for 32.                           *)
Letter == [bytes |-> <<6>>, types |-> {"DAPP", "NAME"}]
WideDigit == [bytes |-> <<13, 9>>, types |-> {"DAPP", "TOKEN", "NAME"}]
Hash == [bytes |-> <<3>>, types |-> {"TOKEN", "NAME"}]

Names ==
  {<<>>, <<Letter>>, <<Hash>>, <<Letter, Letter>>, <<Letter, WideDigit>>,
   <<WideDigit, WideDigit>>, <<Letter, Letter, Letter>>}

MCNameSizes == [DAPP |-> 1 .. 2, TOKEN |-> 1 .. 2, NAME |-> {1}]

Forms ==
  {[Plain EXCEPT !.id = id, !.delegatee.by = d] : id \in Contracts, d \in {"none", "account"}}
    \cup {[Plain EXCEPT !.id = Coin, !.delegatee = [by |-> "name", name |-> n]] : n \in Names}
    \cup {[Plain EXCEPT !.isn = n] : n \in {65535, 65536}}
    \cup {[Plain EXCEPT !.ttl = n] : n \in {1, 2, 8, 9}}
    \cup {[Plain EXCEPT !.gas_price = n] : n \in {0, 65535, 65536, 131071, 1000000}}
    \cup {[Plain EXCEPT !.gas_limit = n] : n \in {65535, 65536}}

Small == CallOf(<<Arg(Uint(2), 255), Arg(String, <<1, 7>>)>>)
Long(n) == CallOf(<<Arg(Fixed(n), [i \in 1 .. n |-> i % 16])>>)
Short == CallOf(<<Arg(Fixed(3), <<9>>)>>)

(* No arguments for a signature, too few, and some without a signature.     *)
Misfits ==
  { [sig |-> <<Uint(2)>>, args |-> <<>>], [sig |-> <<Uint(2), Bool>>, args |-> <<7>>],
    [sig |-> <<>>, args |-> <<7>>] }

TxCalls == MCCalls \cup {CallOf(<<>>), Small, Long(255), Long(256), Short} \cup Misfits

MCTrips ==
  {[call |-> Small, form |-> f] : f \in Forms}
    \cup {[call |-> c, form |-> Plain] :
            c \in {CallOf(<<>>), Long(255), Long(256), Short} \cup Misfits}

MCHashes == {0, 300000, 700000, 2300000, 2700000, 3 * 16 ^ 6}

=============================================================================
