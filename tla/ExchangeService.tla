-------------------------- MODULE ExchangeService --------------------------
(***************************************************************************)
(* What a Modbus transport promises to the code that calls it, one request *)
(* at a time (modbus_client.py serializes the calls): a call puts its      *)
(* request on the wire at most once, it ends with an answer or an error,   *)
(* and the answer was given to this request, never to an earlier one.      *)
(***************************************************************************)
EXTENDS Naturals

CONSTANT Unanswered

VARIABLES
    call,     \* number of the last request
    open,     \* it has not ended
    answer    \* the request whose answer it returned, or Unanswered

exchangeVars == <<call, open, answer>>

ExchangeInit == call = 0 /\ open = FALSE /\ answer = Unanswered

Begin == ~open /\ open' = TRUE /\ call' = call + 1 /\ answer' = Unanswered

Succeed == open /\ open' = FALSE /\ answer' = call /\ UNCHANGED call

Fail == open /\ open' = FALSE /\ UNCHANGED <<call, answer>>

ExchangeNext == Begin \/ Succeed \/ Fail

ExchangeSpec == ExchangeInit /\ [][ExchangeNext]_exchangeVars
=============================================================================
