------------------------------ MODULE HostTypes ------------------------------
(***************************************************************************)
(* The values that cross between the host and Roc, and which references the*)
(* generated incref and decref of their types touch, in order              *)
(* (src/src/roc_platform_abi.rs, 2080-2840).                               *)
(*                                                                         *)
(* A value has a type and fields, which are cells, or NoCell for a small   *)
(* string or an empty list.  The fields of the subscriptions are named     *)
(* after the subscription; those of one that is off (Err) are absent, like *)
(* the rows of a view without rows.  What is no reference is left out: exit*)
(* codes, stream ids, durations.                                           *)
(***************************************************************************)
EXTENDS RocHeap

HostValue(type, field) == [type |-> type, field |-> field]

(* Mutant of EffectFields: one of two strings is forgotten.                *)
EffectContentOnly(type) ==
  CASE type = "Exit"        -> <<>>
    [] type = "Print"       -> <<"text">>
    [] type = "TcpSend"     -> <<"data">>
    [] type = "WriteToFile" -> <<"content">>

(* The host's effects: of WriteToFile the content goes first.              *)
EffectFields(type) ==
  CASE type = "Exit"        -> <<>>
    [] type = "Print"       -> <<"text">>
    [] type = "TcpSend"     -> <<"data">>
    [] type = "WriteToFile" -> <<"content", "filename">>

TimerFields   == <<"on_fire">>
AcceptFields  == <<"host", "accepted", "accept_closed">>
StdinFields   == <<"stdin">>
ConnectFields == <<"address", "connected", "connect_closed">>
ReceiveFields == <<"receive">>

SubscriptionsFields ==
  TimerFields \o AcceptFields \o StdinFields \o ConnectFields \o ReceiveFields

(* What init and update return: subscriptions, effects and model.          *)
ResultFields == SubscriptionsFields \o <<"effects", "m">>

ViewFields == <<"rows">>

Effects == {"Exit", "Print", "TcpSend", "WriteToFile"}

Fields(type) ==
  CASE type = "Subscriptions" -> SubscriptionsFields
    [] type = "Result"        -> ResultFields
    [] type = "View"          -> ViewFields
    [] type \in Effects       -> EffectFields(type)

(* A box is freed without what is in it (decref_box).                      *)
BoxFields == {"on_fire", "m"}

(* The decref of one field: of a box, or of a string, list or closure.     *)
decref_field(h, v, f) ==
  IF f \notin DOMAIN v.field \/ v.field[f] = NoCell THEN h
  ELSE IF f \in BoxFields THEN decref(h, v.field[f])
  ELSE release(h, v.field[f], Len(h[v.field[f]].items))

decref_value(h, v) ==
  LET fields == Fields(v.type)
      after[k \in 0 .. Len(fields)] ==
        IF k = 0 THEN h ELSE decref_field(after[k - 1], v, fields[k])
  IN  after[Len(fields)]

(* How many of these fields refer to c?                                    *)
FieldsTo(v, fields, c) == Cardinality({f \in fields \cap DOMAIN v.field : v.field[f] = c})

(* incref of each of these fields; their order makes no difference.        *)
incref_fields(h, v, fields, amount) ==
  [c \in Cells |-> IF IsStatic(h, c) THEN h[c]
                   ELSE [h[c] EXCEPT !.rc = @ + amount * FieldsTo(v, fields, c)]]

(* Mutant of incref_value: the parts of the subscriptions are not retained.*)
IncrefShallow(h, v, amount) ==
  incref_fields(h, v, IF v.type = "Subscriptions" THEN {} ELSE ToSet(Fields(v.type)), amount)

incref_value(h, v, amount) == incref_fields(h, v, ToSet(Fields(v.type)), amount)

=============================================================================
