----------------------------- MODULE MCWrapper -----------------------------
(***************************************************************************)
(* Arguments that differ in at most two fields from one every entry point  *)
(* accepts, so that every two checks meet in every order.                  *)
(***************************************************************************)
EXTENDS Wrapper

Key(n)      == [i \in 1..n |-> i]
Text(n)     == JS("string", [utf8 |-> Bytes("text", n), bytes |-> None])
Hex(n)      == JS("string", [utf8 |-> Bytes("hex", 2 * n), bytes |-> Key(n)])
Object(proto, toJSON, json, replaced) ==
  JS("object", [proto |-> proto, toJSON |-> toJSON,
                json |-> json, replaced |-> replaced])
Undefined   == JS("undefined", None)
Payload     == Bytes("payload", 9)
Other       == Bytes("other", 7)

Keys ==
  {JS(t, Key(n)) : t \in {"Uint8Array", "Buffer", "Array"}, n \in {19, 20, 21}}
    \cup {Hex(19), Hex(20), Hex(32), Text(40), JS("number", 40),
          JS("object", <<>>), Null, Undefined}

Strings(cap) ==
  {Text(n) : n \in {0, cap, cap + 1}} \cup {Null, Undefined, JS("number", 40)}

Arguments ==
  [plaintext |->
     {JS(t, Payload) : t \in {"Uint8Array", "Buffer", "Int8Array"}}
       \cup {Text(0), Text(9), JS("number", 40), Null, Undefined}
       \cup {Object(p, "nowhere", j, None) :
               p \in {"null", "Object.prototype", "other realm", "root",
                     "Array", "class"}, j \in {Payload, None}}
       \cup {Object(p, "own", Payload, Other) : p \in {"Object.prototype", "root"}}
       \cup {Object(p, "inherited", Payload, r) :
               p \in {"root", "Array"}, r \in {Other, None}},
   outerVdxfKey |-> Keys,
   systemId |-> Keys,
   label |-> Strings(LabelCap),
   mimeType |-> Strings(MimeCap),
   dataDepositVoutIndex |->
     {JS("number", t) : t \in {None, -2, -1, 0, 1, 2, 2 * U32Max - 1,
                              2 * U32Max, 2 * U32Max + 1, 2 * U32Max + 2}}
       \cup {Text(1), Null, Undefined},
   signature |->
     {JS(t, Bytes("signature", n)) : t \in {"Uint8Array", "Buffer"}, n \in {0, 3}}
       \cup {Text(3), JS("Array", Bytes("signature", 3)), Null, Undefined}]

Usual ==
  [plaintext |-> JS("Uint8Array", Payload),
   outerVdxfKey |-> JS("Uint8Array", Key(20)),
   systemId |-> JS("Buffer", Reverse(Key(20))),
   label |-> Text(5), mimeType |-> Text(6),
   dataDepositVoutIndex |-> JS("number", 6),
   signature |-> JS("Uint8Array", Bytes("signature", 3))]

(* An argument that is a number, say.                                      *)
NoFields == [f \in DOMAIN Usual |-> Undefined]

MCInputs ==
  {None, NoFields, ReadmeUsage}
    \cup UNION {{[Usual EXCEPT ![f] = v, ![g] = w] :
                  v \in Arguments[f], w \in Arguments[g]} :
                f \in DOMAIN Usual, g \in DOMAIN Usual}
=============================================================================
