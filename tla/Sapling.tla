------------------------------ MODULE Sapling ------------------------------
(***************************************************************************)
(* The Sapling primitives of crypto.rs and ephemeral.rs, in the subgroup   *)
(* of prime order Q: a point is a multiple of the base point g_d of some   *)
(* diversifier d.  The hashes (group_hash, KDF) are symbolic, a cipher     *)
(* text opens under its own key only.                                      *)
(***************************************************************************)
EXTENDS Integers, Option

CONSTANTS
  Q,                   \* the order of the prime-order subgroup
  Diversifiers,        \* the 11-byte strings rng.fill_bytes may return
  ValidDiversifiers    \* those whose group_hash decodes to a point # identity

Scalars == 0..Q - 1

Point(d, n) == [base |-> d, multiple |-> n]

Points == [base : ValidDiversifiers \cup {None}, multiple : Scalars]

ASSUME SaplingAssumption ==
  /\ Q \in Nat /\ Q > 1
  /\ ValidDiversifiers \subseteq Diversifiers
  /\ None \notin Diversifiers /\ None \notin Points /\ None \notin Nat

(* Q is a prime above the cofactor: no two factors multiply to zero.       *)
ASSUME PrimeOrderAssumption ==
  Q > 8 /\ \A a, b \in 1..Q - 1 : (a * b) % Q # 0

(* The multiple 0 is the identity, the same point for every base.          *)
Identity == Point(None, 0)

IsPoint(p) == p # None

Mul(s, p) ==
  LET n == (s * p.multiple) % Q
  IN  IF n = 0 THEN Identity ELSE Point(p.base, n)

MulByCofactor(p) == Mul(8, p)

(* derive_g_d, None where group_hash does not decode.                      *)
DeriveGd(d) == IF d \in ValidDiversifiers THEN Point(d, 1) ELSE None

(* derive_epk, None for Err(InvalidDiversifier); generate_esk's scalars    *)
(* are canonical.                                                          *)
DeriveEpk(esk, d) ==
  IF IsPoint(DeriveGd(d)) THEN Mul(esk, DeriveGd(d)) ELSE None

(* sapling_ka_agree, None for Err(InvalidPoint) and Err(InvalidScalar).    *)
KaAgree(scalar, p) ==
  IF scalar \in Scalars /\ IsPoint(p)
  THEN Mul(scalar, MulByCofactor(p)) ELSE None

Keys == [dhsecret : Points, epk : Points]

Kdf(dhsecret, epk) == [dhsecret |-> dhsecret, epk |-> epk]

(* The nonce is always zero: a ciphertext is determined by key and text.   *)
AeadEncrypt(key, text) == [key |-> key, text |-> text, len |-> text.len + 16]

AeadDecrypt(key, ciphertext) ==
  IF ciphertext.key = key THEN ciphertext.text ELSE None
=============================================================================
