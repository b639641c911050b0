------------------------------- MODULE Option -------------------------------
(***************************************************************************)
(* Rust's Option::None, and the error arm of a Result whose error carries  *)
(* nothing a property tells apart.  Some(x) is x itself.                   *)
(***************************************************************************)
CONSTANT None
=============================================================================
