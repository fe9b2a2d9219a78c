----------------------------- MODULE MCSettings -----------------------------
(***************************************************************************)
(* Instances of Settings: one pair, then three of them, two with the same  *)
(* native language.                                                        *)
(***************************************************************************)
EXTENDS Settings

To(native, target) == [target |-> target, native |-> native]

MCCatalogs == {{To("en", "ja")}, {To("en", "ja"), To("en", "fr"), To("ja", "en")}}
=============================================================================
