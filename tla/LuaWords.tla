-------------------------------- MODULE LuaWords --------------------------------
(***************************************************************************)
(* The integers the C code computes with.  LUA_32BITS, which makes a       *)
(* lua_Integer a 32-bit word, is the documented configuration.             *)
(***************************************************************************)
EXTENDS Integers

CONSTANT WordMax         \* the largest lua_Integer

ASSUME WordsAreNumbers == WordMax \in Nat \ {0}

\* What is left of x in a signed type whose largest value is max.
Truncated(x, max) == ((x + max + 1) % (2 * (max + 1))) - (max + 1)

\* lua_Integer arithmetic.
Wrapped(x) == Truncated(x, WordMax)
===============================================================================
