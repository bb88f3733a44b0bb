------------------------------ MODULE MCTokens ------------------------------
\* One account, three refresh tokens and two requests in flight.
EXTENDS Tokens, TLC

CallsAlike == Permutations(TokenCalls)
=============================================================================
