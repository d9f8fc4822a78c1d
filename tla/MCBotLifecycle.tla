--------------------------- MODULE MCBotLifecycle ---------------------------
\* Model checking of BotLifecycle: two users' bots on a small pool.
EXTENDS BotLifecycle
=============================================================================
