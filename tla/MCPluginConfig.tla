-------------------------- MODULE MCPluginConfig --------------------------
(* Model-checking instance of PluginConfig with widths scaled down: an     *)
(* unsigned int of 3 bits (UINT_MAX = 7) and a long of 5 bits (LP64: wider *)
(* than unsigned int, LONG_MAX = 15) or of 3 bits (Windows: as wide).  The *)
(* numerals cover 0, 1, UINT_MAX, UINT_MAX + 1, and LONG_MAX and           *)
(* LONG_MAX + 1 of both widths; option strings have up to three tokens     *)
(* (" 7 ", "-1", "1x", "- 1", ...).  The thread reads one option, or two  *)
(* so that one read can follow another.  Bootstrap options have up to     *)
(* three boot tokens (",h1", "h1,", ",,", "h1 ,h1:3306", ...).             *)
EXTENDS PluginConfig

MCUIntBits == 3

MCLongBitsLP64 == 5

MCLongBitsWindows == 3

MCNumeralValues == {0, 1, 3, 4, 7, 8, 15, 16}

MCDefaultTTL == 5

MCMaxTokens == 3

MCMaxReads == 2

MCMaxReadsOne == 1

\* One host: a second would only rename addresses.  Port 0 (none given) and
\* one explicit port; the default port differs from it.
MCHosts == {"h1"}

MCPortValues == {0, 3306}

MCDefaultPort == 32275

=============================================================================
