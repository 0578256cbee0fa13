--------------------------------- MODULE MCRsa --------------------------------
(* Small instances of the RSA routines: a two-byte modulus, two calls.   *)
EXTENDS Rsa

MCHashes == {"SHA256", "SHA384", "OTHER"}
MCAllHashes == {"SHA1", "SHA256", "SHA384", "OTHER"}
=============================================================================
