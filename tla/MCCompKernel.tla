----------------------------- MODULE MCCompKernel -----------------------------
EXTENDS CompKernel

CONSTANTS a, b, c

\* Two names: a file, and one that is a file or a directory with a file.
MCPaths == {<<1>>, <<2>>, <<2, 1>>}

\* The content of the original kernel, and two others that are only compared.
MCContents == {a, b, c}
OtherContents == Permutations({b, c})
=============================================================================
