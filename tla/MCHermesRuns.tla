----------------------------- MODULE MCHermesRuns -----------------------------
(* A workspace with the files src/a.py and src/b.py, and packets that allow one *)
(* of src/a.py, src/b.py, src/[ab].py and src/?.py.                            *)
EXTENDS HermesRuns, TLC

CONSTANTS onlyA, onlyB, eitherFile, anyFile, fileA, fileB

SomePatterns == {onlyA, onlyB, eitherFile, anyFile}

FilesMatched == onlyA :> {fileA} @@ onlyB :> {fileB}
                @@ eitherFile :> {fileA, fileB} @@ anyFile :> {fileA, fileB}

SamePath == {<<p, p>> : p \in Patterns}

OnePattern == {{p} : p \in Patterns}
WithoutBrackets == {{p} : p \in Patterns \ Bracketed}

=============================================================================
