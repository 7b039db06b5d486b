------------------------------ MODULE MCReading ------------------------------
EXTENDS Reading, TLC

CONSTANTS a, b

TwoComics == {a, b}
ShelfPopular == {a}
ShelfNew == {a, b}
==============================================================================
