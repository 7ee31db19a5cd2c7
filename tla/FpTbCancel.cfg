SPECIFICATION TbSpec
CONSTANTS
  ExpBits = 3
  ManBits = 4
  LowestBit = 1
  Inputs <- MCInputs
INVARIANT OppositesCancel
