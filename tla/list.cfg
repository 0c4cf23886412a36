SPECIFICATION Spec
CONSTANTS
    x = x  y = y  n1 = n1  n2 = n2  n3 = n3
    Elements <- TwoElements
    Nodes <- ThreeNodes
    Meta = Meta  NULL = NULL
PROPERTY
    ListSpec
