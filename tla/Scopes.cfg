SPECIFICATION Spec
PROPERTY
    VariablesAsLanguage
